---------------------------- MODULE SvmLaunchProofs ----------------------------
(***************************************************************************)
(* What Cpu and SvmLaunch guarantee on every processor, with every pool    *)
(* and every guest.  The invariant follows the order of the code: what is  *)
(* known of the processor grows with each check that is passed, and what   *)
(* is known of the registers with each push.                               *)
(***************************************************************************)
EXTENDS SvmLaunch, TLAPS

(* Where the processor is refused; the steps of Cpu; where the flags are loaded,
   where the family is known, and so on. *)
Reasons ==
  {"Unknown CPU vendor", "init_amd failed", "Nested paging is not supported.", "No svm feature",
   "#GP", "alloc_boot_pages", "#PF"}

CpuPc ==
  {"early_identify_cpu", "identify_cpu", "init_amd", "__init_amd", "display_cacheinfo",
   "enable_svm", "wrmsr_efer", "alloc_host_save_area", "wrmsr_hsave", "vm_create"}
Loaded == {"identify_cpu", "init_amd", "__init_amd", "display_cacheinfo", "enable_svm"}
FamilyKnown == {"__init_amd", "display_cacheinfo", "enable_svm", "wrmsr_efer"}
Launched ==
  {"vm_create", "svm_launch", "clgi", "vmrun", "guest", "stgi", "handle_vmexit", "dead"}
Accepted == {"alloc_host_save_area", "wrmsr_hsave"} \cup Launched

(* struct cpuinfo_x86 *)
CpuInfo ==
  [vendor : {"unset", "AMD", "unknown"}, x86 : 0 .. 255,
   extended_cpuid_level : [hi : Half, lo : Half],
   x86_capability : SUBSET (0 .. 223), cacheinfo : SUBSET Nat]

Shapes ==
  /\ cpu \in Processors
  /\ pc \in CpuPc \cup Reasons \cup Launched
  /\ c \in CpuInfo
  /\ msr \in [efer : SUBSET (0 .. 63), vm_hsave_pa : Nat]
  /\ host_save_area \in Nat
  /\ pool \subseteq Nat
  /\ grants \in Seq([first : Nat, nr : Nat \ {0}])

Flags ==
  pc \in Loaded =>
    /\ X86_FEATURE_SVME \in c.x86_capability <=> SvmBit(cpu)
    /\ c.vendor = "AMD" <=> cpu.vendor_id = "AuthenticAMD"
    /\ c.x86 = 15 <=> Family15(cpu)

Checked ==
  /\ pc \in FamilyKnown \cup {"init_amd"} => cpu.vendor_id = "AuthenticAMD"
  /\ pc \in FamilyKnown => Family15(cpu)
  /\ pc = "wrmsr_efer" => SvmBit(cpu)
  /\ pc \in Accepted => Intended(cpu)

Enabled ==
  /\ pc \in CpuPc \ Accepted => msr.efer \ {_EFER_NX} = BootEfer
  /\ pc \in Accepted => msr.efer \ {_EFER_NX} = BootEfer \cup {_EFER_SVME}
  /\ pc \in CpuPc \ ({"wrmsr_hsave"} \cup Launched) => grants = << >>
  /\ pc \in {"wrmsr_hsave"} \cup Launched =>
       /\ host_save_area < MappedFrames
       /\ grants = << [first |-> host_save_area, nr |-> 1] >>
  /\ pc \in Launched => msr.vm_hsave_pa = host_save_area

CpuInv == Shapes /\ Flags /\ Checked /\ Enabled /\ RefusedForTheReasonPrinted

------------------------------------------------------------------------------
(* A word of flags holds bit 2 of word 6 only if it is word 6. *)
LEMMA WordFlag ==
  ASSUME NEW loaded \in BOOLEAN, NEW w \in 0 .. 6, NEW bits \in SUBSET Bit
  PROVE  /\ Word(loaded, w, bits) \subseteq 0 .. 223
         /\ X86_FEATURE_SVME \in Word(loaded, w, bits) <=> loaded /\ w = 6 /\ 2 \in bits
BY DEF Word, Flag, X86_FEATURE_SVME, Bit

LEMMA CapabilityFlag ==
  ASSUME NEW p \in Processors
  PROVE  /\ Capability(p) \subseteq 0 .. 223
         /\ X86_FEATURE_SVME \in Capability(p) <=> SvmBit(p)
<1> DEFINE Std == p.cpuid_level >= 1
           Trm == p.tlvl.hi = 32902 /\ p.tlvl.lo >= 1
<1>1. /\ p.edx1 \in SUBSET Bit /\ p.ecx1 \in SUBSET Bit /\ p.edx81 \in SUBSET Bit
      /\ p.ecx81 \in SUBSET Bit /\ p.edx86 \in SUBSET Bit
  BY CpuAssumption DEF Processor
<1>2. Std \in BOOLEAN /\ Trm \in BOOLEAN /\ ExtendedLeaves(p) \in BOOLEAN
  BY DEF ExtendedLeaves
<1> HIDE DEF Std, Trm
<1>3. /\ Word(Std, 0, p.edx1) \subseteq 0 .. 223 /\ X86_FEATURE_SVME \notin Word(Std, 0, p.edx1)
      /\ Word(Std, 4, p.ecx1) \subseteq 0 .. 223 /\ X86_FEATURE_SVME \notin Word(Std, 4, p.ecx1)
  BY <1>1, <1>2, WordFlag
<1>4. /\ Word(ExtendedLeaves(p), 1, p.edx81) \subseteq 0 .. 223
      /\ X86_FEATURE_SVME \notin Word(ExtendedLeaves(p), 1, p.edx81)
      /\ Word(Trm, 2, p.edx86) \subseteq 0 .. 223
      /\ X86_FEATURE_SVME \notin Word(Trm, 2, p.edx86)
  BY <1>1, <1>2, WordFlag
<1>5. /\ Word(ExtendedLeaves(p), 6, p.ecx81) \subseteq 0 .. 223
      /\ X86_FEATURE_SVME \in Word(ExtendedLeaves(p), 6, p.ecx81) <=> ExtendedLeaves(p) /\ 2 \in p.ecx81
  BY <1>1, <1>2, WordFlag
<1>6. SvmBit(p) <=> ExtendedLeaves(p) /\ 2 \in p.ecx81
  BY DEF SvmBit, ExtendedLeaves
<1>7. Capability(p) = Word(Std, 0, p.edx1) \cup Word(Std, 4, p.ecx1) \cup
                      Word(ExtendedLeaves(p), 1, p.edx81) \cup
                      Word(ExtendedLeaves(p), 6, p.ecx81) \cup Word(Trm, 2, p.edx86)
  BY DEF Capability, Std, Trm
<1> QED
  BY <1>3, <1>4, <1>5, <1>6, <1>7

(* Eight bits are enough: only an extended family of 0 gives 15. *)
LEMMA Family ==
  ASSUME NEW p \in Processors
  PROVE  LET x86 == IF p.cpuid_level >= 1 THEN FamilyOf(p.tfms) ELSE 4
         IN x86 \in 0 .. 255 /\ (x86 = 15 <=> Family15(p))
<1> DEFINE base == (p.tfms \div 256) % 16
           ext == (p.tfms \div 1048576) % 256
<1>1. base \in 0 .. 15 /\ ext \in 0 .. 255
  BY CpuAssumption DEF Processor
<1>2. FamilyOf(p.tfms) = IF base = 15 THEN (base + ext) % 256 ELSE base
  BY DEF FamilyOf
<1>3. Family15(p) <=> p.cpuid_level >= 1 /\ base = 15 /\ ext = 0
  BY DEF Family15
<1> HIDE DEF base, ext
<1>4. base = 15 => (base + ext) % 256 \in 0 .. 255 /\ ((base + ext) % 256 = 15 <=> ext = 0)
  BY <1>1
<1> QED
  BY <1>1, <1>2, <1>3, <1>4

------------------------------------------------------------------------------
LEMMA CpuInvInit == CpuInit => CpuInv
<1> SUFFICES ASSUME CpuInit PROVE CpuInv
  OBVIOUS
<1>1. PICK nx \in SUBSET {_EFER_NX} : msr = [efer |-> BootEfer \cup nx, vm_hsave_pa |-> 0]
  BY DEF CpuInit
<1>2. /\ msr \in [efer : SUBSET (0 .. 63), vm_hsave_pa : Nat]
      /\ msr.efer \ {_EFER_NX} = BootEfer
  <2>1. BootEfer \subseteq 0 .. 63 /\ _EFER_NX \in 0 .. 63 /\ _EFER_NX \notin BootEfer
    BY DEF BootEfer, _EFER_NX
  <2>2. BootEfer \cup nx \in SUBSET (0 .. 63) /\ (BootEfer \cup nx) \ {_EFER_NX} = BootEfer
    BY <2>1
  <2> QED
    BY <1>1, <2>2
<1>3. c \in CpuInfo
  BY DEF CpuInit, CpuReset, CpuInfo, Half
<1>4. Shapes
  <2>1. cpu \in Processors /\ host_save_area \in Nat /\ pool \subseteq Nat
    BY CpuAssumption DEF CpuInit, CpuReset
  <2>2. pc \in CpuPc /\ grants \in Seq([first : Nat, nr : Nat \ {0}])
    BY DEF CpuInit, CpuReset, CpuPc
  <2> QED
    BY <1>2, <1>3, <2>1, <2>2 DEF Shapes
<1> QED
  BY <1>2, <1>4 DEF CpuInit, CpuReset, CpuInv, Flags, Checked, Enabled, Loaded, FamilyKnown, Accepted,
              Launched, CpuPc, Reasons, RefusedForTheReasonPrinted

LEMMA EarlyIdentify == CpuInv /\ early_identify_cpu => CpuInv'
<1> SUFFICES ASSUME CpuInv, early_identify_cpu PROVE CpuInv'
  OBVIOUS
<1>1. /\ pc = "early_identify_cpu" /\ pc' = "identify_cpu" /\ cpu' = cpu /\ cpu \in Processors
      /\ UNCHANGED <<msr, host_save_area, pool, grants>>
  BY DEF early_identify_cpu, CpuInv, Shapes
<1>8. c'.x86 = IF cpu.cpuid_level >= 1 THEN FamilyOf(cpu.tfms) ELSE 4
  BY DEF early_identify_cpu
<1>2. c'.x86 \in 0 .. 255 /\ (c'.x86 = 15 <=> Family15(cpu))
  BY <1>1, <1>8, Family
<1>3. c'.x86_capability = Capability(cpu)
  BY DEF early_identify_cpu, CpuInv, Shapes
<1>4. c'.vendor = IF cpu.vendor_id = "AuthenticAMD" THEN "AMD" ELSE "unknown"
  BY DEF early_identify_cpu, CpuInv, Shapes
<1>5. Capability(cpu) \subseteq 0 .. 223 /\ (X86_FEATURE_SVME \in Capability(cpu) <=> SvmBit(cpu))
  BY <1>1, CapabilityFlag
<1>6. cpu.xlvl \in [hi : Half, lo : Half]
  BY <1>1, CpuAssumption DEF Processor
<1>7. Shapes'
  BY <1>1, <1>2, <1>3, <1>4, <1>5, <1>6 DEF early_identify_cpu, CpuInv, Shapes, CpuInfo, CpuPc
<1> QED
  BY <1>1, <1>2, <1>3, <1>4, <1>5, <1>7
  DEF CpuInv, Flags, Checked, Enabled, Loaded, FamilyKnown, Accepted, Launched, CpuPc, Reasons,
      RefusedForTheReasonPrinted, Family15, SvmBit

LEMMA FlagNumbers ==
  /\ X86_FEATURE_SVME = 194 /\ X86_FEATURE_REP_GOOD = 100 /\ X86_FEATURE_FXSAVE_LEAK = 103
  /\ Flag(0, 31) = 31 /\ \A b \in Bit : Flag(5, b) = 160 + b
BY DEF X86_FEATURE_SVME, X86_FEATURE_REP_GOOD, X86_FEATURE_FXSAVE_LEAK, Flag, Bit

(* The two fields that are changed one at a time. *)
LEMMA SetCapability ==
  ASSUME NEW r \in CpuInfo, NEW X \in SUBSET (0 .. 223), NEW u,
         u = [r EXCEPT !.x86_capability = X]
  PROVE  u \in CpuInfo /\ u.vendor = r.vendor /\ u.x86 = r.x86 /\ u.x86_capability = X
BY DEF CpuInfo

LEMMA SetCacheInfo ==
  ASSUME NEW r \in CpuInfo, NEW X \in SUBSET Nat, NEW u, u = [r EXCEPT !.cacheinfo = X]
  PROVE  /\ u \in CpuInfo /\ u.vendor = r.vendor /\ u.x86 = r.x86
         /\ u.x86_capability = r.x86_capability
BY DEF CpuInfo

LEMMA CheckVendor == CpuInv /\ identify_cpu => CpuInv'
<1> SUFFICES ASSUME CpuInv, identify_cpu PROVE CpuInv'
  OBVIOUS
<1>1. /\ pc = "identify_cpu" /\ UNCHANGED <<cpu, c, msr, host_save_area, pool, grants>>
      /\ pc' = IF c.vendor = "AMD" THEN "init_amd" ELSE "Unknown CPU vendor"
  BY DEF identify_cpu, Die
<1>2. Shapes'
  BY <1>1 DEF CpuInv, Shapes, CpuPc, Reasons
<1>10. Flags'
  BY <1>1, <1>2 DEF CpuInv, Flags, Loaded
<1>11. Checked'
  BY <1>1, <1>2 DEF CpuInv, Flags, Checked, Loaded, FamilyKnown, Accepted, Launched
<1>12. Enabled'
  BY <1>1, <1>2 DEF CpuInv, Enabled, CpuPc, Accepted, Launched
<1>13. RefusedForTheReasonPrinted'
  BY <1>1, <1>2 DEF CpuInv, Flags, Loaded, RefusedForTheReasonPrinted
<1> QED
  BY <1>2, <1>10, <1>11, <1>12, <1>13 DEF CpuInv

LEMMA CheckFamily == CpuInv /\ init_amd => CpuInv'
<1> SUFFICES ASSUME CpuInv, init_amd PROVE CpuInv'
  OBVIOUS
<1> DEFINE X == (c.x86_capability \ {Flag(0, 31)}) \cup {X86_FEATURE_FXSAVE_LEAK} \cup
                {f \in {X86_FEATURE_REP_GOOD} : RepGood(cpu.tfms)}
<1>1. pc = "init_amd" /\ UNCHANGED <<cpu, msr, host_save_area, pool, grants>>
  BY Zenon DEF init_amd
<1>2. \/ pc' = "init_amd failed" /\ c.x86 # 15 /\ c' = c
      \/ pc' = "__init_amd" /\ c.x86 = 15 /\ c' = [c EXCEPT !.x86_capability = X]
  BY Zenon DEF init_amd, Die
<1>3. c \in CpuInfo /\ c.x86_capability \subseteq 0 .. 223
  BY DEF CpuInv, Shapes, CpuInfo
<1>4. /\ X \subseteq 0 .. 223
      /\ X86_FEATURE_SVME \in X <=> X86_FEATURE_SVME \in c.x86_capability
  BY <1>3, FlagNumbers
<1> HIDE DEF X
<1>5. /\ c' \in CpuInfo /\ c'.vendor = c.vendor /\ c'.x86 = c.x86
      /\ X86_FEATURE_SVME \in c'.x86_capability <=> X86_FEATURE_SVME \in c.x86_capability
  <2>1. CASE c' = c
    BY <1>3, <2>1
  <2>2. CASE c' = [c EXCEPT !.x86_capability = X]
    BY <1>3, <1>4, <2>2, SetCapability
  <2> QED
    BY <1>2, <2>1, <2>2
<1>6. Shapes'
  BY <1>1, <1>2, <1>5 DEF CpuInv, Shapes, CpuPc, Reasons
<1>10. Flags'
  BY <1>1, <1>2, <1>5, <1>6 DEF CpuInv, Flags, Loaded
<1>11. Checked'
  BY <1>1, <1>2, <1>5, <1>6 DEF CpuInv, Flags, Checked, Loaded, FamilyKnown, Accepted, Launched
<1>12. Enabled'
  BY <1>1, <1>2, <1>5, <1>6 DEF CpuInv, Enabled, CpuPc, Accepted, Launched
<1>13. RefusedForTheReasonPrinted'
  BY <1>1, <1>2, <1>5, <1>6 DEF CpuInv, Flags, Loaded, RefusedForTheReasonPrinted
<1> QED
  BY <1>6, <1>10, <1>11, <1>12, <1>13 DEF CpuInv

(* The check for nested paging refuses no processor that reaches it. *)
LEMMA CheckNestedPaging == CpuInv /\ __init_amd => CpuInv'
<1> SUFFICES ASSUME CpuInv, __init_amd PROVE CpuInv'
  OBVIOUS
<1>1. /\ pc = "__init_amd" /\ UNCHANGED <<cpu, c, msr, host_save_area, pool, grants>>
      /\ cpu.vendor_bit => pc' = "display_cacheinfo"
  BY DEF __init_amd
<1>2. pc' = "display_cacheinfo"
  BY <1>1, CpuAssumption DEF CpuInv, Shapes, Checked, FamilyKnown
<1>3. Shapes'
  BY <1>1, <1>2 DEF CpuInv, Shapes, CpuPc
<1>10. Flags'
  BY <1>1, <1>2 DEF CpuInv, Flags, Loaded
<1>11. Checked'
  BY <1>1, <1>2 DEF CpuInv, Flags, Checked, Loaded, FamilyKnown, Accepted, Launched
<1>12. Enabled'
  BY <1>1, <1>2 DEF CpuInv, Enabled, CpuPc, Accepted, Launched
<1>13. RefusedForTheReasonPrinted'
  BY <1>1, <1>2 DEF CpuInv, Flags, Loaded, RefusedForTheReasonPrinted
<1> QED
  BY <1>3, <1>10, <1>11, <1>12, <1>13 DEF CpuInv

LEMMA CacheInfo == CpuInv /\ display_cacheinfo => CpuInv'
<1> SUFFICES ASSUME CpuInv, display_cacheinfo PROVE CpuInv'
  OBVIOUS
<1>1. /\ pc = "display_cacheinfo" /\ pc' = "enable_svm"
      /\ UNCHANGED <<cpu, msr, host_save_area, pool, grants>>
  BY DEF display_cacheinfo
<1>2. /\ c'.vendor = c.vendor /\ c'.x86 = c.x86 /\ c'.x86_capability = c.x86_capability
      /\ Shapes'
  <2> DEFINE X == {n \in 5 .. 8 : AtLeast(c.extended_cpuid_level, n)}
  <2>1. c' = [c EXCEPT !.cacheinfo = X] /\ X \in SUBSET Nat
    BY DEF display_cacheinfo
  <2>2. c \in CpuInfo
    BY DEF CpuInv, Shapes
  <2> HIDE DEF X
  <2> QED
    BY <1>1, <2>1, <2>2, SetCacheInfo DEF CpuInv, Shapes, CpuPc
<1>10. Flags'
  BY <1>1, <1>2 DEF CpuInv, Flags, Loaded
<1>11. Checked'
  BY <1>1, <1>2 DEF CpuInv, Flags, Checked, Loaded, FamilyKnown, Accepted, Launched
<1>12. Enabled'
  BY <1>1, <1>2 DEF CpuInv, Enabled, CpuPc, Accepted, Launched
<1>13. RefusedForTheReasonPrinted'
  BY <1>1, <1>2 DEF CpuInv, Flags, Loaded, RefusedForTheReasonPrinted
<1> QED
  BY <1>2, <1>10, <1>11, <1>12, <1>13 DEF CpuInv

(* Writing word 5 leaves word 6, the one that is tested. *)
LEMMA TestFlag == CpuInv /\ enable_svm => CpuInv'
<1> SUFFICES ASSUME CpuInv, enable_svm PROVE CpuInv'
  OBVIOUS
<1>1. /\ pc = "enable_svm" /\ cpu' = cpu /\ cpu.ecx81 \in SUBSET Bit
      /\ UNCHANGED <<msr, host_save_area, pool, grants>>
  BY CpuAssumption DEF enable_svm, CpuInv, Shapes, Processor
<1> DEFINE Kept == {f \in c.x86_capability : f \div 32 # 5}
           Added == {Flag(5, b) : b \in cpu.ecx81}
<1>2. c \in CpuInfo /\ c.x86_capability \subseteq 0 .. 223
  BY DEF CpuInv, Shapes, CpuInfo
<1>3. /\ c'.x86 = c.x86 /\ c'.vendor = c.vendor /\ c' \in CpuInfo
      /\ X86_FEATURE_SVME \in c'.x86_capability <=> X86_FEATURE_SVME \in c.x86_capability
  <2>1. Added \subseteq 160 .. 191
    BY <1>1, FlagNumbers DEF Bit
  <2>2. Kept \subseteq 0 .. 223 /\ (X86_FEATURE_SVME \in Kept <=> X86_FEATURE_SVME \in c.x86_capability)
    BY <1>2, FlagNumbers
  <2>3. X86_FEATURE_SVME \notin Added
    BY <2>1, FlagNumbers
  <2>4. c' = [c EXCEPT !.x86_capability = Kept \cup Added]
    BY DEF enable_svm
  <2> HIDE DEF Kept, Added
  <2>5. Kept \cup Added \in SUBSET (0 .. 223)
    BY <2>1, <2>2
  <2> QED
    BY SMTT(30), <1>2, <2>2, <2>3, <2>4, <2>5, SetCapability
<1>4. pc' = IF SvmBit(cpu) THEN "wrmsr_efer" ELSE "No svm feature"
  BY <1>1, <1>3 DEF enable_svm, TestedFlag, CpuInv, Flags, Loaded
<1>5. Shapes'
  BY <1>1, <1>3, <1>4 DEF CpuInv, Shapes, CpuPc, Reasons
<1>10. Flags'
  BY <1>1, <1>3, <1>4, <1>5 DEF CpuInv, Flags, Loaded
<1>11. Checked'
  BY <1>1, <1>3, <1>4, <1>5 DEF CpuInv, Flags, Checked, Loaded, FamilyKnown, Accepted, Launched
<1>12. Enabled'
  BY <1>1, <1>3, <1>4, <1>5 DEF CpuInv, Enabled, CpuPc, Accepted, Launched
<1>13. RefusedForTheReasonPrinted'
  BY <1>1, <1>3, <1>4, <1>5 DEF CpuInv, Flags, Loaded, RefusedForTheReasonPrinted
<1> QED
  BY <1>5, <1>10, <1>11, <1>12, <1>13 DEF CpuInv

LEMMA SvmeSet == CpuInv /\ SetSvme => CpuInv'
<1> SUFFICES ASSUME CpuInv, SetSvme PROVE CpuInv'
  OBVIOUS
<1>1. pc = "wrmsr_efer" /\ UNCHANGED <<cpu, c, host_save_area, pool, grants>>
  BY DEF SetSvme
<1>2. \/ /\ HasSvm(cpu) /\ pc' = "alloc_host_save_area"
         /\ msr' = [msr EXCEPT !.efer = @ \cup {_EFER_SVME}]
      \/ ~ HasSvm(cpu) /\ pc' = "#GP" /\ msr' = msr
  BY DEF SetSvme, Die
<1>3. /\ msr.efer \ {_EFER_NX} = BootEfer /\ msr \in [efer : SUBSET (0 .. 63), vm_hsave_pa : Nat]
      /\ SvmBit(cpu) /\ Family15(cpu) /\ cpu.vendor_id = "AuthenticAMD" /\ grants = << >>
  BY <1>1 DEF CpuInv, Shapes, Enabled, Checked, FamilyKnown, CpuPc, Accepted, Launched
<1>4. cpu.svm_locked \in BOOLEAN
  BY CpuAssumption DEF CpuInv, Shapes, Processor
<1>5. /\ pc' = "alloc_host_save_area" =>
           Intended(cpu) /\ msr'.efer \ {_EFER_NX} = BootEfer \cup {_EFER_SVME}
      /\ pc' = "#GP" => cpu.svm_locked
  BY <1>2, <1>3, <1>4 DEF Intended, HasSvm, _EFER_SVME, _EFER_NX
<1>6. msr' \in [efer : SUBSET (0 .. 63), vm_hsave_pa : Nat]
  <2>1. msr.efer \cup {_EFER_SVME} \in SUBSET (0 .. 63)
    BY <1>3 DEF _EFER_SVME
  <2>2. CASE msr' = [msr EXCEPT !.efer = @ \cup {_EFER_SVME}]
    BY <1>3, <2>1, <2>2
  <2> QED
    BY <1>2, <1>3, <2>2
<1>7. Shapes'
  BY <1>1, <1>2, <1>6 DEF CpuInv, Shapes, CpuPc, Reasons
<1>10. Flags'
  BY <1>1, <1>2 DEF Flags, Loaded
<1>11. Checked'
  BY <1>1, <1>2, <1>5 DEF Checked, FamilyKnown, Accepted, Launched
<1>12. Enabled'
  BY <1>1, <1>2, <1>3, <1>5 DEF Enabled, CpuPc, Accepted, Launched
<1>13. RefusedForTheReasonPrinted'
  BY <1>1, <1>2, <1>5 DEF RefusedForTheReasonPrinted
<1> QED
  BY <1>7, <1>10, <1>11, <1>12, <1>13 DEF CpuInv

(* A single frame fits wherever there is one, so the lowest is granted. *)
LEMMA LowestFrame ==
  ASSUME pool \in SUBSET Nat, NEW n \in pool, Allocator!GrantRun(n, 1, 1)
  PROVE  /\ \A g \in pool : n <= g
         /\ pool' = pool \ {n}
         /\ grants' = Append(grants, [first |-> n, nr |-> 1])
<1>1. \A g \in Nat : g .. g + 1 - 1 = {g} /\ g % 1 = 0
  OBVIOUS
<1>2. \A g \in pool : Allocator!Fits(g, 1, 1)
  BY <1>1 DEF Allocator!Fits
<1> QED
  BY <1>1, <1>2 DEF Allocator!GrantRun

LEMMA NoFrame ==
  ASSUME pool \in SUBSET Nat, Allocator!Exhausted(1, 1)
  PROVE  pool = {}
<1>1. \A g \in Nat : g .. g + 1 - 1 = {g} /\ g % 1 = 0
  OBVIOUS
<1> QED
  BY <1>1 DEF Allocator!Exhausted, Allocator!Fits

LEMMA SaveAreaAllocated == CpuInv /\ alloc_host_save_area => CpuInv'
<1> SUFFICES ASSUME CpuInv, alloc_host_save_area PROVE CpuInv'
  OBVIOUS
<1>1. /\ pc = "alloc_host_save_area" /\ UNCHANGED <<cpu, c, msr>>
      /\ pool \in SUBSET Nat /\ grants = << >> /\ Intended(cpu)
      /\ msr.efer \ {_EFER_NX} = BootEfer \cup {_EFER_SVME} /\ MappedFrames \in Nat
  BY CpuAssumption
  DEF alloc_host_save_area, CpuInv, Shapes, Enabled, Checked, CpuPc, Accepted, Launched
<1>2. CASE Allocator!Exhausted(1, 1) /\ Die("alloc_boot_pages")
           /\ UNCHANGED <<host_save_area, pool, grants>>
  <2>1. pool' = {} /\ pc' = "alloc_boot_pages"
    BY <1>1, <1>2, NoFrame DEF Die
  <2>2. Shapes'
    BY <1>1, <1>2, <2>1 DEF CpuInv, Shapes, Reasons
  <2> QED
    BY <1>1, <1>2, <2>1, <2>2
    DEF CpuInv, Flags, Checked, Enabled, Loaded, FamilyKnown, Accepted, Launched, CpuPc,
        RefusedForTheReasonPrinted
<1>3. ASSUME NEW n \in pool, Allocator!GrantRun(n, 1, 1),
             IF n < MappedFrames THEN host_save_area' = n /\ pc' = "wrmsr_hsave"
             ELSE Die("#PF") /\ UNCHANGED host_save_area
      PROVE  CpuInv'
  <2>1. /\ \A g \in pool : n <= g
        /\ pool' = pool \ {n} /\ grants' = << [first |-> n, nr |-> 1] >>
    BY <1>1, <1>3, LowestFrame
  <2>2. \/ n < MappedFrames /\ host_save_area' = n /\ pc' = "wrmsr_hsave"
        \/ MappedFrames <= n /\ host_save_area' = host_save_area /\ pc' = "#PF"
    BY <1>1, <1>3 DEF Die
  <2>3. n \in Nat /\ host_save_area' \in Nat /\ pool' \subseteq Nat
    BY <1>1, <1>3, <2>1, <2>2 DEF CpuInv, Shapes
  <2>4. grants' \in Seq([first : Nat, nr : Nat \ {0}])
    BY <2>1, <2>3
  <2>5. Shapes'
    BY <1>1, <2>2, <2>3, <2>4 DEF CpuInv, Shapes, CpuPc, Reasons
  <2>6. pc' = "#PF" => \A f \in pool' : f >= MappedFrames
    BY <1>1, <2>1, <2>2, <2>3
  <2>7. RefusedForTheReasonPrinted'
    BY <2>2, <2>6 DEF RefusedForTheReasonPrinted
  <2>8. Flags' /\ Checked'
    BY <1>1, <2>2 DEF Flags, Checked, Loaded, FamilyKnown, Accepted, Launched
  <2>9. Enabled'
    BY <1>1, <2>1, <2>2 DEF Enabled, CpuPc, Accepted, Launched
  <2> QED
    BY <2>5, <2>7, <2>8, <2>9 DEF CpuInv
<1> QED
  BY <1>2, <1>3 DEF alloc_host_save_area

LEMMA SaveAreaNamed == CpuInv /\ SetHsavePa => CpuInv'
<1> SUFFICES ASSUME CpuInv, SetHsavePa PROVE CpuInv'
  OBVIOUS
<1>1. /\ pc = "wrmsr_hsave" /\ pc' = "vm_create"
      /\ UNCHANGED <<cpu, c, host_save_area, pool, grants>>
      /\ msr' = [msr EXCEPT !.vm_hsave_pa = host_save_area]
  BY DEF SetHsavePa, HsavePhysical
<1>2. /\ msr \in [efer : SUBSET (0 .. 63), vm_hsave_pa : Nat] /\ host_save_area \in Nat
  BY DEF CpuInv, Shapes
<1>3. /\ msr' \in [efer : SUBSET (0 .. 63), vm_hsave_pa : Nat]
      /\ msr'.efer = msr.efer /\ msr'.vm_hsave_pa = host_save_area
  BY <1>1, <1>2
<1>4. Shapes'
  BY <1>1, <1>3 DEF CpuInv, Shapes, CpuPc
<1> QED
  BY <1>1, <1>3, <1>4
  DEF CpuInv, Flags, Checked, Enabled, Loaded, FamilyKnown, Accepted, Launched, CpuPc,
      RefusedForTheReasonPrinted

LEMMA CpuStepKeeps == CpuInv /\ CpuStep => CpuInv'
BY EarlyIdentify, CheckVendor, CheckFamily, CheckNestedPaging, CacheInfo, TestFlag, SvmeSet,
   SaveAreaAllocated, SaveAreaNamed DEF CpuStep

------------------------------------------------------------------------------
(* The caller's words lie below the six that svm_launch pushed. *)
Pushed ==
  /\ \A n \in 1 .. HostRsp : stack[n] = <<"caller", n>>
  /\ \A k \in 1 .. 6 : stack[HostRsp + k] = HostValue(PushOrder[k])

HostUntouched ==
  pc \in CpuPc \cup {"svm_launch"} =>
    /\ regs = [r \in Registers |-> HostValue(r)]
    /\ \A n \in 1 .. HostRsp : stack[n] = <<"caller", n>>

InTheSwitch ==
  /\ pc \in {"clgi", "vmrun", "guest", "stgi"} => Pushed /\ DOMAIN regs = Registers
  /\ pc \in {"clgi", "vmrun", "stgi"} => regs["rsp"] = <<"rsp", HostRsp + 6>>
  /\ pc = "guest" => saved.rsp = <<"rsp", HostRsp + 6>>
  /\ pc \in {"vmrun", "stgi"} => ~ gif

LaunchInv == CpuInv /\ HostUntouched /\ InTheSwitch /\ CalleeSavedRestored

(* The launch moves on without touching what Cpu left. *)
LEMMA CpuKept ==
  ASSUME CpuInv, UNCHANGED <<cpu, c, msr, host_save_area, pool, grants>>,
         pc \in Launched, pc' \in Launched
  PROVE  CpuInv'
BY DEF CpuInv, Shapes, Flags, Checked, Enabled, Loaded, FamilyKnown, Accepted, Launched, CpuPc,
       Reasons, RefusedForTheReasonPrinted

LEMMA LaunchInvInit == LaunchInit => LaunchInv
BY CpuInvInit
DEF LaunchInit, LaunchInv, CpuInit, CpuReset, SwitchInit, HostUntouched, InTheSwitch, CalleeSavedRestored, HostRsp

(* The pops mirror the pushes. *)
LEMMA Mirrored ==
  /\ \A r \in CalleeSaved : \E k \in 1 .. 6 : PopOrder[k] = r
  /\ \A k \in 1 .. 6 : PushOrder[7 - k] = PopOrder[k] /\ PopOrder[k] # "rsp"
BY DEF PopOrder, PushOrder, CalleeSaved

LEMMA CpuStepInLaunch ==
  ASSUME LaunchInv, CpuStep, UNCHANGED switchVars
  PROVE  LaunchInv'
<1>1. pc \in CpuPc /\ pc' \in CpuPc \cup Reasons
  BY DEF CpuStep, early_identify_cpu, identify_cpu, init_amd, __init_amd, display_cacheinfo,
         enable_svm, SetSvme, alloc_host_save_area, SetHsavePa, Die, CpuPc, Reasons
<1>2. CpuInv'
  BY CpuStepKeeps DEF LaunchInv
<1> QED
  BY <1>1, <1>2
  DEF LaunchInv, switchVars, HostUntouched, InTheSwitch, CalleeSavedRestored, CpuPc, Reasons

LEMMA VmCreateInLaunch == LaunchInv /\ vm_create => LaunchInv'
<1> SUFFICES ASSUME LaunchInv, vm_create PROVE LaunchInv'
  OBVIOUS
<1>1. CpuInv'
  BY CpuKept DEF LaunchInv, vm_create, Launched
<1> QED
  BY <1>1 DEF LaunchInv, vm_create, HostUntouched, InTheSwitch, CalleeSavedRestored, CpuPc

LEMMA PushInLaunch == LaunchInv /\ PushRegisters => LaunchInv'
<1> SUFFICES ASSUME LaunchInv, PushRegisters PROVE LaunchInv'
  OBVIOUS
<1>1. CpuInv'
  BY CpuKept DEF LaunchInv, PushRegisters, Launched
<1>2. /\ pc = "svm_launch" /\ pc' = "clgi"
      /\ regs = [r \in Registers |-> HostValue(r)]
      /\ \A n \in 1 .. HostRsp : stack[n] = <<"caller", n>>
  BY DEF LaunchInv, PushRegisters, HostUntouched
<1>3. "rsp" \in Registers /\ CalleeSaved \subseteq Registers /\ "rax" \in Registers
  BY SvmLaunchAssumption
<1>4. regs["rsp"] = <<"rsp", 3>> /\ Depth = 3
  BY <1>2, <1>3 DEF HostValue, HostRsp, Depth
<1>5. DOMAIN regs' = Registers /\ regs'["rsp"] = [regs["rsp"] EXCEPT ![2] = @ + 6]
  BY <1>2, <1>3 DEF PushRegisters
<1>6. [regs["rsp"] EXCEPT ![2] = @ + 6] = <<"rsp", 9>>
  BY <1>4
<1>7. \A k \in 1 .. 6 : PushOrder[k] \in Registers
  BY <1>3 DEF PushOrder, CalleeSaved
<1>8. stack' = [n \in 1 .. 9 |-> IF n <= 3 THEN stack[n] ELSE regs[PushOrder[n - 3]]]
  BY <1>4 DEF PushRegisters
<1>9. Pushed'
  <2>1. \A n \in 1 .. 3 : stack'[n] = <<"caller", n>>
    BY <1>2, <1>8 DEF HostRsp
  <2>2. \A k \in 1 .. 6 : stack'[3 + k] = regs[PushOrder[k]]
    BY <1>8
  <2> QED
    BY <1>2, <1>7, <2>1, <2>2 DEF Pushed, HostRsp
<1> QED
  BY <1>1, <1>2, <1>5, <1>6, <1>9
  DEF LaunchInv, HostUntouched, InTheSwitch, CalleeSavedRestored, CpuPc, HostRsp

LEMMA CLGIInLaunch == LaunchInv /\ CLGI => LaunchInv'
<1> SUFFICES ASSUME LaunchInv, CLGI PROVE LaunchInv'
  OBVIOUS
<1>1. CpuInv'
  BY CpuKept DEF LaunchInv, CLGI, Launched
<1> QED
  BY <1>1 DEF LaunchInv, CLGI, HostUntouched, InTheSwitch, Pushed, CalleeSavedRestored, CpuPc

LEMMA VMRUNInLaunch == LaunchInv /\ VMRUN => LaunchInv'
<1> SUFFICES ASSUME LaunchInv, VMRUN PROVE LaunchInv'
  OBVIOUS
<1>1. /\ pc = "vmrun" /\ UNCHANGED <<cpu, c, msr, host_save_area, pool, grants, stack>>
      /\ saved' = [rax |-> regs["rax"], rsp |-> regs["rsp"]]
      /\ \/ pc' = "stgi" /\ UNCHANGED <<regs, gif>>
         \/ pc' = "guest" /\ regs' = [regs EXCEPT !["rax"] = guest.rax, !["rsp"] = guest.rsp]
  BY DEF VMRUN
<1>2. CpuInv'
  BY <1>1, CpuKept DEF LaunchInv, Launched
<1>3. Pushed' /\ DOMAIN regs' = Registers /\ saved'.rsp = <<"rsp", HostRsp + 6>>
  BY <1>1 DEF LaunchInv, InTheSwitch, Pushed
<1> QED
  BY <1>1, <1>2, <1>3 DEF LaunchInv, HostUntouched, InTheSwitch, CalleeSavedRestored, CpuPc

LEMMA GuestInLaunch == LaunchInv /\ GuestRuns => LaunchInv'
<1> SUFFICES ASSUME LaunchInv, GuestRuns PROVE LaunchInv'
  OBVIOUS
<1>1. /\ pc = "guest" /\ UNCHANGED <<cpu, pc, c, msr, host_save_area, pool, grants>>
      /\ UNCHANGED <<stack, gif, saved>> /\ DOMAIN regs' = Registers
  BY DEF GuestRuns, cpuVars
<1>2. CpuInv'
  BY <1>1, CpuKept DEF LaunchInv, Launched
<1> QED
  BY <1>1, <1>2 DEF LaunchInv, HostUntouched, InTheSwitch, Pushed, CalleeSavedRestored, CpuPc

LEMMA VMEXITInLaunch == LaunchInv /\ VMEXIT => LaunchInv'
<1> SUFFICES ASSUME LaunchInv, VMEXIT PROVE LaunchInv'
  OBVIOUS
<1>1. /\ pc = "guest" /\ pc' = "stgi"
      /\ UNCHANGED <<cpu, c, msr, host_save_area, pool, grants, stack>>
      /\ regs' = [regs EXCEPT !["rax"] = saved.rax, !["rsp"] = saved.rsp] /\ gif' = FALSE
  BY DEF VMEXIT
<1>2. CpuInv'
  BY <1>1, CpuKept DEF LaunchInv, Launched
<1>3. DOMAIN regs' = Registers /\ regs'["rsp"] = <<"rsp", HostRsp + 6>>
  BY <1>1, SvmLaunchAssumption DEF LaunchInv, InTheSwitch
<1> QED
  BY <1>1, <1>2, <1>3
  DEF LaunchInv, HostUntouched, InTheSwitch, Pushed, CalleeSavedRestored, CpuPc

LEMMA STGIInLaunch == LaunchInv /\ STGI => LaunchInv'
<1> SUFFICES ASSUME LaunchInv, STGI PROVE LaunchInv'
  OBVIOUS
<1>1. /\ pc = "stgi" /\ pc' = "handle_vmexit"
      /\ UNCHANGED <<cpu, c, msr, host_save_area, pool, grants, stack>>
  BY DEF STGI
<1>2. CpuInv'
  BY <1>1, CpuKept DEF LaunchInv, Launched
<1>3. Depth = 9 /\ Pushed
  BY <1>1 DEF LaunchInv, InTheSwitch, Depth, HostRsp
<1>4. regs' = [r \in Registers |->
                IF r = "rsp" THEN <<"rsp", Depth - 6>>
                ELSE IF r \in CalleeSaved
                THEN stack[Depth + 1 - CHOOSE k \in 1 .. 6 : PopOrder[k] = r]
                ELSE regs[r]]
  BY DEF STGI
<1>5. "rsp" \in Registers /\ CalleeSaved \subseteq Registers /\ "rsp" \notin CalleeSaved
  BY SvmLaunchAssumption DEF CalleeSaved
<1>6. regs'["rsp"] = HostValue("rsp")
  BY <1>3, <1>4, <1>5 DEF HostValue, HostRsp
<1>7. ASSUME NEW r \in CalleeSaved
      PROVE  regs'[r] = HostValue(r)
  <2> DEFINE k == CHOOSE i \in 1 .. 6 : PopOrder[i] = r
  <2>1. k \in 1 .. 6 /\ PopOrder[k] = r
    BY Mirrored
  <2>2. regs'[r] = stack[Depth + 1 - k]
    BY <1>4, <1>5
  <2> HIDE DEF k
  <2>3. Depth + 1 - k = HostRsp + (7 - k) /\ 7 - k \in 1 .. 6
    BY <1>3, <2>1 DEF HostRsp
  <2>4. stack[Depth + 1 - k] = HostValue(PushOrder[7 - k])
    BY <1>3, <2>3 DEF Pushed
  <2> QED
    BY <2>1, <2>2, <2>4, Mirrored
<1>8. CalleeSavedRestored'
  BY <1>1, <1>3, <1>6, <1>7 DEF CalleeSavedRestored, Pushed
<1> QED
  BY <1>1, <1>2, <1>8 DEF LaunchInv, HostUntouched, InTheSwitch, CpuPc

LEMMA VmexitInLaunch == LaunchInv /\ handle_vmexit => LaunchInv'
<1> SUFFICES ASSUME LaunchInv, handle_vmexit PROVE LaunchInv'
  OBVIOUS
<1>1. CpuInv'
  BY CpuKept DEF LaunchInv, handle_vmexit, Launched
<1> QED
  BY <1>1 DEF LaunchInv, handle_vmexit, HostUntouched, InTheSwitch, CalleeSavedRestored, CpuPc

LEMMA LaunchInvStep == LaunchInv /\ [LaunchNext]_launchVars => LaunchInv'
<1>1. ASSUME LaunchInv, UNCHANGED launchVars
      PROVE  LaunchInv'
  <2>1. UNCHANGED <<cpu, pc, c, msr, host_save_area, pool, grants>>
        /\ UNCHANGED <<regs, stack, gif, saved>>
    BY <1>1 DEF launchVars, cpuVars, switchVars
  <2>2. Shapes' /\ Flags' /\ Checked'
    BY <1>1, <2>1 DEF LaunchInv, CpuInv, Shapes, Flags, Checked
  <2>3. Enabled'
    BY <1>1, <2>1 DEF LaunchInv, CpuInv, Enabled
  <2>4. RefusedForTheReasonPrinted'
    BY <1>1, <2>1 DEF LaunchInv, CpuInv, RefusedForTheReasonPrinted
  <2>5. HostUntouched' /\ InTheSwitch' /\ CalleeSavedRestored'
    BY <1>1, <2>1 DEF LaunchInv, HostUntouched, InTheSwitch, Pushed, CalleeSavedRestored
  <2> QED
    BY <2>2, <2>3, <2>4, <2>5 DEF LaunchInv, CpuInv
<1> QED
  BY <1>1, CpuStepInLaunch, VmCreateInLaunch, PushInLaunch, CLGIInLaunch, VMRUNInLaunch,
     GuestInLaunch, VMEXITInLaunch, STGIInLaunch, VmexitInLaunch DEF LaunchNext, HostStep

LEMMA LaunchInvAlways == LaunchSpec => []LaunchInv
<1> QED
  BY LaunchInvInit, LaunchInvStep, PTL DEF LaunchSpec

(***************************************************************************)
(* On every processor, with every pool of free frames and every guest, the *)
(* VMM stops for the reason it prints (cpu.c:153-205, svm.c:42-53).        *)
(***************************************************************************)
THEOREM RefusalsCorrect == LaunchSpec => []RefusedForTheReasonPrinted
<1>1. LaunchInv => RefusedForTheReasonPrinted
  BY DEF LaunchInv, CpuInv
<1> QED
  BY <1>1, LaunchInvAlways, PTL

(***************************************************************************)
(* VMRUN is reached only on a processor the code is written for, with SVME *)
(* set, the save area named and, until the guest runs, no interrupts       *)
(* (cpu.c:71-206, svm.c:33-69, svm_asm.S:19-30).                           *)
(***************************************************************************)
THEOREM VmrunIsLegalCorrect == LaunchSpec => []VmrunIsLegal
<1>1. LaunchInv => VmrunIsLegal
  BY DEF LaunchInv, CpuInv, Checked, Enabled, Accepted, Launched, InTheSwitch, VmrunIsLegal
<1> QED
  BY <1>1, LaunchInvAlways, PTL

(***************************************************************************)
(* Whatever registers the guest changes, the caller of svm_launch gets its *)
(* own back (svm_asm.S:10-39).                                             *)
(***************************************************************************)
THEOREM CalleeSavedCorrect == LaunchSpec => []CalleeSavedRestored
<1>1. LaunchInv => CalleeSavedRestored
  BY DEF LaunchInv
<1> QED
  BY <1>1, LaunchInvAlways, PTL
=============================================================================
