---------------------------------- MODULE Cpu ----------------------------------
(***************************************************************************)
(* kernel/cpu.c and enable_svm of kernel/svm.c: the processor is asked     *)
(* what it is, refused when the VMM cannot run on it, and put into the     *)
(* state VMRUN needs.                                                      *)
(*                                                                         *)
(* A processor is a record of what CPUID answers.  A register of flags is  *)
(* the set of the positions of its 1 bits; a register that holds the       *)
(* number of a leaf is split into two halves of 16 bits.  Model numbers,   *)
(* names and sizes are left out: they are printed and decide nothing.      *)
(***************************************************************************)
EXTENDS Naturals, Sequences

CONSTANTS
  Processors,   \* the processors the VMM may be started on
  Pools,        \* the sets of free frames setup_arch may leave
  MappedFrames  \* the frames below the 1 GB that VIRT can reach

Half == 0 .. 65535
Bit == 0 .. 31

Processor ==
  [vendor_id : {"AuthenticAMD", "GenuineIntel"},  \* leaf 0
   cpuid_level : Nat,                             \* leaf 0: the last standard leaf
   tfms : Nat, edx1 : SUBSET Bit, ecx1 : SUBSET Bit,           \* leaf 1
   xlvl : [hi : Half, lo : Half], vendor_bit : BOOLEAN,        \* leaf 0x80000000: eax, ebx bit 0
   edx81 : SUBSET Bit, ecx81 : SUBSET Bit,                     \* leaf 0x80000001
   nested_paging : BOOLEAN,                                    \* leaf 0x8000000A
   tlvl : [hi : Half, lo : Half], edx86 : SUBSET Bit,          \* leaves 0x80860000, 0x80860001
   svm_locked : BOOLEAN]                                       \* VM_CR.SVMDIS, set by the firmware

ASSUME CpuAssumption ==
  /\ Processors \subseteq Processor
  /\ \A p \in Processors :   \* on AMD's, leaf 0x80000000 answers "Auth" in ebx
       p.vendor_id = "AuthenticAMD" => p.vendor_bit
  /\ Pools \subseteq SUBSET Nat
  /\ MappedFrames \in Nat

VARIABLES
  cpu,        \* the processor of this boot, never changed
  pc,         \* the function that is running
  c,          \* struct cpuinfo_x86, a local of identify_cpu
  msr,        \* MSR_EFER (its bits) and MSR_K8_VM_HSAVE_PA (a frame, 0 at reset)
  host_save_area,  \* the frame enable_svm allocated, 0 before
  pool,       \* the frames alloc_pages can still grant
  grants      \* the runs it has granted

cpuVars == <<cpu, pc, c, msr, host_save_area, pool, grants>>

Allocator == INSTANCE FrameAllocator WITH Frames <- Nat, Requests <- {<<1, 1>>}

_EFER_SVME == 12
_EFER_NX == 11
BootEfer == {0, 8, 10}   \* SCE, LME and LMA, as boot.S leaves them

Flag(word, bit) == 32 * word + bit
X86_FEATURE_SVME == Flag(6, 2)
X86_FEATURE_REP_GOOD == Flag(3, 4)
X86_FEATURE_FXSAVE_LEAK == Flag(3, 7)

CpuReset ==
  /\ cpu \in Processors
  /\ pc = "early_identify_cpu"
  /\ c = [vendor |-> "unset", x86 |-> 0, extended_cpuid_level |-> [hi |-> 0, lo |-> 0],
          x86_capability |-> {}, cacheinfo |-> {}]
  /\ host_save_area = 0
  /\ pool \in Pools
  /\ grants = << >>

(* boot.S leaves NX as the loader set it. *)
CpuInit ==
  /\ CpuReset
  /\ \E nx \in SUBSET {_EFER_NX} : msr = [efer |-> BootEfer \cup nx, vm_hsave_pa |-> 0]

Die(reason) == pc' = reason

------------------------------------------------------------------------------
(* Comparisons of a 32-bit leaf number with 0x80000000 + lo. *)
AtLeast(leaf, lo) == leaf.hi > 32768 \/ (leaf.hi = 32768 /\ leaf.lo >= lo)

\* Faulty form: forgets the extended family.
FamilyOf_base(tfms) == (tfms \div 256) % 16

(* x86 is a u8: the extended family may wrap it. *)
FamilyOf(tfms) ==
  LET family == (tfms \div 256) % 16
  IN IF family = 15 THEN (family + ((tfms \div 1048576) % 256)) % 256 ELSE family

\* Faulty form: the test for the model name.
ExtendedLeaves_name(p) == p.xlvl.hi = 32768 /\ p.xlvl.lo >= 4

(* The words of x86_capability that early_identify_cpu loads. *)
ExtendedLeaves(p) == p.xlvl.hi = 32768 /\ p.xlvl.lo >= 1
Word(loaded, word, bits) == IF loaded THEN {Flag(word, b) : b \in bits} ELSE {}

Capability(p) ==
  Word(p.cpuid_level >= 1, 0, p.edx1) \cup Word(p.cpuid_level >= 1, 4, p.ecx1) \cup
  Word(ExtendedLeaves(p), 1, p.edx81) \cup Word(ExtendedLeaves(p), 6, p.ecx81) \cup
  Word(p.tlvl.hi = 32902 /\ p.tlvl.lo >= 1, 2, p.edx86)

early_identify_cpu ==
  /\ pc = "early_identify_cpu"
  /\ c' = [vendor |-> IF cpu.vendor_id = "AuthenticAMD" THEN "AMD" ELSE "unknown",
           x86 |-> IF cpu.cpuid_level >= 1 THEN FamilyOf(cpu.tfms) ELSE 4,
           extended_cpuid_level |-> cpu.xlvl,
           x86_capability |-> Capability(cpu),
           cacheinfo |-> c.cacheinfo]
  /\ pc' = "identify_cpu"
  /\ UNCHANGED <<cpu, msr, host_save_area, pool, grants>>

identify_cpu ==
  /\ pc = "identify_cpu"
  /\ IF c.vendor = "AMD" THEN pc' = "init_amd" ELSE Die("Unknown CPU vendor")
  /\ UNCHANGED <<cpu, c, msr, host_save_area, pool, grants>>

(* level = cpuid_eax (1): 0x0f48 .. 0x0f4f, and from 0x0f58 on. *)
RepGood(level) == level \in 3912 .. 3919 \/ level >= 3928

init_amd ==
  /\ pc = "init_amd"
  /\ IF c.x86 # 15 THEN Die("init_amd failed") /\ UNCHANGED c
     ELSE /\ pc' = "__init_amd"
          /\ c' = [c EXCEPT !.x86_capability =
                     (@ \ {Flag(0, 31)}) \cup {X86_FEATURE_FXSAVE_LEAK} \cup
                     {f \in {X86_FEATURE_REP_GOOD} : RepGood(cpu.tfms)}]
  /\ UNCHANGED <<cpu, msr, host_save_area, pool, grants>>

(* The bit is read from leaf 0x80000000, not 0x8000000A. *)
__init_amd ==
  /\ pc = "__init_amd"
  /\ IF cpu.vendor_bit THEN pc' = "display_cacheinfo"
     ELSE Die("Nested paging is not supported.")
  /\ UNCHANGED <<cpu, c, msr, host_save_area, pool, grants>>

(* The leaves whose figures it prints and keeps. *)
display_cacheinfo ==
  /\ pc = "display_cacheinfo"
  /\ c' = [c EXCEPT !.cacheinfo = {n \in 5 .. 8 : AtLeast(c.extended_cpuid_level, n)}]
  /\ pc' = "enable_svm"
  /\ UNCHANGED <<cpu, msr, host_save_area, pool, grants>>

------------------------------------------------------------------------------
\* Faulty form: the word that enable_svm has just written.
TestedFlag_word5 == Flag(5, 2)
TestedFlag == X86_FEATURE_SVME

(* ecx of leaf 0x80000001 goes to word 5, whether the leaf exists or not. *)
enable_svm ==
  /\ pc = "enable_svm"
  /\ c' = [c EXCEPT !.x86_capability =
             {f \in @ : f \div 32 # 5} \cup {Flag(5, b) : b \in cpu.ecx81}]
  /\ pc' = IF TestedFlag \in c'.x86_capability THEN "wrmsr_efer" ELSE "No svm feature"
  /\ UNCHANGED <<cpu, msr, host_save_area, pool, grants>>

(* What the processor lets software do with its SVM registers. *)
SvmBit(p) == p.xlvl.hi = 32768 /\ p.xlvl.lo >= 1 /\ 2 \in p.ecx81
HasSvm(p) == SvmBit(p) /\ ~ p.svm_locked

(* A set SVME is a general protection fault where there is no SVM. *)
SetSvme ==
  /\ pc = "wrmsr_efer"
  /\ IF HasSvm(cpu)
     THEN msr' = [msr EXCEPT !.efer = @ \cup {_EFER_SVME}] /\ pc' = "alloc_host_save_area"
     ELSE Die("#GP") /\ UNCHANGED msr
  /\ UNCHANGED <<cpu, c, host_save_area, pool, grants>>

(* One frame, cleared through its VIRT address. *)
alloc_host_save_area ==
  /\ pc = "alloc_host_save_area"
  /\ \/ /\ Allocator!Exhausted(1, 1)
        /\ Die("alloc_boot_pages")
        /\ UNCHANGED <<host_save_area, pool, grants>>
     \/ \E n \in pool :
          /\ Allocator!GrantRun(n, 1, 1)
          /\ IF n < MappedFrames THEN host_save_area' = n /\ pc' = "wrmsr_hsave"
             ELSE Die("#PF") /\ UNCHANGED host_save_area
  /\ UNCHANGED <<cpu, c, msr>>

(* PHYS (host_save_area) *)
HsavePhysical == host_save_area

SetHsavePa ==
  /\ pc = "wrmsr_hsave"
  /\ msr' = [msr EXCEPT !.vm_hsave_pa = HsavePhysical]
  /\ pc' = "vm_create"
  /\ UNCHANGED <<cpu, c, host_save_area, pool, grants>>

CpuStep ==
  \/ early_identify_cpu \/ identify_cpu \/ init_amd \/ __init_amd \/ display_cacheinfo
  \/ enable_svm \/ SetSvme \/ alloc_host_save_area \/ SetHsavePa

------------------------------------------------------------------------------
Family15(p) ==
  p.cpuid_level >= 1 /\ (p.tfms \div 256) % 16 = 15 /\ (p.tfms \div 1048576) % 256 = 0

(* The processors the code is written for: AMD's family 15, no extended
   family, with SVM that the firmware has not locked. *)
Intended(p) == p.vendor_id = "AuthenticAMD" /\ Family15(p) /\ HasSvm(p)

(***************************************************************************)
(* A processor is refused for the reason that is printed, and the machine  *)
(* stops without a word only where the code cannot know: when the firmware *)
(* has locked SVM, and when the frame VIRT gives is not mapped (cpu.c:153- *)
(* 205, svm.c:42-53, alloc.c:193).                                         *)
(***************************************************************************)
RefusedForTheReasonPrinted ==
  /\ pc = "Unknown CPU vendor" => cpu.vendor_id # "AuthenticAMD"
  /\ pc = "init_amd failed" => ~ Family15(cpu)
  /\ pc = "Nested paging is not supported." => ~ cpu.nested_paging
  /\ pc = "No svm feature" => ~ SvmBit(cpu)
  /\ pc = "#GP" => cpu.svm_locked
  /\ pc = "alloc_boot_pages" => pool = {}
  /\ pc = "#PF" => \A f \in pool : f >= MappedFrames

(***************************************************************************)
(* "Nested paging is not supported." (cpu.c:155): a processor without it   *)
(* does not get as far as vm_create, which turns np_enable on.             *)
(***************************************************************************)
NestedPagingChecked == pc = "vm_create" => cpu.nested_paging
===============================================================================
