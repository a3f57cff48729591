------------------------------ MODULE VmcbProofs ------------------------------
(***************************************************************************)
(* The checks of Vmcb against their messages, for every set of VMCBs.      *)
(*                                                                         *)
(* Two hypotheses name what the code does not see: the macro of CR4.PAE    *)
(* has a second bit (system.h:15), and a check that returns an int sees    *)
(* 32 bits of what it has shifted (vmcb.c:35, vmcb.c:53).                  *)
(***************************************************************************)
EXTENDS Vmcb, TLAPS

(* CR4.PGE is not set without CR4.PAE. *)
PgeOnlyWithPae == \A v \in Vmcbs : 7 \in v.cr4 => 5 \in v.cr4

(* The reserved bits that are set are among those an int holds. *)
ReservedBitsFit == \A v \in Vmcbs : (\A b \in v.cr4 : b < 43) /\ (\A b \in v.efer : b < 47)

(* The loop stops at the first check that fails. *)
ChecksInv ==
  /\ vmcb \in Vmcbs
  /\ i \in 1 .. NumberOfChecks + 1
  /\ \A k \in 1 .. i - 1 : ~ Checks[k]
  /\ state = "launch" => i = NumberOfChecks + 1
  /\ state = "dead" => i <= NumberOfChecks /\ Checks[i]

------------------------------------------------------------------------------
(* A field of a register that is shifted down, with the bits an int keeps. *)
LEMMA ReservedField ==
  ASSUME NEW x \in SUBSET BitNumber, NEW start \in {11, 15, 32}, NEW len \in Nat, start + len = 64
  PROVE  /\ NotZero(SUB_BIT(x, start, len)) => From(x, start) # {}
         /\ From(x, start) # {} /\ (\A b \in x : b < start + 32) => NotZero(SUB_BIT(x, start, len))
<1>1. \A b \in x : b \in Nat /\ b < 64
  BY DEF BitNumber
<1>2. ASSUME NotZero(SUB_BIT(x, start, len)) PROVE From(x, start) # {}
  BY <1>1, <1>2 DEF NotZero, Returned, SUB_BIT, From
<1>3. ASSUME NEW b \in From(x, start), \A d \in x : d < start + 32
      PROVE  NotZero(SUB_BIT(x, start, len))
  <2>1. b \in x /\ start <= b /\ b < start + len /\ b - start < 32
    BY <1>1, <1>3 DEF From
  <2>2. b - start \in SUB_BIT(x, start, len)
    BY <2>1 DEF SUB_BIT
  <2> QED
    BY <2>1, <2>2 DEF NotZero, Returned
<1> QED
  BY <1>2, <1>3

LEMMA ChecksInvAlways == CheckSpec => []ChecksInv
<1>1. CheckInit => ChecksInv
  BY DEF CheckInit, ChecksInv, NumberOfChecks
<1>2. ChecksInv /\ [CheckNext]_checkVars => ChecksInv'
  <2> SUFFICES ASSUME ChecksInv, [CheckNext]_checkVars PROVE ChecksInv'
    OBVIOUS
  <2>1. vmcb' = vmcb
    BY DEF CheckNext, CheckPasses, CheckFails, AllPassed, checkVars
  <2>2. Checks' = Checks
    BY <2>1 DEF Checks, check_efer_svme, check_cr0cd_cr0nw, check_cr0_32_63, check_cr4_11_63,
     check_dr6_32_63, check_dr7_32_63, check_efer_15_63, check_eferlme_cr0pg_cr4pae,
     check_eferlme_cr0pg_cr0pe, check_eferlme_cr0pg_cr4pae_csl_csd,
     check_vmrun_intercept, check_msr_ioio_intercept_tables, LongModePaging
  <2> DEFINE C == Checks
  <2>3. C' = C
    BY <2>2
  <2> HIDE DEF C
  <2>4. CASE CheckPasses
    BY <2>1, <2>3, <2>4 DEF ChecksInv, CheckPasses, NumberOfChecks, C
  <2>5. CASE CheckFails
    BY <2>1, <2>3, <2>5 DEF ChecksInv, CheckFails, NumberOfChecks, C
  <2>6. CASE AllPassed
    BY <2>1, <2>3, <2>6 DEF ChecksInv, AllPassed, NumberOfChecks, C
  <2>7. CASE UNCHANGED checkVars
    BY <2>1, <2>3, <2>7 DEF ChecksInv, checkVars, C
  <2> QED
    BY <2>4, <2>5, <2>6, <2>7 DEF CheckNext
<1> QED
  BY <1>1, <1>2, PTL DEF CheckSpec

LEMMA ChecksByEntry ==
  /\ Checks[1] = check_efer_svme /\ Checks[2] = check_cr0cd_cr0nw
  /\ Checks[3] = check_cr0_32_63 /\ Checks[4] = check_cr4_11_63
  /\ Checks[5] = check_dr6_32_63 /\ Checks[6] = check_dr7_32_63
  /\ Checks[7] = check_efer_15_63 /\ Checks[8] = check_eferlme_cr0pg_cr4pae
  /\ Checks[9] = check_eferlme_cr0pg_cr0pe /\ Checks[10] = check_eferlme_cr0pg_cr4pae_csl_csd
  /\ Checks[11] = check_vmrun_intercept /\ Checks[12] = check_msr_ioio_intercept_tables
BY DEF Checks

LEMMA MessagesByEntry ==
  /\ Messages[1] = (12 \notin vmcb.efer)
  /\ Messages[2] = (30 \notin vmcb.cr0 /\ 29 \in vmcb.cr0)
  /\ Messages[3] = (From(vmcb.cr0, 32) # {}) /\ Messages[4] = (From(vmcb.cr4, 11) # {})
  /\ Messages[5] = (From(vmcb.dr6, 32) # {}) /\ Messages[6] = (From(vmcb.dr7, 32) # {})
  /\ Messages[7] = (From(vmcb.efer, 15) # {})
  /\ Messages[8] = (LmeAndPg /\ 5 \notin vmcb.cr4)
  /\ Messages[9] = (LmeAndPg /\ 0 \notin vmcb.cr0)
  /\ Messages[10] = (LmeAndPg /\ 5 \in vmcb.cr4 /\ vmcb.cs_l /\ vmcb.cs_db)
  /\ Messages[11] = (0 \notin vmcb.general2_intercepts)
  /\ DOMAIN Messages = 1 .. 11
BY DEF Messages

(* The checks that read single bits, by the bits they read. *)
LEMMA BitChecks ==
  ASSUME vmcb \in Vmcbs, PgeOnlyWithPae
  PROVE  /\ check_efer_svme <=> 12 \notin vmcb.efer
         /\ check_cr0cd_cr0nw <=> 30 \notin vmcb.cr0 /\ 29 \in vmcb.cr0
         /\ check_eferlme_cr0pg_cr4pae <=> LmeAndPg /\ 5 \notin vmcb.cr4
         /\ check_eferlme_cr0pg_cr0pe <=> LmeAndPg /\ 0 \notin vmcb.cr0
         /\ check_eferlme_cr0pg_cr4pae_csl_csd <=>
              LmeAndPg /\ 5 \in vmcb.cr4 /\ vmcb.cs_l /\ vmcb.cs_db
         /\ check_vmrun_intercept <=> 0 \notin vmcb.general2_intercepts
         /\ ~ check_msr_ioio_intercept_tables
<1>1. AnyOf(vmcb.cr4, X86_CR4_PAE) <=> 5 \in vmcb.cr4
  BY DEF AnyOf, X86_CR4_PAE, PgeOnlyWithPae
<1>2. LongModePaging <=> LmeAndPg
  BY DEF LongModePaging, LmeAndPg, AnyOf, EFER_LME, X86_CR0_PG
<1> QED
  BY <1>1, <1>2
  DEF check_efer_svme, check_cr0cd_cr0nw, check_eferlme_cr0pg_cr4pae, check_eferlme_cr0pg_cr0pe,
      check_eferlme_cr0pg_cr4pae_csl_csd, check_vmrun_intercept, check_msr_ioio_intercept_tables,
      AnyOf, EFER_SVME, X86_CR0_CD, X86_CR0_NW, X86_CR0_PE, INTRCPT_VMRUN

(* The checks of reserved fields. *)
LEMMA FieldChecks ==
  ASSUME vmcb \in Vmcbs
  PROVE  /\ check_cr0_32_63 <=> From(vmcb.cr0, 32) # {}
         /\ check_dr6_32_63 <=> From(vmcb.dr6, 32) # {}
         /\ check_dr7_32_63 <=> From(vmcb.dr7, 32) # {}
         /\ check_cr4_11_63 => From(vmcb.cr4, 11) # {}
         /\ check_efer_15_63 => From(vmcb.efer, 15) # {}
         /\ ReservedBitsFit /\ From(vmcb.cr4, 11) # {} => check_cr4_11_63
         /\ ReservedBitsFit /\ From(vmcb.efer, 15) # {} => check_efer_15_63
<1>1. /\ vmcb.cr0 \in SUBSET BitNumber /\ vmcb.cr4 \in SUBSET BitNumber /\ vmcb.dr6 \in SUBSET BitNumber
      /\ vmcb.dr7 \in SUBSET BitNumber /\ vmcb.efer \in SUBSET BitNumber
  BY VmcbAssumption DEF Vmcb
<1>2. \A x \in SUBSET BitNumber : \A b \in x : b < 32 + 32
  BY DEF BitNumber
<1>3. /\ check_cr0_32_63 <=> From(vmcb.cr0, 32) # {}
      /\ check_dr6_32_63 <=> From(vmcb.dr6, 32) # {}
      /\ check_dr7_32_63 <=> From(vmcb.dr7, 32) # {}
  BY <1>1, <1>2, ReservedField, 32 + 32 = 64 DEF check_cr0_32_63, check_dr6_32_63, check_dr7_32_63
<1>4. /\ check_cr4_11_63 => From(vmcb.cr4, 11) # {}
      /\ ReservedBitsFit /\ From(vmcb.cr4, 11) # {} => check_cr4_11_63
  BY <1>1, ReservedField, 11 + 53 = 64, 11 + 32 = 43 DEF check_cr4_11_63, ReservedBitsFit
<1>5. /\ check_efer_15_63 => From(vmcb.efer, 15) # {}
      /\ ReservedBitsFit /\ From(vmcb.efer, 15) # {} => check_efer_15_63
  BY <1>1, ReservedField, 15 + 49 = 64, 15 + 32 = 47 DEF check_efer_15_63, ReservedBitsFit
<1> QED
  BY <1>3, <1>4, <1>5

LEMMA ChecksSayWhatMessagesSay ==
  ASSUME vmcb \in Vmcbs, PgeOnlyWithPae
  PROVE  /\ \A k \in 1 .. NumberOfChecks : Checks[k] => k \in DOMAIN Messages /\ Messages[k]
         /\ ReservedBitsFit => \A k \in DOMAIN Messages : Messages[k] => Checks[k]
<1>1. ASSUME NEW k \in 1 .. NumberOfChecks, Checks[k]
      PROVE  k \in 1 .. 11 /\ Messages[k]
  <2>1. /\ k = 1 \/ k = 2 \/ k = 3 \/ k = 4 \/ k = 5 \/ k = 6 \/ k = 7 \/ k = 8 \/ k = 9
           \/ k = 10 \/ k = 11 \/ k = 12
        /\ k # 12 => k \in 1 .. 11
    BY DEF NumberOfChecks
  <2> QED
    BY Zenon, <1>1, <2>1, ChecksByEntry, MessagesByEntry, BitChecks, FieldChecks
<1>2. ASSUME ReservedBitsFit, NEW k \in 1 .. 11, Messages[k]
      PROVE  Checks[k]
  <2>1. k = 1 \/ k = 2 \/ k = 3 \/ k = 4 \/ k = 5 \/ k = 6 \/ k = 7 \/ k = 8 \/ k = 9
           \/ k = 10 \/ k = 11
    OBVIOUS
  <2> QED
    BY Zenon, <1>2, <2>1, ChecksByEntry, MessagesByEntry, BitChecks, FieldChecks
<1> QED
  BY <1>1, <1>2, MessagesByEntry

------------------------------------------------------------------------------
(***************************************************************************)
(* A VMCB that passes all checks is one that no message describes          *)
(* (vmcb.c:120-170), where the two hypotheses hold.                        *)
(***************************************************************************)
THEOREM LaunchedCorrect ==
  ASSUME PgeOnlyWithPae, ReservedBitsFit
  PROVE  CheckSpec => []LaunchedIsConsistent
<1>1. ChecksInv => LaunchedIsConsistent
  <2> SUFFICES ASSUME ChecksInv, state = "launch", NEW k \in DOMAIN Messages, Messages[k]
               PROVE  FALSE
    BY DEF LaunchedIsConsistent
  <2>1. vmcb \in Vmcbs /\ k \in 1 .. 11 /\ \A l \in 1 .. 12 : ~ Checks[l]
    BY MessagesByEntry DEF ChecksInv, NumberOfChecks
  <2> QED
    BY <2>1, ChecksSayWhatMessagesSay
<1> QED
  BY <1>1, ChecksInvAlways, PTL

(***************************************************************************)
(* A VMCB is refused with a message that describes it (vmcb.c:120-170),    *)
(* where PGE is not set without PAE.                                       *)
(***************************************************************************)
THEOREM RefusedCorrect ==
  ASSUME PgeOnlyWithPae
  PROVE  CheckSpec => []RefusedForTheReasonGiven
<1>1. ChecksInv => RefusedForTheReasonGiven
  BY ChecksSayWhatMessagesSay DEF ChecksInv, RefusedForTheReasonGiven
<1> QED
  BY <1>1, ChecksInvAlways, PTL

(***************************************************************************)
(* The VMCB that vm_create builds passes every check (vm.c:40-120, 286),   *)
(* whatever else is checked.                                               *)
(***************************************************************************)
THEOREM CreatedCorrect == CheckSpec => []CreatedIsLaunched
<1>1. ASSUME vmcb = CreatedVmcb, NEW k \in 1 .. NumberOfChecks PROVE ~ Checks[k]
  <2>1. /\ vmcb.efer = {8, 10, 12} /\ vmcb.cr0 = {0, 31} /\ vmcb.cr4 = {5, 7}
        /\ vmcb.dr6 = {} /\ vmcb.dr7 = {} /\ vmcb.general2_intercepts = {0}
        /\ vmcb.cs_db = FALSE
    BY <1>1 DEF CreatedVmcb, EFER_LME, EFER_LMA, EFER_SVME, X86_CR0_PE, X86_CR0_PG, X86_CR4_PAE,
                INTRCPT_VMRUN
  <2>2. /\ ~ check_cr0_32_63 /\ ~ check_cr4_11_63 /\ ~ check_dr6_32_63
        /\ ~ check_dr7_32_63 /\ ~ check_efer_15_63
    BY <2>1 DEF check_cr0_32_63, check_cr4_11_63, check_dr6_32_63, check_dr7_32_63,
                check_efer_15_63, SUB_BIT, NotZero, Returned
  <2>3. /\ ~ check_efer_svme /\ ~ check_cr0cd_cr0nw /\ ~ check_eferlme_cr0pg_cr4pae
        /\ ~ check_eferlme_cr0pg_cr0pe /\ ~ check_eferlme_cr0pg_cr4pae_csl_csd
        /\ ~ check_vmrun_intercept /\ ~ check_msr_ioio_intercept_tables
    BY <2>1
    DEF check_efer_svme, check_cr0cd_cr0nw, check_eferlme_cr0pg_cr4pae, check_eferlme_cr0pg_cr0pe,
        check_eferlme_cr0pg_cr4pae_csl_csd, check_vmrun_intercept,
        check_msr_ioio_intercept_tables, AnyOf, EFER_SVME, X86_CR0_NW, X86_CR0_PE,
        X86_CR4_PAE, INTRCPT_VMRUN
  <2>4. k = 1 \/ k = 2 \/ k = 3 \/ k = 4 \/ k = 5 \/ k = 6 \/ k = 7 \/ k = 8 \/ k = 9
           \/ k = 10 \/ k = 11 \/ k = 12
    BY DEF NumberOfChecks
  <2> QED
    BY Zenon, <2>2, <2>3, <2>4, ChecksByEntry
<1>2. ChecksInv => CreatedIsLaunched
  BY <1>1 DEF ChecksInv, CreatedIsLaunched
<1> QED
  BY <1>2, ChecksInvAlways, PTL
=============================================================================
