--------------------------------- MODULE Vmcb ---------------------------------
(***************************************************************************)
(* kernel/vmcb.c: the consistency checks that vm_boot makes before VMRUN,  *)
(* on the fields of the VMCB they read.  A register is the set of the      *)
(* positions of its 1 bits.                                                *)
(*                                                                         *)
(* One step is one iteration of the loop over the table of checks.  Each   *)
(* check returns an int; the table pairs it with a message that says when  *)
(* the machine is not to be launched.                                      *)
(***************************************************************************)
EXTENDS Naturals

CONSTANT Vmcbs   \* the VMCBs that are checked

BitNumber == 0 .. 63

(* general2_intercepts is a register too; cs_l and cs_db are bits of CS. *)
Vmcb == [efer : SUBSET BitNumber, cr0 : SUBSET BitNumber, cr4 : SUBSET BitNumber, dr6 : SUBSET BitNumber,
         dr7 : SUBSET BitNumber, general2_intercepts : SUBSET BitNumber, cs_l : BOOLEAN, cs_db : BOOLEAN]

ASSUME VmcbAssumption == Vmcbs \subseteq Vmcb

VARIABLES
  vmcb,  \* the VMCB under check, never written
  i,     \* the loop index (1-based) into the table
  state  \* "checking", "launch" when all checks passed, "dead" after a message

checkVars == <<vmcb, i, state>>

CheckInit ==
  /\ vmcb \in Vmcbs
  /\ i = 1
  /\ state = "checking"

------------------------------------------------------------------------------
(* The macros of msr.h, system.h and vmcb.h, as the compiler sees them. *)
EFER_LME == {8}
EFER_LMA == {10}
EFER_SVME == {12}
X86_CR0_PE == {0}
X86_CR0_NW == {29}
X86_CR0_CD == {30}
X86_CR0_PG == {31}
X86_CR4_PAE == {5, 7}   \* 5UL << 5
INTRCPT_VMRUN == {0}

(* x & mask, as a condition *)
AnyOf(x, mask) == x \cap mask # {}

SUB_BIT(x, start, len) == {b - start : b \in {c \in x : start <= c /\ c < start + len}}

(* A word that is returned as an int keeps its low 32 bits. *)
Returned(x) == {b \in x : b < 32}

NotZero(x) == Returned(x) # {}

LongModePaging == AnyOf(vmcb.efer, EFER_LME) /\ AnyOf(vmcb.cr0, X86_CR0_PG)

(* The functions of the table: TRUE is a return value that is not 0. *)
check_efer_svme == ~ AnyOf(vmcb.efer, EFER_SVME)
check_cr0cd_cr0nw == ~ AnyOf(vmcb.cr0, X86_CR0_CD) /\ AnyOf(vmcb.cr0, X86_CR0_NW)
check_cr0_32_63 == NotZero(SUB_BIT(vmcb.cr0, 32, 32))
\* Faulty form: off by one.
check_cr4_10_63 == NotZero(SUB_BIT(vmcb.cr4, 10, 54))
check_cr4_11_63 == NotZero(SUB_BIT(vmcb.cr4, 11, 53))
check_dr6_32_63 == NotZero(SUB_BIT(vmcb.dr6, 32, 32))
check_dr7_32_63 == NotZero(SUB_BIT(vmcb.dr7, 32, 32))
\* Faulty form: off by one.
check_efer_16_63 == NotZero(SUB_BIT(vmcb.efer, 16, 48))
check_efer_15_63 == NotZero(SUB_BIT(vmcb.efer, 15, 49))
check_eferlme_cr0pg_cr4pae == LongModePaging /\ ~ AnyOf(vmcb.cr4, X86_CR4_PAE)
check_eferlme_cr0pg_cr0pe == LongModePaging /\ ~ AnyOf(vmcb.cr0, X86_CR0_PE)
\* Faulty form: forgets CS.D.
check_eferlme_cr0pg_cr4pae_csl ==
  LongModePaging /\ AnyOf(vmcb.cr4, X86_CR4_PAE) /\ vmcb.cs_l
check_eferlme_cr0pg_cr4pae_csl_csd ==
  LongModePaging /\ AnyOf(vmcb.cr4, X86_CR4_PAE) /\ vmcb.cs_l /\ vmcb.cs_db
check_vmrun_intercept == ~ AnyOf(vmcb.general2_intercepts, INTRCPT_VMRUN)
check_msr_ioio_intercept_tables == FALSE

Checks ==
  << check_efer_svme, check_cr0cd_cr0nw, check_cr0_32_63, check_cr4_11_63,
     check_dr6_32_63, check_dr7_32_63, check_efer_15_63, check_eferlme_cr0pg_cr4pae,
     check_eferlme_cr0pg_cr0pe, check_eferlme_cr0pg_cr4pae_csl_csd,
     check_vmrun_intercept, check_msr_ioio_intercept_tables >>

NumberOfChecks == 12

(* vmcb_check_consistency: one iteration. *)
CheckPasses ==
  /\ state = "checking"
  /\ i <= NumberOfChecks
  /\ ~ Checks[i]
  /\ i' = i + 1
  /\ UNCHANGED <<vmcb, state>>

(* "Consistency check failed." after the message of entry i. *)
CheckFails ==
  /\ state = "checking"
  /\ i <= NumberOfChecks
  /\ Checks[i]
  /\ state' = "dead"
  /\ UNCHANGED <<vmcb, i>>

(* vm_boot goes on to svm_launch. *)
AllPassed ==
  /\ state = "checking"
  /\ i > NumberOfChecks
  /\ state' = "launch"
  /\ UNCHANGED <<vmcb, i>>

CheckNext == CheckPasses \/ CheckFails \/ AllPassed

CheckSpec == CheckInit /\ [][CheckNext]_checkVars

------------------------------------------------------------------------------
(* The fields vm_create gives a new VMCB after clearing it. *)
CreatedVmcb ==
  [efer |-> EFER_LME \cup EFER_LMA \cup EFER_SVME, cr0 |-> X86_CR0_PE \cup X86_CR0_PG,
   cr4 |-> X86_CR4_PAE, dr6 |-> {}, dr7 |-> {}, general2_intercepts |-> INTRCPT_VMRUN,
   cs_l |-> TRUE, cs_db |-> FALSE]

(* The bits of a register from position first on. *)
From(x, first) == {b \in x : b >= first}

(***************************************************************************)
(* What the messages of the table say, with bit 5 of CR4 for CR4.PAE       *)
(* (system.h:7) and CR0.PE in the message that names CR4.PE: the states in *)
(* which VMRUN refuses to enter a guest (vmcb.c:120-132).                  *)
(***************************************************************************)
LmeAndPg == 8 \in vmcb.efer /\ 31 \in vmcb.cr0

Messages == <<
  12 \notin vmcb.efer,
  30 \notin vmcb.cr0 /\ 29 \in vmcb.cr0,
  From(vmcb.cr0, 32) # {},
  From(vmcb.cr4, 11) # {},
  From(vmcb.dr6, 32) # {},
  From(vmcb.dr7, 32) # {},
  From(vmcb.efer, 15) # {},
  LmeAndPg /\ 5 \notin vmcb.cr4,
  LmeAndPg /\ 0 \notin vmcb.cr0,
  LmeAndPg /\ 5 \in vmcb.cr4 /\ vmcb.cs_l /\ vmcb.cs_db,
  0 \notin vmcb.general2_intercepts >>

(* A VMCB that is launched is one that no message describes: every check
   has been made, and each looks at the bits its message names. *)
LaunchedIsConsistent == state = "launch" => \A k \in DOMAIN Messages : ~ Messages[k]

(* A VMCB that is refused is described by the message that is printed. *)
RefusedForTheReasonGiven == state = "dead" => i \in DOMAIN Messages /\ Messages[i]

(* The VMCB that vm_create builds is never refused (vm.c:40-120, 286). *)
CreatedIsLaunched == vmcb = CreatedVmcb => state # "dead"
===============================================================================
