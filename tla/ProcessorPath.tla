----------------------------- MODULE ProcessorPath -----------------------------
(***************************************************************************)
(* The way of the processor through the VMM, as BootPath is that of the    *)
(* memory: the entry code (BootEntry) calls start_vmm, which identifies    *)
(* the processor and enables SVM (Cpu), creates the machine and boots it:  *)
(* vm_boot checks the VMCB (Vmcb) and only then switches to the guest      *)
(* (SvmLaunch).                                                            *)
(*                                                                         *)
(* EFER is one register: BootEntry has its bits by name, Cpu by number.    *)
(* The VMCB is chosen at the start and is any one of Vmcbs, not only the   *)
(* one vm_create builds.                                                   *)
(***************************************************************************)
EXTENDS BootEntry, SvmLaunch, Vmcb

CONSTANT Starts   \* the combinations of loader, processor, pool and VMCB

ASSUME ProcessorPathAssumption == Starts \subseteq Loaders \X Processors \X Pools \X Vmcbs

vars == <<entryVars, cpuVars, switchVars, checkVars>>

EferBit == [SCE |-> 0, LME |-> 8, LMA |-> 10, NX |-> _EFER_NX]
Numbers(e) == {EferBit[b] : b \in e}

Init ==
  /\ \E s \in Starts : loader = s[1] /\ cpu = s[2] /\ pool = s[3] /\ vmcb = s[4]
  /\ EntryInit /\ CpuReset /\ SwitchInit /\ CheckInit
  /\ msr = [efer |-> Numbers(efer), vm_hsave_pa |-> 0]

Entry ==
  /\ EntryNext
  /\ msr' = [msr EXCEPT !.efer = Numbers(efer')]
  /\ UNCHANGED <<cpu, pc, c, host_save_area, pool, grants, switchVars, checkVars>>

(* vm_boot: the checks come between vm_create and svm_launch. *)
vmcb_check_consistency ==
  /\ pc = "svm_launch"
  /\ CheckNext
  /\ UNCHANGED <<entryVars, cpuVars, switchVars>>

start_vmm ==
  /\ ip = "start_vmm"
  /\ pc = "svm_launch" => state = "launch"
  /\ HostStep
  /\ UNCHANGED <<entryVars, checkVars>>

Guest == (GuestRuns \/ VMEXIT) /\ UNCHANGED <<entryVars, checkVars>>

Vmm == Entry \/ vmcb_check_consistency \/ start_vmm
Next == Vmm \/ Guest

Spec == Init /\ [][Next]_vars

(* The VMM's instructions follow one another; the guest owes nothing. *)
FairSpec == Spec /\ WF_vars(Vmm)

------------------------------------------------------------------------------
(***************************************************************************)
(* Started by a Multiboot loader on a processor the code is written for,   *)
(* with a free frame that is mapped, the VMM gets as far as VMRUN: every   *)
(* table and mode the entry code needs is set up before it is used, EFER   *)
(* is as enable_svm finds it right, no test refuses this processor, and    *)
(* none the VMCB that vm_create builds (boot.S:33-140, cpu.c:71-206,       *)
(* svm.c:33-69, vmcb.c:117-142, svm_asm.S:19-25).                          *)
(***************************************************************************)
LowestMapped == \E f \in pool : f < MappedFrames /\ \A g \in pool : f <= g

VmrunReached ==
  /\ loader.eax = "MULTIBOOT_BOOTLOADER_MAGIC"
  /\ Intended(cpu) /\ LowestMapped
  /\ vmcb = CreatedVmcb
  => <>(pc = "vmrun")
===============================================================================
