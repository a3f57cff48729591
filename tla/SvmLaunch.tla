------------------------------- MODULE SvmLaunch -------------------------------
(***************************************************************************)
(* kernel/svm_asm.S with the end of kernel/vm.c: the switch to the guest   *)
(* and back.  The report of the exit only prints.  The module continues    *)
(* Cpu; what vm_create builds in between is the module VmCreate.           *)
(*                                                                         *)
(* Registers hold values that are told apart by who put them there, pairs  *)
(* of a name and a number.  The number of the host's rsp is the number of  *)
(* words on its stack.                                                     *)
(***************************************************************************)
EXTENDS Cpu

CONSTANTS
  Registers,  \* the general-purpose registers
  Clobbers    \* sets of registers a guest may change before it exits

CalleeSaved == {"rbx", "rbp", "r12", "r13", "r14", "r15"}

ASSUME SvmLaunchAssumption ==
  /\ CalleeSaved \cup {"rax", "rdi", "rsp"} \subseteq Registers
  /\ Clobbers \subseteq SUBSET Registers

VARIABLES
  regs,    \* register -> value
  stack,   \* the host's stack: position -> value
  gif,     \* the global interrupt flag
  saved,   \* rax and rsp of the host in the frame VM_HSAVE_PA names
  guest    \* of the VMCB: np_enable, and the rax and rsp of the guest

switchVars == <<regs, stack, gif, saved, guest>>
launchVars == <<cpuVars, switchVars>>

HostRsp == 3   \* words on the stack when svm_launch is called
HostValue(r) == <<r, IF r = "rsp" THEN HostRsp ELSE 0>>
GuestValue == <<"guest", 0>>
Depth == regs["rsp"][2]

SwitchInit ==
  /\ regs = [r \in Registers |-> HostValue(r)]
  /\ stack = [n \in 1 .. HostRsp |-> <<"caller", n>>]
  /\ gif = TRUE
  /\ saved = << >>
  /\ guest = [np_enable |-> FALSE, rax |-> GuestValue, rsp |-> GuestValue]

LaunchInit == CpuInit /\ SwitchInit

------------------------------------------------------------------------------
(* set_control_area turns nested paging on; the rest is in VmCreate and Vmcb. *)
vm_create ==
  /\ pc = "vm_create"
  /\ guest' = [guest EXCEPT !.np_enable = TRUE]
  /\ pc' = "svm_launch"
  /\ UNCHANGED <<cpu, c, msr, host_save_area, pool, grants, regs, stack, gif, saved>>

PushOrder == << "r15", "r14", "r13", "r12", "rbp", "rbx" >>
\* Faulty form: in the order they were pushed.
PopOrderSame == << "r15", "r14", "r13", "r12", "rbp", "rbx" >>
PopOrder == << "rbx", "rbp", "r12", "r13", "r14", "r15" >>

(* mov %rdi, %rax; the callee-saved registers are pushed. *)
PushRegisters ==
  /\ pc = "svm_launch"
  /\ stack' = [n \in 1 .. Depth + 6 |-> IF n <= Depth THEN stack[n] ELSE regs[PushOrder[n - Depth]]]
  /\ regs' = [regs EXCEPT !["rax"] = regs["rdi"], !["rsp"][2] = @ + 6]
  /\ pc' = "clgi"
  /\ UNCHANGED <<cpu, c, msr, host_save_area, pool, grants, gif, saved, guest>>

CLGI ==
  /\ pc = "clgi"
  /\ gif' = FALSE
  /\ pc' = "vmrun"
  /\ UNCHANGED <<cpu, c, msr, host_save_area, pool, grants, regs, stack, saved, guest>>

(* The processor saves the host's rax and rsp and loads the guest's; a VMCB it
   does not accept exits at once. *)
VMRUN ==
  /\ pc = "vmrun"
  /\ saved' = [rax |-> regs["rax"], rsp |-> regs["rsp"]]
  /\ IF guest.np_enable /\ ~ cpu.nested_paging
     THEN pc' = "stgi" /\ UNCHANGED <<regs, gif>>
     ELSE /\ regs' = [regs EXCEPT !["rax"] = guest.rax, !["rsp"] = guest.rsp]
          /\ gif' = TRUE
          /\ pc' = "guest"
  /\ UNCHANGED <<cpu, c, msr, host_save_area, pool, grants, stack, guest>>

(* Any program: it changes any of its registers, and exits if it likes. *)
GuestRuns ==
  /\ pc = "guest"
  /\ \E changed \in Clobbers :
       regs' = [r \in Registers |-> IF r \in changed THEN GuestValue ELSE regs[r]]
  /\ UNCHANGED <<cpuVars, stack, gif, saved, guest>>

(* rax and rsp change hands again; the other registers are left to software. *)
VMEXIT ==
  /\ pc = "guest"
  /\ guest' = [guest EXCEPT !.rax = regs["rax"], !.rsp = regs["rsp"]]
  /\ regs' = [regs EXCEPT !["rax"] = saved.rax, !["rsp"] = saved.rsp]
  /\ gif' = FALSE
  /\ pc' = "stgi"
  /\ UNCHANGED <<cpu, c, msr, host_save_area, pool, grants, stack, saved>>

(* STGI; the registers are popped, svm_launch returns. *)
STGI ==
  /\ pc = "stgi"
  /\ gif' = TRUE
  /\ regs' = [r \in Registers |->
                IF r = "rsp" THEN <<"rsp", Depth - 6>>
                ELSE IF r \in CalleeSaved
                THEN stack[Depth + 1 - CHOOSE k \in 1 .. 6 : PopOrder[k] = r]
                ELSE regs[r]]
  /\ pc' = "handle_vmexit"
  /\ UNCHANGED <<cpu, c, msr, host_save_area, pool, grants, stack, saved, guest>>

------------------------------------------------------------------------------
(* vm_boot leaves its loop after one exit, start_vmm returns: ud2. *)
handle_vmexit ==
  /\ pc = "handle_vmexit"
  /\ pc' = "dead"
  /\ UNCHANGED <<cpu, c, msr, host_save_area, pool, grants, regs, stack, gif, saved, guest>>

HostStep ==
  \/ CpuStep /\ UNCHANGED switchVars
  \/ vm_create \/ PushRegisters \/ CLGI \/ VMRUN \/ STGI \/ handle_vmexit

LaunchNext == HostStep \/ GuestRuns \/ VMEXIT

LaunchSpec == LaunchInit /\ [][LaunchNext]_launchVars

------------------------------------------------------------------------------
(***************************************************************************)
(* When svm_launch returns, the registers the ABI makes it keep hold what  *)
(* its caller left in them, and the caller's part of the stack is as it    *)
(* was, whatever registers the guest changed: VMRUN itself only keeps rax  *)
(* and rsp (svm_asm.S:10-39).                                              *)
(***************************************************************************)
CalleeSavedRestored ==
  pc \in {"handle_vmexit", "dead"} =>
    /\ \A r \in CalleeSaved \cup {"rsp"} : regs[r] = HostValue(r)
    /\ \A n \in 1 .. HostRsp : stack[n] = <<"caller", n>>

(***************************************************************************)
(* "Before any SVM instruction can be used, EFER.SVME must be set to 1"    *)
(* (svm.c:47-49): whatever CPUID answers, in leaves the processor has and  *)
(* in leaves it has not, VMRUN is reached only on a processor the code is  *)
(* written for; then SVME is set, the host's state goes to the one frame   *)
(* that was allocated for it, and no interrupt can arrive until the host   *)
(* is back (cpu.c:71-206, svm.c:33-69, svm_asm.S:19-30).                   *)
(***************************************************************************)
VmrunIsLegal ==
  pc \in {"clgi", "vmrun", "stgi"} =>
    /\ Intended(cpu)
    /\ msr.efer \ {_EFER_NX} = BootEfer \cup {_EFER_SVME}
    /\ msr.vm_hsave_pa = host_save_area /\ host_save_area < MappedFrames
    /\ grants = << [first |-> host_save_area, nr |-> 1] >>
    /\ pc # "clgi" => ~ gif
===============================================================================
