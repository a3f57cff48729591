------------------------------ MODULE MCSvmLaunch ------------------------------
(***************************************************************************)
(* Processors that differ from one the VMM accepts in each answer the code *)
(* looks at: the vendor, the family with and without an extended family    *)
(* (0x00100F48 is a family 16), the leaves there are, the flags in leaves  *)
(* there are not, and what the firmware has locked.                        *)
(***************************************************************************)
EXTENDS SvmLaunch

Leaf(high, low) == [hi |-> high, lo |-> low]

Opteron ==
  [vendor_id |-> "AuthenticAMD", cpuid_level |-> 1, tfms |-> 3920, edx1 |-> {19, 31}, ecx1 |-> {0},
   xlvl |-> Leaf(32768, 24), vendor_bit |-> TRUE, edx81 |-> {29}, ecx81 |-> {2},
   nested_paging |-> TRUE, tlvl |-> Leaf(0, 0), edx86 |-> {}, svm_locked |-> FALSE]

Leaves == {Leaf(0, 1), Leaf(32768, 0), Leaf(32768, 1), Leaf(32768, 5), Leaf(32768, 24),
           Leaf(32769, 5)}

MCProcessors ==
  {[Opteron EXCEPT !.xlvl = x, !.ecx81 = flags, !.nested_paging = np, !.svm_locked = locked] :
     x \in Leaves, flags \in {{}, {2}}, np \in BOOLEAN, locked \in BOOLEAN} \cup
  {[Opteron EXCEPT !.tfms = t, !.cpuid_level = level] :
     t \in {1664, 3912, 3919, 3921, 3928, 3920 + 65536, 3920 + 1048576, 3920 + 241 * 1048576},
     level \in {0, 1}} \cup
  {[Opteron EXCEPT !.vendor_id = "GenuineIntel", !.vendor_bit = FALSE],
   [Opteron EXCEPT !.tlvl = Leaf(32902, 1), !.edx86 = {0}]}

MCPools == {{}, {20, 24}, {70}}
MCRegisters == CalleeSaved \cup {"rax", "rcx", "rdi", "rsp"}
MCClobbers == {MCRegisters, {"rbx", "rsp"}, {"rcx", "r12", "r15"}}
===============================================================================
