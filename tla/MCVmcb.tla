-------------------------------- MODULE MCVmcb --------------------------------
(***************************************************************************)
(* VMCBs around the one vm_create builds: all combinations of the bits the *)
(* checks on long mode and caching read, and each reserved bit alone.      *)
(***************************************************************************)
EXTENDS Vmcb

Combinations ==
  [efer : SUBSET {8, 12}, cr0 : SUBSET {0, 29, 30, 31}, cr4 : SUBSET {5}, dr6 : {{}}, dr7 : {{}},
   general2_intercepts : SUBSET {0}, cs_l : BOOLEAN, cs_db : BOOLEAN]

(* The VMCB of vm_create with one bit of one register turned over. *)
Toggled(x, b) == IF b \in x THEN x \ {b} ELSE x \cup {b}
OneBitOff(ofCr4, ofEfer) ==
  {[CreatedVmcb EXCEPT !.cr0 = Toggled(@, b)] : b \in BitNumber} \cup
  {[CreatedVmcb EXCEPT !.dr6 = Toggled(@, b)] : b \in BitNumber} \cup
  {[CreatedVmcb EXCEPT !.dr7 = Toggled(@, b)] : b \in BitNumber} \cup
  {[CreatedVmcb EXCEPT !.cr4 = Toggled(@, b)] : b \in ofCr4} \cup
  {[CreatedVmcb EXCEPT !.efer = Toggled(@, b)] : b \in ofEfer}

(* The reserved bits that an int can still tell from 0. *)
MCVmcbs == {CreatedVmcb} \cup Combinations \cup OneBitOff((0 .. 42) \ {5}, 0 .. 46)

(* The reserved bits that an int has no place for. *)
HighBits == OneBitOff(43 .. 63, 47 .. 63)

(* Physical-address extension off, with and without global pages. *)
NoPae == {[CreatedVmcb EXCEPT !.cr4 = c] : c \in SUBSET {7}}
===============================================================================
