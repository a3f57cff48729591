------------------------------ MODULE MCVmCreate ------------------------------
(***************************************************************************)
(* Eight frames are 2 Mbytes here, the guest gets sixteen, the program and *)
(* its heap lie in 8 .. 15.  The pools are ample, scattered, too small at  *)
(* each of the allocations, without an aligned run of sixteen frames, or   *)
(* reach behind the mapped frames.                                         *)
(***************************************************************************)
EXTENDS VmCreate, MCImages

Handover(free, stash, image) ==
  [pool |-> free, stash |-> stash, image |-> image, vmm |-> [f \in 8 .. 15 |-> <<"vmm">>]]

SosPools ==
  {20 .. 51, {19, 23} \cup (25 .. 27) \cup (31 .. 33) \cup (40 .. 55) \cup (58 .. 63),
   {}, {20}, {20, 21}, 20 .. 25, 20 .. 38, (20 .. 30) \cup (32 .. 47),
   (20 .. 28) \cup (32 .. 47), (20 .. 29) \cup (32 .. 47), (20 .. 28) \cup (40 .. 59),
   {60} \cup (20 .. 22), (20 .. 26) \cup (48 .. 63), (20 .. 26) \cup (40 .. 55) \cup {60, 61, 62},
   (20 .. 25) \cup (60 .. 62), (20 .. 27) \cup (40 .. 55) \cup {60, 61}, 58 .. 63}

SeveralPools == {24 .. 55, (21 .. 30) \cup (40 .. 63), (21 .. 30) \cup (48 .. 63)}

MCHandovers ==
  {Handover(p, 16, Sos) : p \in SosPools} \cup {Handover(p, 16, Several) : p \in SeveralPools}

MCPools == SosPools \cup SeveralPools
===============================================================================
