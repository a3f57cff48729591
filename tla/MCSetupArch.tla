----------------------------- MODULE MCSetupArch -----------------------------
(***************************************************************************)
(* Machines of up to 22 frames.  A word has 4 bits, so runs cross words.   *)
(* Entries lie below, across and above the heap's end (18) and the mapped  *)
(* limit (40), start and end inside frames, and touch each other.  The     *)
(* entry that ends at 64 makes the bitmap outgrow the heap.                *)
(***************************************************************************)
EXTENDS SetupArch, MCMachines

Entries == {Ram(0, 5), Ram(0, 11), Ram(1, 19), Ram(6, 30), Hole(11, 16), Ram(18, 27),
            Ram(19, 26), Hole(22, 26), Ram(27, 41), Ram(31, 36), Ram(39, 44), Ram(48, 64)}

(* For the scans of the map alone: up to four entries, one more than the table holds. *)
SmallEntries == {Ram(0, 5), Ram(1, 2), Ram(3, 9), Ram(5, 8), Ram(9, 14), Ram(11, 13),
                 Hole(8, 9), Hole(14, 18)}

MCMultibootInfos ==
  {Info(s, Both, 1, size) : s \in LayoutsOf(Entries, 3), size \in {1, 4}} \cup
  {Info(s, Both, 1, 1) : s \in LayoutsOf(SmallEntries, 4)} \cup
  {Info(<<Ram(1, 19)>>, flags, 1, 4) : flags \in SUBSET Both} \cup
  {Info(<<Ram(1, 19)>>, Both, 0, 4), Info(<<Ram(6, 30)>>, Both, 1, 0)}

(* Little and ample memory below 4 Gbytes, which are 128 for the int of the high
   run, and memory above. *)
HighInfos ==
  {Info(s, Both, 1, 4) :
     s \in {t \in LayoutsOf({Ram(0, 11), Ram(0, 30), Ram(128, 136)}, 2) : Len(t) = 2}}

MCRequests == {<<1, 1>>, <<3, 1>>, <<4, 4>>}
===============================================================================
