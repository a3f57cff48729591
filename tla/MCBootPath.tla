------------------------------ MODULE MCBootPath ------------------------------
(***************************************************************************)
(* Machines of up to 200 frames, eight frames to 2 Mbytes; the program lies in    *)
(* 8 .. 9, the bitmap behind it in 10 .. 12 and the heap ends at 16, so    *)
(* that a module at 10 lies under the bitmap, and one at 14 or 17 overlaps *)
(* the stash at 16 from below or above.  A bitmap word has 32 bits.  Some  *)
(* machines have too little memory for one of the allocations, a hole      *)
(* inside the free frames, memory behind the mapped 60 frames only, or so  *)
(* much that the bitmap outgrows the heap.                                 *)
(***************************************************************************)
EXTENDS BootPath, MCMachines, MCImages

Layouts ==
  { << Ram(0, 5), Hole(5, 8), Ram(8, 64) >>,
    << Ram(8, 64), Ram(0, 5) >>,
    << Ram(0, 5), Ram(8, 30), Ram(32, 62) >>,
    << Ram(38, 62), Ram(0, 5), Ram(8, 30) >>,
    << Ram(0, 5), Ram(8, 18), Ram(22, 64) >>,
    << Ram(8, 44) >>, << Ram(8, 24) >>, << Ram(8, 21) >>, << Ram(8, 16), Ram(58, 64) >>,
    << Ram(8, 28), Ram(56, 64) >>, << Ram(8, 14) >>,
    << Ram(8, 64), Hole(64, 66), Ram(180, 200) >> }

(* Also a loader that reports no module, or no memory map. *)
MCMultibootInfos ==
  {Info(s, Both, 1, size) : s \in Layouts, size \in {3, 5}} \cup
  {Info(<< Ram(8, 64) >>, {"MBI_MEMMAP"}, 1, 3), Info(<< Ram(8, 64) >>, {"MBI_MODULES"}, 1, 3)}

(* Those of vm.c, svm.c and page.c. *)
MCRequests == {<<1, 1>>, <<2, 1>>, <<3, 1>>, <<PmemSize, SuperPageSize>>}

MCModules == {10, 14, 17, 18, 40} \X {Sos, Several}
===============================================================================
