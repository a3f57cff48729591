---------------------------- MODULE FrameAllocator ----------------------------
(***************************************************************************)
(* What kernel/alloc.c promises its callers, with no bitmap and no words:  *)
(* there is a pool of frames; start-up puts frames into it until the first *)
(* request is served; after that frames only leave it, each request taking *)
(* the lowest contiguous run that starts at a multiple of its alignment.   *)
(*                                                                         *)
(* SetupArch implements this module: its pool is the set of clear bits     *)
(* below the last frame of memory, which alloc_boot_pages never considers. *)
(***************************************************************************)
EXTENDS Naturals, Sequences

CONSTANTS
  Frames,    \* the frames that may exist
  Requests   \* the <<nr, align>> a client may ask for

VARIABLES
  pool,    \* the frames that can still be granted
  grants   \* the runs granted so far, in order

Granted(g) == g.first .. g.first + g.nr - 1

Init ==
  /\ pool = {}
  /\ grants = << >>

(* init_alloc_bitmap: an entry of the memory map adds its frames. *)
Donate ==
  /\ grants = << >>
  /\ pool' \in SUBSET Frames
  /\ pool \subseteq pool'
  /\ UNCHANGED grants

(* A run of grantable frames that starts at a multiple of align. *)
Fits(first, nr, align) ==
  /\ first % align = 0
  /\ first .. first + nr - 1 \subseteq pool

\* Faulty form: any run that fits.
GrantAnyRun(first, nr, align) ==
  /\ Fits(first, nr, align)
  /\ pool' = pool \ (first .. first + nr - 1)
  /\ grants' = Append(grants, [first |-> first, nr |-> nr])

(* alloc_pages returns the lowest run that fits. *)
GrantRun(first, nr, align) ==
  /\ Fits(first, nr, align)
  /\ \A g \in pool : g < first => ~ Fits(g, nr, align)
  /\ pool' = pool \ (first .. first + nr - 1)
  /\ grants' = Append(grants, [first |-> first, nr |-> nr])

Grant(nr, align) == \E first \in pool : GrantRun(first, nr, align)

(* alloc_pages finds no run: the caller never gets an answer. *)
Exhausted(nr, align) == \A first \in pool : ~ Fits(first, nr, align)

Next == Donate \/ \E r \in Requests : Grant(r[1], r[2])

Spec == Init /\ [][Next]_<<pool, grants>>

------------------------------------------------------------------------------
(* The pool and the grants are made of frames. *)
TypeOK ==
  /\ pool \subseteq Frames
  /\ grants \in Seq([first : Frames, nr : Nat \ {0}])

(* No frame is granted to two requests, and a granted frame is not grantable
   any more (alloc.c:166-195). *)
GrantsDisjoint ==
  /\ \A a, b \in DOMAIN grants : a # b => Granted(grants[a]) \cap Granted(grants[b]) = {}
  /\ \A a \in DOMAIN grants : Granted(grants[a]) \cap pool = {}

(* Once a request has been served the pool never grows again: alloc.c has no
   free operation for its clients. *)
NoRefill == [][grants # << >> => pool' \subseteq pool]_<<pool, grants>>
===============================================================================
