------------------------------- MODULE PageMath -------------------------------
(***************************************************************************)
(* The address arithmetic of include/page.h.  Addresses and sizes are      *)
(* naturals (bytes); a page frame number (pfn) names the PageSize bytes    *)
(* that start at pfn * PageSize.  The masks of the C macros are divisions  *)
(* here because PAGE_SIZE is a power of two there.                         *)
(***************************************************************************)
EXTENDS Naturals

CONSTANT PageSize   \* PAGE_SIZE: 1 << 12 in the code

ASSUME PageSizeAssumption == PageSize \in Nat \ {0}

PAGE_UP(x)   == ((x + (PageSize - 1)) \div PageSize) * PageSize
PAGE_DOWN(x) == (x \div PageSize) * PageSize
PFN_UP(x)    == (x + (PageSize - 1)) \div PageSize
PFN_DOWN(x)  == x \div PageSize

(* The frame pfn lies wholly inside the byte range lo .. hi - 1. *)
FrameWithin(pfn, lo, hi) == lo <= pfn * PageSize /\ (pfn + 1) * PageSize <= hi

(* Some byte of the frame pfn lies in the byte range lo .. hi - 1. *)
FrameTouches(pfn, lo, hi) == pfn * PageSize < hi /\ lo < (pfn + 1) * PageSize
===============================================================================
