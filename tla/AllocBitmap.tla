----------------------------- MODULE AllocBitmap -----------------------------
(***************************************************************************)
(* The word operations of kernel/alloc.c on the allocation bitmap.  A word *)
(* (unsigned long) is the set of the offsets of its 1 bits; the bitmap tbl *)
(* is a function from word indices to words.  A 1 bit is a frame that may  *)
(* not be handed out.                                                      *)
(*                                                                         *)
(* C does not check an index: a write outside the array lands in whatever  *)
(* lies there.  map_alloc and map_free show it by returning a tbl with a   *)
(* larger domain, so that an overrun is visible as a change of DOMAIN.     *)
(***************************************************************************)
EXTENDS Naturals

CONSTANTS
  ByteBits,   \* bits of a byte (8)
  WordBytes   \* sizeof (unsigned long) (8)

ASSUME AllocBitmapAssumption ==
  /\ ByteBits \in Nat \ {0}
  /\ WordBytes \in Nat \ {0}

(* 1 << ALLOC_BITMAP_SHIFT *)
WordBits == ByteBits * WordBytes
Bits == 0 .. WordBits - 1

get_alloc_bitmap_idx(pfn) == pfn \div WordBits
get_alloc_bitmap_offset(pfn) == pfn % WordBits

\* Faulty form: one bit short.
BitsBelowButOne(n) == {b \in Bits : b + 1 < n}
BitsBelow(n) == {b \in Bits : b < n}    \* (1UL << n) - 1
BitsFrom(n)  == {b \in Bits : b >= n}   \* - (1UL << n)

(* Words of WordBits bits, at indices of C's unsigned type. *)
IsBitmap(tbl) ==
  /\ DOMAIN tbl \subseteq Nat
  /\ tbl \in [DOMAIN tbl -> SUBSET Bits]

(* A word outside the array reads as something unknown; {} stands for it. *)
WordAt(tbl, k) == IF k \in DOMAIN tbl THEN tbl[k] ELSE {}

allocated_in_map(tbl, pfn) ==
  get_alloc_bitmap_offset(pfn) \in WordAt(tbl, get_alloc_bitmap_idx(pfn))

(* The words map_alloc and map_free write for the same arguments. *)
WordsWritten(first_page, nr_pages) ==
  get_alloc_bitmap_idx(first_page) .. get_alloc_bitmap_idx(first_page + nr_pages)

(* The bits map_alloc sets in the word k of WordsWritten. *)
SetMask(k, first_page, nr_pages) ==
  LET curr_idx  == get_alloc_bitmap_idx(first_page)
      start_off == get_alloc_bitmap_offset(first_page)
      end_idx   == get_alloc_bitmap_idx(first_page + nr_pages)
      end_off   == get_alloc_bitmap_offset(first_page + nr_pages)
  IN IF curr_idx = end_idx THEN BitsBelow(end_off) \cap BitsFrom(start_off)
     ELSE IF k = curr_idx THEN BitsFrom(start_off)
     ELSE IF k < end_idx THEN Bits
     ELSE BitsBelow(end_off)

(* The bits map_free keeps in the word k of WordsWritten. *)
KeepMask(k, first_page, nr_pages) ==
  LET curr_idx  == get_alloc_bitmap_idx(first_page)
      start_off == get_alloc_bitmap_offset(first_page)
      end_idx   == get_alloc_bitmap_idx(first_page + nr_pages)
      end_off   == get_alloc_bitmap_offset(first_page + nr_pages)
  IN IF curr_idx = end_idx THEN BitsFrom(end_off) \cup BitsBelow(start_off)
     ELSE IF k = curr_idx THEN BitsBelow(start_off)
     ELSE IF k < end_idx THEN {}
     ELSE BitsFrom(end_off)

map_alloc(tbl, first_page, nr_pages) ==
  [k \in DOMAIN tbl \cup WordsWritten(first_page, nr_pages) |->
     IF k \in WordsWritten(first_page, nr_pages)
     THEN WordAt(tbl, k) \cup SetMask(k, first_page, nr_pages)
     ELSE tbl[k]]

map_free(tbl, first_page, nr_pages) ==
  [k \in DOMAIN tbl \cup WordsWritten(first_page, nr_pages) |->
     IF k \in WordsWritten(first_page, nr_pages)
     THEN WordAt(tbl, k) \cap KeepMask(k, first_page, nr_pages)
     ELSE tbl[k]]

(* The frames of a run: first_page, first_page + 1, ... *)
Run(first_page, nr_pages) == first_page .. first_page + nr_pages - 1

\* Faulty form: looks at the first frame only.
is_free_first_page(tbl, pfn, nr_pfns) == ~ allocated_in_map(tbl, pfn)

is_free_contiguous_region(tbl, pfn, nr_pfns) ==
  \A f \in Run(pfn, nr_pfns) : ~ allocated_in_map(tbl, f)

(* The frames the words of tbl have a bit for. *)
CoveredFrames(tbl) ==
  UNION {k * WordBits .. k * WordBits + WordBits - 1 : k \in DOMAIN tbl}

(* The frames whose bit is 0: what the allocator can still hand out. *)
FreeFrames(tbl) == {f \in CoveredFrames(tbl) : ~ allocated_in_map(tbl, f)}
===============================================================================
