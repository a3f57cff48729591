--------------------------- MODULE SetupArchProofs ---------------------------
(***************************************************************************)
(* Theorems about SetupArch, for every memory map, page size, word size,   *)
(* heap and set of requests.                                               *)
(***************************************************************************)
EXTENDS SetupArch, FiniteSetTheorems, TLAPS

------------------------------------------------------------------------------
(***************************************************************************)
(* What the word operations of alloc.c do to the set of free frames, for   *)
(* every word size, run and bitmap.  A frame number is compared with the   *)
(* ends of a run through its word index first and its offset second        *)
(* (PfnOrder); each of the masks is one case of that comparison.           *)
(***************************************************************************)

(* Division with remainder, in the form the provers use. *)
LEMMA DivModExact ==
  ASSUME NEW a \in Nat, NEW d \in Nat \ {0}
  PROVE  /\ a \div d \in Nat
         /\ a % d \in 0 .. d - 1
         /\ a = d * (a \div d) + (a % d)
  OBVIOUS

(* A quotient and a remainder determine their number and are determined by it. *)
LEMMA DivModUnique ==
  ASSUME NEW d \in Nat \ {0}, NEW q \in Nat, NEW r \in 0 .. d - 1
  PROVE  (d * q + r) \div d = q /\ (d * q + r) % d = r
  OBVIOUS

(* Division keeps the order of the numbers. *)
LEMMA DivMonotone ==
  ASSUME NEW a \in Nat, NEW b \in Nat, NEW d \in Nat \ {0}, a <= b
  PROVE  a \div d <= b \div d
  OBVIOUS

(* A word has at least one bit. *)
LEMMA WordBitsPositive == WordBits \in Nat \ {0}
  BY AllocBitmapAssumption DEF WordBits

(* get_alloc_bitmap_idx and get_alloc_bitmap_offset split a frame number. *)
LEMMA PfnParts ==
  ASSUME NEW f \in Nat
  PROVE  /\ get_alloc_bitmap_idx(f) \in Nat
         /\ get_alloc_bitmap_offset(f) \in Bits
         /\ f = WordBits * get_alloc_bitmap_idx(f) + get_alloc_bitmap_offset(f)
  BY WordBitsPositive, DivModExact DEF get_alloc_bitmap_idx, get_alloc_bitmap_offset, Bits

(* Numbers in base d compare digit by digit. *)
LEMMA LexicographicOrder ==
  ASSUME NEW d \in Nat \ {0},
         NEW x \in Nat, NEW y \in Nat, NEW u \in 0 .. d - 1, NEW v \in 0 .. d - 1
  PROVE  d * x + u < d * y + v <=> x < y \/ (x = y /\ u < v)
  <1>1. CASE x < y
    <2>1. d * (x + 1) <= d * y
      BY <1>1
    <2> QED BY <1>1, <2>1
  <1>2. CASE y < x
    <2>1. d * (y + 1) <= d * x
      BY <1>2
    <2> QED BY <1>2, <2>1
  <1>3. CASE x = y
    BY <1>3
  <1> QED BY <1>1, <1>2, <1>3

(* Frames compare as their pairs of index and offset do. *)
LEMMA PfnOrder ==
  ASSUME NEW f \in Nat, NEW g \in Nat
  PROVE  f < g <=> \/ get_alloc_bitmap_idx(f) < get_alloc_bitmap_idx(g)
                   \/ /\ get_alloc_bitmap_idx(f) = get_alloc_bitmap_idx(g)
                      /\ get_alloc_bitmap_offset(f) < get_alloc_bitmap_offset(g)
  <1> DEFINE fi == get_alloc_bitmap_idx(f)
             fo == get_alloc_bitmap_offset(f)
             gi == get_alloc_bitmap_idx(g)
             go == get_alloc_bitmap_offset(g)
  <1>1. /\ fi \in Nat /\ gi \in Nat
        /\ fo \in 0 .. WordBits - 1 /\ go \in 0 .. WordBits - 1
        /\ f = WordBits * fi + fo /\ g = WordBits * gi + go
    BY PfnParts DEF Bits
  <1> HIDE DEF fi, fo, gi, go
  <1>2. WordBits * fi + fo < WordBits * gi + go <=> fi < gi \/ (fi = gi /\ fo < go)
    BY <1>1, WordBitsPositive, LexicographicOrder
  <1>3. f < g <=> fi < gi \/ (fi = gi /\ fo < go)
    BY <1>1, <1>2
  <1> QED BY <1>3 DEF fi, fo, gi, go

(* The frames of a bitmap are those whose word it has. *)
LEMMA CoveredFramesByIndex ==
  ASSUME NEW tbl, DOMAIN tbl \subseteq Nat
  PROVE  /\ CoveredFrames(tbl) \subseteq Nat
         /\ \A f \in Nat : f \in CoveredFrames(tbl) <=> get_alloc_bitmap_idx(f) \in DOMAIN tbl
  <1>1. ASSUME NEW f \in CoveredFrames(tbl)
        PROVE  f \in Nat /\ get_alloc_bitmap_idx(f) \in DOMAIN tbl
    <2>1. PICK k \in DOMAIN tbl : f \in k * WordBits .. k * WordBits + WordBits - 1
      BY <1>1 DEF CoveredFrames
    <2>2. k \in Nat
      BY <2>1
    <2>3. f - WordBits * k \in 0 .. WordBits - 1 /\ f = WordBits * k + (f - WordBits * k) /\ f \in Nat
      BY <2>1, <2>2, WordBitsPositive
    <2>4. f \div WordBits = k
      BY <2>2, <2>3, WordBitsPositive, DivModUnique
    <2> QED BY <2>1, <2>3, <2>4 DEF get_alloc_bitmap_idx
  <1>2. ASSUME NEW f \in Nat, get_alloc_bitmap_idx(f) \in DOMAIN tbl
        PROVE  f \in CoveredFrames(tbl)
    <2> DEFINE k == get_alloc_bitmap_idx(f)
               b == get_alloc_bitmap_offset(f)
    <2>1. k \in Nat /\ b \in 0 .. WordBits - 1 /\ f = WordBits * k + b
      BY PfnParts DEF Bits
    <2>2. f \in k * WordBits .. k * WordBits + WordBits - 1
      <3> HIDE DEF k, b
      <3> QED BY <2>1, WordBitsPositive
    <2> QED BY <1>2, <2>2 DEF CoveredFrames
  <1> QED BY <1>1, <1>2

(* A word written for a run is one of a frame between its two ends. *)
LEMMA RunWordsWritten ==
  ASSUME NEW first \in Nat, NEW n \in Nat \ {0}, NEW f \in Run(first, n)
  PROVE  /\ f \in Nat
         /\ get_alloc_bitmap_idx(f) \in WordsWritten(first, n)
  <1>1. f \in Nat /\ first <= f /\ f <= first + n /\ first + n \in Nat
    BY DEF Run
  <1>2. get_alloc_bitmap_idx(first) <= get_alloc_bitmap_idx(f)
        /\ get_alloc_bitmap_idx(f) <= get_alloc_bitmap_idx(first + n)
    BY <1>1, WordBitsPositive, DivMonotone DEF get_alloc_bitmap_idx
  <1> QED BY <1>1, <1>2, PfnParts DEF WordsWritten

(* The mask of map_alloc holds the offsets of the frames of the run, and the
   mask of map_free those of the others. *)
LEMMA MasksAreTheRun ==
  ASSUME NEW first \in Nat, NEW n \in Nat \ {0}, NEW f \in Nat,
         get_alloc_bitmap_idx(f) \in WordsWritten(first, n)
  PROVE  /\ get_alloc_bitmap_offset(f) \in SetMask(get_alloc_bitmap_idx(f), first, n)
              <=> f \in Run(first, n)
         /\ get_alloc_bitmap_offset(f) \in KeepMask(get_alloc_bitmap_idx(f), first, n)
              <=> f \notin Run(first, n)
  <1> DEFINE k  == get_alloc_bitmap_idx(f)
             b  == get_alloc_bitmap_offset(f)
             ci == get_alloc_bitmap_idx(first)
             so == get_alloc_bitmap_offset(first)
             ei == get_alloc_bitmap_idx(first + n)
             eo == get_alloc_bitmap_offset(first + n)
  <1>1. first + n \in Nat
    OBVIOUS
  <1>2. /\ k \in Nat /\ ci \in Nat /\ ei \in Nat
        /\ b \in Bits /\ so \in Bits /\ eo \in Bits
        /\ Bits = 0 .. WordBits - 1
        /\ k \in ci .. ei
    BY <1>1, PfnParts DEF WordsWritten, Bits
  <1>3. f \in Run(first, n) <=> ~(f < first) /\ f < first + n
    BY DEF Run
  <1>4. f < first <=> k < ci \/ (k = ci /\ b < so)
    BY PfnOrder
  <1>5. f < first + n <=> k < ei \/ (k = ei /\ b < eo)
    BY <1>1, PfnOrder
  <1>6. /\ b \in SetMask(k, first, n)
             <=> IF ci = ei THEN b < eo /\ b >= so
                 ELSE IF k = ci THEN b >= so
                 ELSE k < ei \/ b < eo
        /\ b \in KeepMask(k, first, n)
             <=> IF ci = ei THEN b >= eo \/ b < so
                 ELSE IF k = ci THEN b < so
                 ELSE ~(k < ei) /\ b >= eo
    <2> HIDE DEF k, b
    <2> QED BY <1>2 DEF SetMask, KeepMask, BitsBelow, BitsFrom
  <1>7. (ci = ei => first < first + n) /\ (ci = ei => so < eo)
    <2>1. ~(first + n < first) /\ first < first + n
      OBVIOUS
    <2> QED BY <2>1, <1>1, <1>2, PfnOrder
  <1> HIDE DEF k, b, ci, so, ei, eo
  <1>8. (b \in SetMask(k, first, n) <=> f \in Run(first, n))
        /\ (b \in KeepMask(k, first, n) <=> f \notin Run(first, n))
    BY <1>2, <1>3, <1>4, <1>5, <1>6, <1>7, WordBitsPositive
  <1> QED BY <1>8 DEF k, b

(* A frame is free when its word exists and its bit is 0. *)
LEMMA FreeFramesByBit ==
  ASSUME NEW tbl, DOMAIN tbl \subseteq Nat
  PROVE  /\ FreeFrames(tbl) \subseteq Nat
         /\ \A f \in Nat : f \in FreeFrames(tbl) <=>
              /\ get_alloc_bitmap_idx(f) \in DOMAIN tbl
              /\ get_alloc_bitmap_offset(f) \notin tbl[get_alloc_bitmap_idx(f)]
  BY CoveredFramesByIndex DEF FreeFrames, allocated_in_map, WordAt

(* Both operations return a bitmap, inside the array or not. *)
LEMMA MapOperationsTyped ==
  ASSUME NEW tbl, IsBitmap(tbl), NEW first \in Nat, NEW n \in Nat
  PROVE  IsBitmap(map_alloc(tbl, first, n)) /\ IsBitmap(map_free(tbl, first, n))
  <1>1. WordsWritten(first, n) \subseteq Nat
    <2>1. get_alloc_bitmap_idx(first) \in Nat /\ get_alloc_bitmap_idx(first + n) \in Nat
      BY PfnParts
    <2> QED BY <2>1 DEF WordsWritten
  <1>2. \A k : SetMask(k, first, n) \subseteq Bits /\ WordAt(tbl, k) \subseteq Bits
    BY DEF SetMask, BitsBelow, BitsFrom, WordAt, IsBitmap
  <1> QED BY <1>1, <1>2 DEF map_alloc, map_free, IsBitmap

(* map_alloc inside the array takes exactly the frames of the run. *)
LEMMA MapAllocTakesRun ==
  ASSUME NEW tbl, IsBitmap(tbl),
         NEW first \in Nat, NEW n \in Nat \ {0},
         WordsWritten(first, n) \subseteq DOMAIN tbl
  PROVE  /\ DOMAIN map_alloc(tbl, first, n) = DOMAIN tbl
         /\ IsBitmap(map_alloc(tbl, first, n))
         /\ FreeFrames(map_alloc(tbl, first, n)) = FreeFrames(tbl) \ Run(first, n)
  <1> DEFINE new == map_alloc(tbl, first, n)
  <1>1. /\ DOMAIN new = DOMAIN tbl
        /\ \A k \in DOMAIN tbl :
             new[k] = IF k \in WordsWritten(first, n)
                      THEN tbl[k] \cup SetMask(k, first, n) ELSE tbl[k]
    BY DEF map_alloc, WordAt
  <1>2. \A k : SetMask(k, first, n) \subseteq Bits
    BY DEF SetMask, BitsBelow, BitsFrom
  <1>3. IsBitmap(new)
    BY <1>1, <1>2 DEF IsBitmap, map_alloc
  <1> HIDE DEF new
  <1>4. ASSUME NEW f \in Nat
        PROVE  f \in FreeFrames(new) <=> f \in FreeFrames(tbl) /\ f \notin Run(first, n)
    <2> DEFINE k == get_alloc_bitmap_idx(f)
               b == get_alloc_bitmap_offset(f)
    <2>1. f \in FreeFrames(new) <=> k \in DOMAIN tbl /\ b \notin new[k]
      BY <1>1, <1>3, FreeFramesByBit DEF IsBitmap
    <2>2. f \in FreeFrames(tbl) <=> k \in DOMAIN tbl /\ b \notin tbl[k]
      BY FreeFramesByBit DEF IsBitmap
    <2>3. k \in WordsWritten(first, n) =>
            (b \in SetMask(k, first, n) <=> f \in Run(first, n))
      BY MasksAreTheRun
    <2>4. f \in Run(first, n) => k \in WordsWritten(first, n)
      BY RunWordsWritten
    <2> HIDE DEF k, b
    <2> QED BY <1>1, <2>1, <2>2, <2>3, <2>4
  <1>5. FreeFrames(new) \subseteq Nat /\ FreeFrames(tbl) \subseteq Nat
    BY <1>3, FreeFramesByBit DEF IsBitmap
  <1>6. FreeFrames(new) = FreeFrames(tbl) \ Run(first, n)
    BY <1>4, <1>5
  <1> QED BY <1>1, <1>3, <1>6 DEF new

(* map_free inside the array frees exactly the frames of the run. *)
LEMMA MapFreeGivesRun ==
  ASSUME NEW tbl, IsBitmap(tbl),
         NEW first \in Nat, NEW n \in Nat \ {0},
         WordsWritten(first, n) \subseteq DOMAIN tbl
  PROVE  /\ DOMAIN map_free(tbl, first, n) = DOMAIN tbl
         /\ IsBitmap(map_free(tbl, first, n))
         /\ FreeFrames(map_free(tbl, first, n)) = FreeFrames(tbl) \cup Run(first, n)
  <1> DEFINE new == map_free(tbl, first, n)
  <1>1. /\ DOMAIN new = DOMAIN tbl
        /\ \A k \in DOMAIN tbl :
             new[k] = IF k \in WordsWritten(first, n)
                      THEN tbl[k] \cap KeepMask(k, first, n) ELSE tbl[k]
    BY DEF map_free, WordAt
  <1>2. IsBitmap(new)
    BY <1>1 DEF IsBitmap, map_free
  <1> HIDE DEF new
  <1>3. ASSUME NEW f \in Nat
        PROVE  f \in FreeFrames(new) <=> f \in FreeFrames(tbl) \/ f \in Run(first, n)
    <2> DEFINE k == get_alloc_bitmap_idx(f)
               b == get_alloc_bitmap_offset(f)
    <2>1. f \in FreeFrames(new) <=> k \in DOMAIN tbl /\ b \notin new[k]
      BY <1>1, <1>2, FreeFramesByBit DEF IsBitmap
    <2>2. f \in FreeFrames(tbl) <=> k \in DOMAIN tbl /\ b \notin tbl[k]
      BY FreeFramesByBit DEF IsBitmap
    <2>3. k \in WordsWritten(first, n) =>
            (b \in KeepMask(k, first, n) <=> f \notin Run(first, n))
      BY MasksAreTheRun
    <2>4. f \in Run(first, n) => k \in WordsWritten(first, n)
      BY RunWordsWritten
    <2> HIDE DEF k, b
    <2> QED BY <1>1, <2>1, <2>2, <2>3, <2>4
  <1>4. FreeFrames(new) \subseteq Nat /\ FreeFrames(tbl) \subseteq Nat
    BY <1>2, FreeFramesByBit DEF IsBitmap
  <1>5. Run(first, n) \subseteq Nat
    BY RunWordsWritten
  <1>6. FreeFrames(new) = FreeFrames(tbl) \cup Run(first, n)
    BY <1>3, <1>4, <1>5
  <1> QED BY <1>1, <1>2, <1>6 DEF new

------------------------------------------------------------------------------
(* The page macros round to multiples of the page size. *)
LEMMA PageRounding ==
  ASSUME NEW x \in Nat
  PROVE  /\ PFN_UP(x) \in Nat /\ PFN_DOWN(x) \in Nat
         /\ PAGE_UP(x) \in Nat /\ PAGE_DOWN(x) \in Nat
         /\ PAGE_UP(x) = PFN_UP(x) * PageSize
         /\ PAGE_DOWN(x) = PFN_DOWN(x) * PageSize
         /\ x <= PAGE_UP(x) /\ PAGE_UP(x) < x + PageSize
         /\ PAGE_DOWN(x) <= x /\ x < PAGE_DOWN(x) + PageSize
  <1>1. PageSize \in Nat \ {0} /\ x + (PageSize - 1) \in Nat
    BY PageSizeAssumption
  <1>2. ASSUME NEW y \in Nat
        PROVE  /\ y \div PageSize \in Nat
               /\ PageSize * (y \div PageSize) <= y
               /\ y < PageSize * (y \div PageSize) + PageSize
    <2>1. y \div PageSize \in Nat /\ y % PageSize \in 0 .. PageSize - 1
          /\ y = PageSize * (y \div PageSize) + (y % PageSize)
      BY <1>1, DivModExact
    <2> QED BY <1>1, <2>1
  <1> DEFINE u == (x + (PageSize - 1)) \div PageSize
             d == x \div PageSize
  <1>3. /\ u \in Nat /\ d \in Nat
        /\ PageSize * u <= x + (PageSize - 1)
        /\ x + (PageSize - 1) < PageSize * u + PageSize
        /\ PageSize * d <= x /\ x < PageSize * d + PageSize
    BY <1>1, <1>2
  <1> HIDE DEF u, d
  <1>4. /\ u \in Nat /\ d \in Nat
        /\ u * PageSize \in Nat /\ d * PageSize \in Nat
        /\ x <= u * PageSize /\ u * PageSize < x + PageSize
        /\ d * PageSize <= x /\ x < d * PageSize + PageSize
    BY <1>1, <1>3
  <1> QED BY <1>4 DEF PFN_UP, PFN_DOWN, PAGE_UP, PAGE_DOWN, u, d

(* A frame lies between two addresses when it lies between their rounded pfns. *)
LEMMA FramesBetween ==
  ASSUME NEW s \in Nat, NEW e \in Nat, NEW f \in Nat
  PROVE  FrameWithin(f, s, e) <=> PFN_UP(s) <= f /\ f < PFN_DOWN(e)
  <1> DEFINE u == PFN_UP(s)
             d == PFN_DOWN(e)
  <1>1. /\ u \in Nat /\ d \in Nat
        /\ s <= u * PageSize /\ u * PageSize < s + PageSize
        /\ d * PageSize <= e /\ e < d * PageSize + PageSize
    BY PageRounding
  <1>2. PageSize \in Nat \ {0}
    BY PageSizeAssumption
  <1> HIDE DEF u, d
  <1>3. s <= f * PageSize <=> u <= f
    <2>1. CASE u <= f
      <3>1. u * PageSize <= f * PageSize
        BY <2>1, <1>1, <1>2
      <3> QED BY <2>1, <3>1, <1>1, <1>2
    <2>2. CASE f + 1 <= u
      <3>1. (f + 1) * PageSize <= u * PageSize
        BY <2>2, <1>1, <1>2
      <3>2. f * PageSize + PageSize <= u * PageSize
        BY <3>1, <1>1, <1>2
      <3> QED BY <2>2, <3>2, <1>1, <1>2
    <2> QED BY <2>1, <2>2, <1>1
  <1>4. (f + 1) * PageSize <= e <=> f < d
    <2>1. CASE f + 1 <= d
      <3>1. (f + 1) * PageSize <= d * PageSize
        BY <2>1, <1>1, <1>2
      <3> QED BY <2>1, <3>1, <1>1, <1>2
    <2>2. CASE d <= f
      <3>1. d * PageSize <= f * PageSize
        BY <2>2, <1>1, <1>2
      <3>2. d * PageSize + PageSize <= (f + 1) * PageSize
        BY <3>1, <1>1, <1>2
      <3> QED BY <2>2, <3>2, <1>1, <1>2
    <2> QED BY <2>1, <2>2, <1>1
  <1> QED BY <1>3, <1>4 DEF FrameWithin, u, d

(* __init_alloc_bitmap frees exactly the whole frames between its addresses,
   provided the array has a word for the frame behind the last of them. *)
LEMMA InitAllocBitmapFrees ==
  ASSUME NEW tbl, IsBitmap(tbl), NEW s \in Nat, NEW e \in Nat, NEW bound \in Nat,
         \A f \in 0 .. bound : get_alloc_bitmap_idx(f) \in DOMAIN tbl,
         PFN_UP(s) < PFN_DOWN(e) => PFN_DOWN(e) <= bound,
         \A k, l \in DOMAIN tbl : k .. l \subseteq DOMAIN tbl
  PROVE  LET new == __init_alloc_bitmap(tbl, s, e) IN
         /\ DOMAIN new = DOMAIN tbl
         /\ IsBitmap(new)
         /\ FreeFrames(new) = FreeFrames(tbl) \cup {f \in Nat : FrameWithin(f, s, e)}
  <1> DEFINE u == PFN_UP(s)
             d == PFN_DOWN(e)
  <1>1. /\ PageSize \in Nat \ {0} /\ u \in Nat /\ d \in Nat
        /\ PAGE_UP(s) = u * PageSize /\ PAGE_DOWN(e) = d * PageSize
    BY PageSizeAssumption, PageRounding
  <1>2. \A f \in Nat : FrameWithin(f, s, e) <=> u <= f /\ f < d
    BY FramesBetween
  <1>3. u < d => d <= bound
    OBVIOUS
  <1> HIDE DEF u, d
  <1>4. d * PageSize <= u * PageSize <=> d <= u
    <2>1. CASE d <= u
      BY <2>1, <1>1
    <2>2. CASE u + 1 <= d
      <3>1. (u + 1) * PageSize <= d * PageSize
        BY <2>2, <1>1
      <3>2. u * PageSize + PageSize <= d * PageSize
        BY <3>1, <1>1
      <3> QED BY <2>2, <3>2, <1>1
    <2> QED BY <2>1, <2>2, <1>1
  <1>5. CASE d <= u
    <2>1. __init_alloc_bitmap(tbl, s, e) = tbl
      BY <1>1, <1>4, <1>5 DEF __init_alloc_bitmap
    <2>2. {f \in Nat : FrameWithin(f, s, e)} = {}
      BY <1>1, <1>2, <1>5
    <2> QED BY <2>1, <2>2
  <1>6. CASE u < d
    <2>1. (u * PageSize) \div PageSize = u
      <3>1. (PageSize * u + 0) \div PageSize = u
        BY <1>1, DivModUnique
      <3>2. PageSize * u + 0 = u * PageSize
        BY <1>1
      <3> QED BY <3>1, <3>2
    <2>2. (d * PageSize - u * PageSize) \div PageSize = d - u
      <3>1. (PageSize * (d - u) + 0) \div PageSize = d - u
        BY <1>1, <1>6, DivModUnique
      <3>2. PageSize * (d - u) + 0 = d * PageSize - u * PageSize
        BY <1>1
      <3> QED BY <3>1, <3>2
    <2>3. __init_alloc_bitmap(tbl, s, e) = map_free(tbl, u, d - u)
      BY <1>1, <1>4, <1>6, <2>1, <2>2 DEF __init_alloc_bitmap
    <2>4. d - u \in Nat \ {0} /\ u + (d - u) = d /\ u \in 0 .. bound /\ d \in 0 .. bound
      BY <1>1, <1>3, <1>6
    <2>5. WordsWritten(u, d - u) \subseteq DOMAIN tbl
      BY <2>4 DEF WordsWritten
    <2>6. /\ DOMAIN map_free(tbl, u, d - u) = DOMAIN tbl
          /\ IsBitmap(map_free(tbl, u, d - u))
          /\ FreeFrames(map_free(tbl, u, d - u)) = FreeFrames(tbl) \cup Run(u, d - u)
      BY <1>1, <2>4, <2>5, MapFreeGivesRun
    <2>7. Run(u, d - u) = {f \in Nat : FrameWithin(f, s, e)}
      <3>1. Run(u, d - u) = u .. d - 1
        BY <1>1, <2>4 DEF Run
      <3> QED BY <1>1, <1>2, <3>1
    <2> QED BY <2>3, <2>6, <2>7
  <1> QED BY <1>1, <1>5, <1>6

------------------------------------------------------------------------------
(* A multiboot_info the specification starts from is well formed. *)
LEMMA InitialInfo == MapInit => MultibootInfo(mbi)
  BY MemoryMapAssumption DEF MapInit

(* setup_memory_region reads a record and steps to the next one. *)
LEMMA CursorStep ==
  ASSUME MultibootInfo(mbi), p \in Nat, CursorOnRecord, p < mbi.mmap_length
  PROVE  LET r == mbi.mmap[p] IN
         /\ r \in MemoryRecord
         /\ p + r.rsize + SizeofSize \in Nat
         /\ \/ p + r.rsize + SizeofSize = mbi.mmap_length
            \/ p + r.rsize + SizeofSize \in DOMAIN mbi.mmap
  <1>1. mbi.mmap_length \in Nat /\ p \in DOMAIN mbi.mmap
    BY DEF CursorOnRecord, MultibootInfo
  <1>2. mbi.mmap[p] \in MemoryRecord
    BY <1>1 DEF MultibootInfo
  <1>3. \/ p + mbi.mmap[p].rsize + SizeofSize = mbi.mmap_length
        \/ p + mbi.mmap[p].rsize + SizeofSize \in DOMAIN mbi.mmap
    BY <1>1 DEF MultibootInfo, Packed
  <1>4. mbi.mmap[p].rsize \in Nat /\ SizeofSize \in Nat
    BY <1>2, MemoryMapAssumption DEF MemoryRecord
  <1> QED BY <1>2, <1>3, <1>4

(* An entry of the table holds addresses. *)
LEMMA EntryNat ==
  ASSUME e820 \in Seq(E820Entry), NEW k \in 1 .. Len(e820)
  PROVE  e820[k].addr \in Nat /\ e820[k].size \in Nat /\ EntryEnd(e820[k]) \in Nat
  <1>1. e820[k] \in E820Entry
    OBVIOUS
  <1>2. e820[k].addr \in Nat /\ e820[k].size \in Nat
    BY <1>1 DEF E820Entry
  <1> QED BY <1>2 DEF EntryEnd

(* The detour through an int yields an address, if not always the same one. *)
LEMMA ThroughIntNat ==
  ASSUME NEW x \in Nat
  PROVE  ThroughInt(x) \in Nat
  <1>1. x % IntRange \in Nat /\ IntRange \in Nat /\ LongRange \in Nat /\ LongRange >= IntRange
    BY MachineWordsAssumption, DivModExact
  <1> QED BY <1>1 DEF ThroughInt

TypeInv == TypeOK /\ CursorOnRecord

LEMMA TypeInit == Init => TypeInv
  <1> SUFFICES ASSUME Init PROVE TypeInv
    OBVIOUS
  <1> USE DEF Init, MapInit
  <1>1. MultibootInfo(mbi)
    BY InitialInfo
  <1>2. p = mbi.mmap_length \/ p \in DOMAIN mbi.mmap
    BY <1>1 DEF MultibootInfo, Packed
  <1>3. e820 \in Seq(E820Entry) /\ handed \in Seq([first : Nat, nr : Nat \ {0}])
    OBVIOUS
  <1>4. IsBitmap(bitmap)
    BY DEF IsBitmap
  <1> QED BY <1>1, <1>2, <1>3, <1>4 DEF TypeInv, TypeOK, MapTypeOK, CursorOnRecord, SetupPc, MapPc

LEMMA TypeStep == TypeInv /\ [Next]_vars => TypeInv'
  <1> SUFFICES ASSUME TypeInv, [Next]_vars PROVE TypeInv'
    OBVIOUS
  <1>0. /\ MultibootInfo(mbi) /\ CursorOnRecord
        /\ p \in Nat /\ e820 \in Seq(E820Entry) /\ i \in Nat \ {0}
        /\ total_pages \in Nat /\ max_page \in Nat
        /\ pc \in SetupPc /\ image \in [start : Nat, size : Nat] /\ heap_start \in Nat
        /\ IsBitmap(bitmap) /\ handed \in Seq([first : Nat, nr : Nat \ {0}])
    BY DEF TypeInv, TypeOK, MapTypeOK
  <1>0e. ASSUME NEW k \in 1 .. Len(e820)
         PROVE  e820[k].addr \in Nat /\ e820[k].size \in Nat /\ EntryEnd(e820[k]) \in Nat
    BY <1>0, EntryNat
  <1> USE DEF TypeInv, TypeOK, MapTypeOK, CursorOnRecord, SetupPc, MapPc, mapVars, allocVars
  <1>1. CASE NoMemoryInformation /\ UNCHANGED allocVars
    BY <1>1 DEF NoMemoryInformation
  <1>2. CASE add_memory_region /\ UNCHANGED allocVars
    <2>1. PICK r : r = mbi.mmap[p]
      OBVIOUS
    <2>2. r \in MemoryRecord /\ p' \in Nat /\ CursorOnRecord'
      <3>1. p < mbi.mmap_length /\ p' = p + (r.rsize + SizeofSize) /\ UNCHANGED mbi
        BY <1>2, <2>1 DEF add_memory_region, Stride
      <3>2. r \in MemoryRecord
        BY <1>0, <2>1, <3>1, CursorStep
      <3>3. p' = p + r.rsize + SizeofSize
        BY <1>0, <3>1, <3>2, MemoryMapAssumption DEF MemoryRecord
      <3> QED BY <1>0, <2>1, <3>1, <3>2, <3>3, CursorStep
    <2>3. e820' \in Seq(E820Entry)
      BY <1>0, <1>2, <2>1, <2>2 DEF add_memory_region, NewEntry, MemoryRecord, E820Entry
    <2> QED BY <1>2, <2>2, <2>3 DEF add_memory_region
  <1>3. CASE TooManyEntries /\ UNCHANGED allocVars
    BY <1>3 DEF TooManyEntries
  <1>4. CASE MemoryRegionDone /\ UNCHANGED allocVars
    BY <1>4 DEF MemoryRegionDone
  <1>5. CASE get_nr_pages /\ UNCHANGED allocVars
    <2>1. i \in 1 .. Len(e820)
      BY <1>0, <1>5 DEF get_nr_pages
    <2>2. PFN_DOWN(e820[i].size) \in Nat
      BY <1>0e, <2>1, PageRounding
    <2> QED BY <1>5, <2>2 DEF get_nr_pages
  <1>6. CASE NrPagesDone /\ UNCHANGED allocVars
    BY <1>6 DEF NrPagesDone
  <1>7. CASE get_max_pfn /\ UNCHANGED allocVars
    <2>1. i \in 1 .. Len(e820)
      BY <1>0, <1>7 DEF get_max_pfn
    <2>2. PFN_DOWN(EntryEnd(e820[i])) \in Nat
      BY <1>0e, <2>1, PageRounding
    <2> QED BY <1>7, <2>2 DEF get_max_pfn
  <1>8. CASE MaxPfnDone /\ UNCHANGED allocVars
    BY <1>8 DEF MaxPfnDone
  <1>9. CASE NoGuestImage
    BY <1>9 DEF NoGuestImage
  <1>10. CASE NoRoomForImage
    BY <1>0, <1>10 DEF NoRoomForImage, MultibootInfo
  <1>11. CASE copy_guest_image
    <2>1. PICK k \in 1 .. Len(e820) :
            LET start == ThroughInt(Place(e820[k], mbi.mod_size)) IN
            /\ image' = [start |-> start, size |-> mbi.mod_size]
            /\ pc' = IF MoveFaults(start, mbi.mod_size) THEN "dead" ELSE "naive_allocator_init"
      BY <1>11 DEF copy_guest_image
    <2>2. Place(e820[k], mbi.mod_size) \in Nat
      BY <1>0e, SetupArchAssumption DEF Place
    <2>3. ThroughInt(Place(e820[k], mbi.mod_size)) \in Nat
      BY <2>2, ThroughIntNat
    <2>4. mbi.mod_size \in Nat
      BY <1>0 DEF MultibootInfo
    <2> QED BY <1>11, <2>1, <2>3, <2>4 DEF copy_guest_image
  <1>h. alloc_bitmap_start + bitmap_size \in Nat /\ bitmap_size \in Nat
    <2>1. max_page \div ByteBits \in Nat
      BY <1>0, AllocBitmapAssumption, DivModExact
    <2>2. (max_page \div ByteBits) + WordBytes \in Nat
      BY <2>1, AllocBitmapAssumption
    <2>3. PAGE_UP((max_page \div ByteBits) + WordBytes) \in Nat /\ PAGE_UP(KernelEnd) \in Nat
      BY <2>2, SetupArchAssumption, PageRounding, PageSizeAssumption
    <2> QED BY <2>3 DEF alloc_bitmap_start, bitmap_size
  <1>12. CASE NoHeapSpace
    BY <1>12, <1>h DEF NoHeapSpace
  <1>13. CASE naive_allocator_init
    <2>1. IsBitmap(bitmap')
      <3>1. bitmap_size \div WordBytes \in Nat
        BY <1>h, AllocBitmapAssumption, DivModExact
      <3> QED BY <1>13, <3>1 DEF naive_allocator_init, IsBitmap
    <2> QED BY <1>13, <1>h, <2>1 DEF naive_allocator_init
  <1>14. CASE init_alloc_bitmap
    <2>1. i \in 1 .. Len(e820)
      BY <1>0, <1>14 DEF init_alloc_bitmap
    <2>2. SkipImage(SkipHeap(e820[i].addr), EntryEnd(e820[i])) \in Nat /\ EntryEnd(e820[i]) \in Nat
      BY <1>0, <1>0e, <2>1, SetupArchAssumption DEF SkipImage, SkipHeap, guest_image_end
    <2>3. ASSUME NEW from \in Nat, NEW to \in Nat
          PROVE  IsBitmap(__init_alloc_bitmap(bitmap, from, to))
      <3>1. PAGE_UP(from) \in Nat /\ PAGE_DOWN(to) \in Nat
        BY PageRounding, PageSizeAssumption
      <3>2. CASE PAGE_DOWN(to) <= PAGE_UP(from)
        BY <1>0, <3>2 DEF __init_alloc_bitmap
      <3>3. CASE PAGE_UP(from) < PAGE_DOWN(to)
        <4>1. PAGE_DOWN(to) - PAGE_UP(from) \in Nat
          BY <3>1, <3>3
        <4>2. /\ PAGE_UP(from) \div PageSize \in Nat
              /\ (PAGE_DOWN(to) - PAGE_UP(from)) \div PageSize \in Nat
          BY <3>1, <4>1, PageSizeAssumption, DivModExact
        <4>3. IsBitmap(map_free(bitmap, PAGE_UP(from) \div PageSize,
                                (PAGE_DOWN(to) - PAGE_UP(from)) \div PageSize))
          BY <1>0, <4>2, MapOperationsTyped
        <4> QED BY <1>0, <3>1, <3>3, <4>3 DEF __init_alloc_bitmap
      <3> QED BY <3>1, <3>2, <3>3
    <2>4. IsBitmap(bitmap')
      BY <1>0, <1>14, <2>2, <2>3 DEF init_alloc_bitmap
    <2> QED BY <1>14, <2>4 DEF init_alloc_bitmap
  <1>15. CASE InitAllocBitmapDone
    BY <1>15 DEF InitAllocBitmapDone
  <1>16. ASSUME NEW r \in Requests, alloc_boot_pages(r[1], r[2])
         PROVE  TypeInv'
    <2>1. PICK f \in Candidates(r[1], r[2]) :
            /\ bitmap' = map_alloc(bitmap, f, r[1])
            /\ handed' = Append(handed, [first |-> f, nr |-> r[1]])
      BY <1>16 DEF alloc_boot_pages
    <2>2. f \in Nat /\ r[1] \in Nat \ {0}
      BY <1>0, SetupArchAssumption DEF Candidates
    <2>3. IsBitmap(bitmap')
      BY <1>0, <2>1, <2>2, MapOperationsTyped
    <2>4. handed' \in Seq([first : Nat, nr : Nat \ {0}])
      BY <1>0, <2>1, <2>2
    <2> QED BY <1>16, <2>3, <2>4 DEF alloc_boot_pages
  <1>17. ASSUME NEW r \in Requests, OutOfPages(r[1], r[2])
         PROVE  TypeInv'
    BY <1>17 DEF OutOfPages
  <1>18. CASE UNCHANGED vars
    BY <1>18 DEF vars
  <1> QED
    BY <1>1, <1>2, <1>3, <1>4, <1>5, <1>6, <1>7, <1>8, <1>9, <1>10, <1>11, <1>12, <1>13,
       <1>14, <1>15, <1>16, <1>17, <1>18 DEF Next, MapNext, alloc_pages

------------------------------------------------------------------------------
(* The words of bitmap_size bytes reach the frame max_page, one past the last. *)
LEMMA BitmapReachesMaxPage ==
  ASSUME max_page \in Nat
  PROVE  /\ bitmap_size \in Nat
         /\ bitmap_size \div WordBytes \in Nat
         /\ \A f \in 0 .. max_page : get_alloc_bitmap_idx(f) \in BitmapWords
         /\ \A k \in BitmapWords : (k + 1) * WordBytes <= bitmap_size
  <1> DEFINE bytes == max_page \div ByteBits
             top == get_alloc_bitmap_idx(max_page)
             words == bitmap_size \div WordBytes
  <1>1. ByteBits \in Nat \ {0} /\ WordBytes \in Nat \ {0}
    BY AllocBitmapAssumption
  <1>2. bytes \in Nat /\ max_page < ByteBits * bytes + ByteBits
    <2>1. bytes \in Nat /\ max_page % ByteBits \in 0 .. ByteBits - 1
          /\ max_page = ByteBits * bytes + (max_page % ByteBits)
      BY <1>1, DivModExact
    <2> HIDE DEF bytes
    <2> QED BY <1>1, <2>1
  <1>3. bitmap_size \in Nat /\ bytes + WordBytes <= bitmap_size
    BY <1>1, <1>2, PageRounding DEF bitmap_size
  <1>4. words \in Nat /\ words * WordBytes <= bitmap_size /\ bitmap_size < words * WordBytes + WordBytes
    <2>1. words \in Nat /\ bitmap_size % WordBytes \in 0 .. WordBytes - 1
          /\ bitmap_size = WordBytes * words + (bitmap_size % WordBytes)
      BY <1>1, <1>3, DivModExact
    <2> HIDE DEF words
    <2> QED BY <1>1, <1>3, <2>1
  <1>5. top \in Nat /\ (ByteBits * WordBytes) * top <= max_page
    <2>1. top \in Nat /\ get_alloc_bitmap_offset(max_page) \in 0 .. WordBits - 1
          /\ max_page = WordBits * top + get_alloc_bitmap_offset(max_page)
      BY PfnParts DEF Bits
    <2> HIDE DEF top
    <2> QED BY <1>1, <2>1 DEF WordBits
  <1> HIDE DEF bytes, top, words
  <1>6. WordBytes * top <= bytes
    <2>1. WordBytes * top \in Nat /\ ByteBits * (WordBytes * top) = (ByteBits * WordBytes) * top
      BY <1>1, <1>5
    <2>2. ByteBits * (WordBytes * top) < ByteBits * (bytes + 1)
      BY <1>1, <1>2, <1>5, <2>1
    <2>3. CASE bytes + 1 <= WordBytes * top
      <3>1. ByteBits * (bytes + 1) <= ByteBits * (WordBytes * top)
        BY <1>1, <1>2, <2>1, <2>3
      <3> QED BY <1>1, <1>2, <2>1, <2>2, <3>1
    <2> QED BY <1>2, <2>1, <2>3
  <1>7. top + 1 <= words
    <2>1. WordBytes * (top + 1) <= bitmap_size
      BY <1>1, <1>2, <1>3, <1>5, <1>6
    <2>2. CASE words <= top
      <3>1. words * WordBytes + WordBytes <= WordBytes * (top + 1)
        BY <1>1, <1>4, <1>5, <2>2
      <3> QED BY <1>1, <1>3, <1>4, <1>5, <2>1, <3>1
    <2> QED BY <1>4, <1>5, <2>2
  <1>8. ASSUME NEW f \in 0 .. max_page
        PROVE  get_alloc_bitmap_idx(f) \in BitmapWords
    <2>1. f \in Nat /\ f <= max_page
      OBVIOUS
    <2>2. get_alloc_bitmap_idx(f) \in Nat /\ get_alloc_bitmap_idx(f) <= top
      BY <2>1, PfnParts, DivMonotone, WordBitsPositive DEF get_alloc_bitmap_idx, top
    <2>3. get_alloc_bitmap_idx(f) \in 0 .. words - 1
      BY <1>4, <1>5, <1>7, <2>2
    <2> QED BY <2>3 DEF BitmapWords, words
  <1>9. ASSUME NEW k \in BitmapWords
        PROVE  (k + 1) * WordBytes <= bitmap_size
    <2>1. k \in 0 .. words - 1
      BY DEF BitmapWords, words
    <2>2. (k + 1) * WordBytes <= words * WordBytes
      BY <1>1, <1>4, <2>1
    <2> QED BY <1>1, <1>3, <1>4, <2>1, <2>2
  <1> QED BY <1>3, <1>4, <1>8, <1>9 DEF words

------------------------------------------------------------------------------
(* The facts of TypeInv every step lemma starts from. *)
LEMMA TypeFacts ==
  ASSUME TypeInv
  PROVE  /\ e820 \in Seq(E820Entry) /\ i \in Nat \ {0}
         /\ max_page \in Nat /\ pc \in SetupPc
         /\ image.start \in Nat /\ image.size \in Nat /\ guest_image_end \in Nat
         /\ IsBitmap(bitmap)
         /\ handed \in Seq([first : Nat, nr : Nat \ {0}])
         /\ \A k \in 1 .. Len(e820) :
              e820[k].addr \in Nat /\ e820[k].size \in Nat /\ EntryEnd(e820[k]) \in Nat
  <1>1. e820 \in Seq(E820Entry) /\ image \in [start : Nat, size : Nat]
    BY DEF TypeInv, TypeOK, MapTypeOK
  <1> QED BY <1>1, EntryNat DEF TypeInv, TypeOK, MapTypeOK, guest_image_end

(* A step of init_alloc_bitmap inside the array: what it adds to the pool. *)
LEMMA EntryOpens ==
  ASSUME TypeInv, SetupOrder, init_alloc_bitmap
  PROVE  LET e == e820[i] IN
         /\ i \in 1 .. Len(e820)
         /\ DOMAIN bitmap' = DOMAIN bitmap
         /\ FreeFrames(bitmap') =
              FreeFrames(bitmap) \cup
              {f \in Nat : /\ IsRam(e)
                          /\ FrameWithin(f, SkipImage(SkipHeap(e.addr), EntryEnd(e)), EntryEnd(e))}
  <1> DEFINE e == EntryEnd(e820[i])
             s == SkipImage(SkipHeap(e820[i].addr), e)
  <1>1. i \in 1 .. Len(e820)
    BY TypeFacts DEF init_alloc_bitmap
  <1>2. CASE ~ IsRam(e820[i])
    BY <1>1, <1>2 DEF init_alloc_bitmap
  <1>3. CASE IsRam(e820[i])
    <2>1. bitmap' = __init_alloc_bitmap(bitmap, s, e)
      BY <1>3 DEF init_alloc_bitmap
    <2>2. e820[i].addr \in Nat /\ e \in Nat /\ s \in Nat /\ e820[i].addr <= s
      BY <1>1, TypeFacts, SetupArchAssumption DEF SkipImage, SkipHeap
    <2>3. PFN_UP(s) < PFN_DOWN(e) => PFN_DOWN(e) <= max_page
      <3>1. EntryCovered(i)
        BY <1>1 DEF SetupOrder, init_alloc_bitmap
      <3>2. PFN_UP(e820[i].addr) <= PFN_UP(s)
        BY <2>2, PageSizeAssumption, DivMonotone DEF PFN_UP
      <3>3. PFN_UP(e820[i].addr) \in Nat /\ PFN_UP(s) \in Nat /\ PFN_DOWN(e) \in Nat
        BY <2>2, PageRounding
      <3> HIDE DEF s, e
      <3>4. PFN_UP(s) < PFN_DOWN(e) => PFN_UP(e820[i].addr) < PFN_DOWN(e)
        BY <3>2, <3>3
      <3> QED BY <1>3, <3>1, <3>4 DEF EntryCovered, e
    <2>4. DOMAIN bitmap = BitmapWords
      BY DEF SetupOrder, LaidOut, init_alloc_bitmap
    <2>5. max_page \in Nat /\ IsBitmap(bitmap)
      BY TypeFacts
    <2>6. \A f \in 0 .. max_page : get_alloc_bitmap_idx(f) \in DOMAIN bitmap
      BY <2>4, <2>5, BitmapReachesMaxPage
    <2>7. \A k, l \in DOMAIN bitmap : k .. l \subseteq DOMAIN bitmap
      BY <2>4, <2>5, BitmapReachesMaxPage DEF BitmapWords
    <2> HIDE DEF s, e
    <2>8. /\ DOMAIN bitmap' = DOMAIN bitmap
          /\ FreeFrames(bitmap') = FreeFrames(bitmap) \cup {f \in Nat : FrameWithin(f, s, e)}
      BY SMTT(30), <2>1, <2>2, <2>3, <2>5, <2>6, <2>7, InitAllocBitmapFrees
    <2> QED BY <1>1, <1>3, <2>8 DEF s, e
  <1> QED BY <1>2, <1>3

(* A step of alloc_boot_pages inside the array: one free run changes hands. *)
LEMMA RunLeavesPool ==
  ASSUME TypeInv, SetupOrder, NEW r \in Requests, alloc_boot_pages(r[1], r[2])
  PROVE  \E f \in Candidates(r[1], r[2]) :
           /\ f \in Nat /\ f + r[1] < max_page /\ f % r[2] = 0
           /\ \A g \in Candidates(r[1], r[2]) :
                g < f => ~ is_free_contiguous_region(bitmap, g, r[1])
           /\ r[1] \in Nat \ {0}
           /\ Run(f, r[1]) \subseteq FreeFrames(bitmap)
           /\ f \in FreeFrames(bitmap)
           /\ handed' = Append(handed, [first |-> f, nr |-> r[1]])
           /\ DOMAIN bitmap' = DOMAIN bitmap
           /\ FreeFrames(bitmap') = FreeFrames(bitmap) \ Run(f, r[1])
  <1>1. PICK f \in Candidates(r[1], r[2]) :
          /\ is_free_contiguous_region(bitmap, f, r[1])
          /\ \A g \in Candidates(r[1], r[2]) :
               g < f => ~ is_free_contiguous_region(bitmap, g, r[1])
          /\ bitmap' = map_alloc(bitmap, f, r[1])
          /\ handed' = Append(handed, [first |-> f, nr |-> r[1]])
    BY DEF alloc_boot_pages
  <1>2. /\ max_page \in Nat /\ IsBitmap(bitmap)
        /\ r[1] \in Nat \ {0} /\ r[2] \in Nat \ {0}
    BY TypeFacts, SetupArchAssumption
  <1>3. f \in Nat /\ f % r[2] = 0 /\ f + r[1] < max_page /\ f + r[1] \in 0 .. max_page /\ f \in 0 .. max_page
    BY <1>1, <1>2 DEF Candidates
  <1>4. DOMAIN bitmap = BitmapWords
    BY DEF SetupOrder, LaidOut, alloc_boot_pages
  <1>5. \A g \in 0 .. max_page : get_alloc_bitmap_idx(g) \in DOMAIN bitmap
    BY <1>2, <1>4, BitmapReachesMaxPage
  <1>6. \A k, l \in DOMAIN bitmap : k .. l \subseteq DOMAIN bitmap
    BY <1>2, <1>4, BitmapReachesMaxPage DEF BitmapWords
  <1>7. WordsWritten(f, r[1]) \subseteq DOMAIN bitmap
    BY <1>3, <1>5, <1>6 DEF WordsWritten
  <1>8. Run(f, r[1]) \subseteq FreeFrames(bitmap)
    <2> SUFFICES ASSUME NEW g \in Run(f, r[1]) PROVE g \in FreeFrames(bitmap)
      OBVIOUS
    <2>1. g \in Nat /\ get_alloc_bitmap_idx(g) \in DOMAIN bitmap
      BY <1>2, <1>3, <1>7, RunWordsWritten
    <2>2. get_alloc_bitmap_offset(g) \notin bitmap[get_alloc_bitmap_idx(g)]
      BY <1>1, <2>1 DEF is_free_contiguous_region, allocated_in_map, WordAt
    <2> QED BY <1>2, <2>1, <2>2, FreeFramesByBit DEF IsBitmap
  <1>9. f \in Run(f, r[1])
    BY <1>2, <1>3 DEF Run
  <1>10. /\ DOMAIN bitmap' = DOMAIN bitmap
         /\ FreeFrames(bitmap') = FreeFrames(bitmap) \ Run(f, r[1])
    BY <1>1, <1>2, <1>3, <1>7, MapAllocTakesRun
  <1> QED BY <1>1, <1>2, <1>3, <1>8, <1>9, <1>10

------------------------------------------------------------------------------
LEMMA OrderInit == Init => SetupOrder
  BY DEF Init, MapInit, SetupOrder, LaidOut, MapPc

LEMMA OrderStep == TypeInv /\ SetupOrder /\ [Next]_vars => SetupOrder'
  <1> SUFFICES ASSUME TypeInv, SetupOrder, [Next]_vars PROVE SetupOrder'
    OBVIOUS
  <1> USE DEF SetupOrder, LaidOut, MapPc, mapVars, allocVars
  <1>1. CASE NoMemoryInformation /\ UNCHANGED allocVars
    BY <1>1 DEF NoMemoryInformation
  <1>2. CASE add_memory_region /\ UNCHANGED allocVars
    BY <1>2 DEF add_memory_region
  <1>3. CASE TooManyEntries /\ UNCHANGED allocVars
    BY <1>3 DEF TooManyEntries
  <1>4. CASE MemoryRegionDone /\ UNCHANGED allocVars
    BY <1>4 DEF MemoryRegionDone
  <1>5. CASE get_nr_pages /\ UNCHANGED allocVars
    BY <1>5 DEF get_nr_pages
  <1>6. CASE NrPagesDone /\ UNCHANGED allocVars
    BY <1>6 DEF NrPagesDone
  <1>7. CASE get_max_pfn /\ UNCHANGED allocVars
    <2>1. i \in 1 .. Len(e820) /\ max_page \in Nat
      BY <1>7, TypeFacts DEF get_max_pfn
    <2>2. ASSUME NEW k \in 1 .. Len(e820), k <= i
          PROVE  IsRam(e820[k]) /\ PFN_UP(e820[k].addr) < PFN_DOWN(EntryEnd(e820[k]))
                   => PFN_DOWN(EntryEnd(e820[k])) <= max_page'
      <3>1. PFN_DOWN(EntryEnd(e820[k])) \in Nat /\ PFN_DOWN(EntryEnd(e820[i])) \in Nat
        BY <2>1, TypeFacts, PageRounding
      <3>2. max_page' \in Nat /\ max_page <= max_page'
        BY <1>7, <2>1, <3>1 DEF get_max_pfn, RaisesMaxPfn
      <3>3. CASE k = i
        BY <1>7, <2>1, <3>1, <3>3 DEF get_max_pfn, RaisesMaxPfn
      <3>4. CASE k < i
        <4>1. EntryCovered(k)
          BY <1>7, <3>4 DEF get_max_pfn
        <4> QED BY <2>1, <3>1, <3>2, <4>1 DEF EntryCovered
      <3> QED BY <2>1, <2>2, <3>3, <3>4
    <2>3. \A k \in 1 .. Len(e820') : k < i' => EntryCovered(k)'
      BY <1>7, <2>1, <2>2 DEF get_max_pfn, EntryCovered, IsRam, EntryEnd
    <2> QED BY <1>7, <2>3 DEF get_max_pfn
  <1>8. CASE MaxPfnDone /\ UNCHANGED allocVars
    <2>1. \A k \in 1 .. Len(e820) : k < i
      BY <1>8, TypeFacts DEF MaxPfnDone
    <2>2. \A k \in 1 .. Len(e820) : EntryCovered(k)'
      BY <1>8, <2>1 DEF MaxPfnDone, EntryCovered, IsRam, EntryEnd
    <2> QED BY <1>8, <2>2 DEF MaxPfnDone
  <1>9. CASE NoGuestImage
    BY <1>9 DEF NoGuestImage
  <1>10. CASE NoRoomForImage
    BY <1>10 DEF NoRoomForImage
  <1>11. CASE copy_guest_image
    BY <1>11 DEF copy_guest_image, EntryCovered, IsRam, EntryEnd
  <1>12. CASE NoHeapSpace
    BY <1>12 DEF NoHeapSpace
  <1>13. CASE naive_allocator_init
    BY <1>13 DEF naive_allocator_init, EntryCovered, IsRam, EntryEnd, BitmapWords,
                 bitmap_size, alloc_bitmap_start
  <1>14. CASE init_alloc_bitmap
    BY <1>14, EntryOpens DEF init_alloc_bitmap, EntryCovered, IsRam, EntryEnd, BitmapWords,
                 bitmap_size, alloc_bitmap_start
  <1>15. CASE InitAllocBitmapDone
    BY <1>15 DEF InitAllocBitmapDone, EntryCovered, IsRam, EntryEnd, BitmapWords,
                 bitmap_size, alloc_bitmap_start
  <1>16. ASSUME NEW r \in Requests, alloc_boot_pages(r[1], r[2])
         PROVE  SetupOrder'
    <2>1. DOMAIN bitmap' = DOMAIN bitmap
      BY <1>16, RunLeavesPool
    <2> QED BY <1>16, <2>1 DEF alloc_boot_pages, EntryCovered, IsRam, EntryEnd, BitmapWords,
                 bitmap_size, alloc_bitmap_start
  <1>17. ASSUME NEW r \in Requests, OutOfPages(r[1], r[2])
         PROVE  SetupOrder'
    BY <1>17 DEF OutOfPages
  <1>18. CASE UNCHANGED vars
    BY <1>18 DEF vars, EntryCovered, IsRam, EntryEnd, BitmapWords, bitmap_size, alloc_bitmap_start
  <1> QED
    BY <1>1, <1>2, <1>3, <1>4, <1>5, <1>6, <1>7, <1>8, <1>9, <1>10, <1>11, <1>12, <1>13,
       <1>14, <1>15, <1>16, <1>17, <1>18 DEF Next, MapNext, alloc_pages

------------------------------------------------------------------------------
(* A bitmap whose words are all ones, or that has no words, frees nothing. *)
LEMMA ClosedBitmap ==
  /\ FreeFrames(<< >>) = {}
  /\ \A n \in Nat : FreeFrames([k \in 0 .. n - 1 |-> Bits]) = {}
  <1>1. FreeFrames(<< >>) = {}
    BY DEF FreeFrames, CoveredFrames
  <1>2. ASSUME NEW n \in Nat
        PROVE  FreeFrames([k \in 0 .. n - 1 |-> Bits]) = {}
    <2> DEFINE tbl == [k \in 0 .. n - 1 |-> Bits]
    <2>1. DOMAIN tbl \subseteq Nat /\ \A k \in DOMAIN tbl : tbl[k] = Bits
      OBVIOUS
    <2> HIDE DEF tbl
    <2>2. \A f \in Nat : f \notin FreeFrames(tbl)
      BY <2>1, FreeFramesByBit, PfnParts
    <2>3. FreeFrames(tbl) \subseteq Nat
      BY <2>1, FreeFramesByBit
    <2> QED BY <2>2, <2>3 DEF tbl
  <1> QED BY <1>1, <1>2

(* What init_alloc_bitmap opens for an entry is usable. *)
LEMMA OpenedFramesUsable ==
  ASSUME TypeInv, NEW k \in 1 .. Len(e820), IsRam(e820[k]), NEW f \in Nat,
         FrameWithin(f, SkipImage(SkipHeap(e820[k].addr), EntryEnd(e820[k])), EntryEnd(e820[k]))
  PROVE  UsableFrame(f)
  <1> DEFINE a == e820[k].addr
             e == EntryEnd(e820[k])
             h == SkipHeap(a)
             s == SkipImage(h, e)
             lo == f * PageSize
             hi == (f + 1) * PageSize
  <1>1. /\ a \in Nat /\ e \in Nat /\ HeapEnd \in Nat
        /\ image.start \in Nat /\ guest_image_end \in Nat
        /\ lo \in Nat /\ hi \in Nat /\ lo < hi
    <2>1. PageSize \in Nat \ {0}
      BY PageSizeAssumption
    <2>2. lo \in Nat /\ hi = lo + PageSize
      BY <2>1
    <2> QED BY <2>1, <2>2, TypeFacts, SetupArchAssumption
  <1>2. s <= lo /\ hi <= e
    BY DEF FrameWithin
  <1>3. h \in Nat /\ a <= h /\ HeapEnd <= h
    BY <1>1 DEF SkipHeap
  <1>4. /\ s \in Nat /\ h <= s
        /\ h < guest_image_end /\ e > image.start => s = guest_image_end
    BY <1>1, <1>3 DEF SkipImage
  <1>5. WholeRamFrame(f)
    <2>1. a <= lo
      <3> HIDE DEF a, e, h, s, lo, hi
      <3> QED BY <1>1, <1>2, <1>3, <1>4
    <2> QED BY <1>2, <2>1 DEF WholeRamFrame, FrameWithin
  <1>6. HeapEnd <= lo
    <2> HIDE DEF a, e, h, s, lo, hi
    <2> QED BY <1>1, <1>2, <1>3, <1>4
  <1>7. ~ (lo < guest_image_end /\ image.start < hi)
    <2> HIDE DEF a, e, h, s, lo, hi
    <2> QED BY <1>1, <1>2, <1>3, <1>4
  <1> QED BY <1>5, <1>6, <1>7 DEF UsableFrame, FrameTouches

------------------------------------------------------------------------------
PoolInv == HandedUsable /\ HandedDisjoint

LEMMA PoolInit == Init => PoolInv
  BY ClosedBitmap DEF Init, PoolInv, HandedUsable, HandedDisjoint, HandedFrames

(* Nothing changes for the pool while both the pool and the grants are empty. *)
LEMMA EmptyPool ==
  ASSUME FreeFrames(bitmap)' = {}, handed' = << >>
  PROVE  PoolInv'
  <1>1. HandedFrames' = {}
    BY DEF HandedFrames
  <1> QED BY <1>1 DEF PoolInv, HandedUsable, HandedDisjoint

(* Nothing changes for the pool while it, the table and the image stay. *)
LEMMA SamePool ==
  ASSUME PoolInv, UNCHANGED <<e820, image, bitmap, handed>>
  PROVE  PoolInv'
  BY DEF PoolInv, HandedUsable, HandedDisjoint, HandedFrames, UsableFrame, WholeRamFrame,
         IsRam, EntryEnd, guest_image_end

LEMMA PoolStep == TypeInv /\ SetupOrder /\ PoolInv /\ [Next]_vars => PoolInv'
  <1> SUFFICES ASSUME TypeInv, SetupOrder, PoolInv, [Next]_vars PROVE PoolInv'
    OBVIOUS
  <1>1. CASE /\ UNCHANGED <<bitmap, handed>>
             /\ pc \in MapPc \cup {"copy_guest_image", "naive_allocator_init"}
    <2>1. bitmap' = << >> /\ handed' = << >>
      BY <1>1 DEF SetupOrder, MapPc
    <2> QED BY <2>1, ClosedBitmap, EmptyPool
  <1>2. CASE MapNext /\ UNCHANGED allocVars
    <2>1. pc \in MapPc
      BY <1>2 DEF MapNext, MapPc, NoMemoryInformation, add_memory_region, TooManyEntries,
                  MemoryRegionDone, get_nr_pages, NrPagesDone, get_max_pfn, MaxPfnDone
    <2> QED BY <1>1, <1>2, <2>1 DEF allocVars
  <1>3. CASE NoGuestImage \/ NoRoomForImage \/ copy_guest_image \/ NoHeapSpace
    BY <1>1, <1>3 DEF NoGuestImage, NoRoomForImage, copy_guest_image, NoHeapSpace, allocVars
  <1>4. CASE naive_allocator_init
    <2>1. handed' = << >> /\ bitmap' = [k \in BitmapWords |-> Bits]
      BY <1>4 DEF SetupOrder, MapPc, naive_allocator_init, BitmapWords
    <2>2. bitmap_size \div WordBytes \in Nat
      BY TypeFacts, BitmapReachesMaxPage
    <2>3. FreeFrames(bitmap') = {}
      BY <2>1, <2>2, ClosedBitmap DEF BitmapWords
    <2> QED BY <2>1, <2>3, EmptyPool
  <1>5. CASE init_alloc_bitmap
    <2>1. UNCHANGED <<e820, image, handed>> /\ handed = << >>
      BY <1>5 DEF init_alloc_bitmap, SetupOrder
    <2>2. HandedFrames' = {} /\ HandedFrames = {}
      BY <2>1 DEF HandedFrames
    <2>3. ASSUME NEW f \in FreeFrames(bitmap')
          PROVE  UsableFrame(f)
      <3>1. CASE f \in FreeFrames(bitmap)
        BY <3>1 DEF PoolInv, HandedUsable
      <3>2. CASE f \notin FreeFrames(bitmap)
        BY <1>5, <2>3, <3>2, EntryOpens, OpenedFramesUsable
      <3> QED BY <3>1, <3>2
    <2>4. \A f : UsableFrame(f)' <=> UsableFrame(f)
      BY <2>1 DEF UsableFrame, WholeRamFrame, IsRam, EntryEnd, guest_image_end
    <2>5. HandedUsable'
      BY <2>2, <2>3, <2>4 DEF HandedUsable
    <2>6. HandedDisjoint'
      BY <2>1, <2>2 DEF HandedDisjoint
    <2> QED BY <2>5, <2>6 DEF PoolInv
  <1>6. CASE InitAllocBitmapDone
    BY <1>6, SamePool DEF InitAllocBitmapDone, allocVars
  <1>7. ASSUME NEW r \in Requests, alloc_boot_pages(r[1], r[2])
        PROVE  PoolInv'
    <2>1. PICK f \in Nat :
            /\ Run(f, r[1]) \subseteq FreeFrames(bitmap)
            /\ handed' = Append(handed, [first |-> f, nr |-> r[1]])
            /\ FreeFrames(bitmap') = FreeFrames(bitmap) \ Run(f, r[1])
      BY <1>7, RunLeavesPool
    <2>2. UNCHANGED <<e820, image>>
      BY <1>7 DEF alloc_boot_pages, mapVars
    <2> DEFINE n == Len(handed)
               Frames(a) == Run(handed[a].first, handed[a].nr)
    <2>3. /\ n \in Nat /\ DOMAIN handed = 1 .. n /\ DOMAIN handed' = 1 .. n + 1
          /\ \A a \in 1 .. n : handed'[a] = handed[a]
          /\ handed'[n + 1] = [first |-> f, nr |-> r[1]]
      BY <2>1, TypeFacts
    <2>4. \A a \in 1 .. n : Frames(a)' = Frames(a) /\ Frames(a) \subseteq HandedFrames
      BY <2>3 DEF HandedFrames
    <2>5. Run(handed'[n + 1].first, handed'[n + 1].nr) = Run(f, r[1])
      BY <2>3
    <2>6. HandedFrames' = HandedFrames \cup Run(f, r[1])
      <3>1. HandedFrames' = UNION {Run(handed'[a].first, handed'[a].nr) : a \in 1 .. n + 1}
        BY <2>3 DEF HandedFrames
      <3>2. HandedFrames = UNION {Run(handed[a].first, handed[a].nr) : a \in 1 .. n}
        BY <2>3 DEF HandedFrames
      <3> QED BY <2>3, <3>1, <3>2, <2>5
    <2>7. HandedUsable'
      <3>1. \A g : UsableFrame(g)' <=> UsableFrame(g)
        BY <2>2 DEF UsableFrame, WholeRamFrame, IsRam, EntryEnd, guest_image_end
      <3> QED BY <2>1, <2>6, <3>1 DEF PoolInv, HandedUsable
    <2>8. HandedFrames \cap Run(f, r[1]) = {}
      BY <2>1 DEF PoolInv, HandedDisjoint
    <2>9. HandedDisjoint'
      <3>1. ASSUME NEW a \in 1 .. n + 1, NEW b \in 1 .. n + 1, a # b
            PROVE  Run(handed'[a].first, handed'[a].nr) \cap Run(handed'[b].first, handed'[b].nr) = {}
        <4>1. CASE a \in 1 .. n /\ b \in 1 .. n
          BY <2>3, <3>1, <4>1 DEF PoolInv, HandedDisjoint
        <4>2. CASE a \in 1 .. n /\ b = n + 1
          BY <2>3, <2>4, <2>5, <2>8, <4>2
        <4>3. CASE a = n + 1 /\ b \in 1 .. n
          BY <2>3, <2>4, <2>5, <2>8, <4>3
        <4> QED BY <2>3, <3>1, <4>1, <4>2, <4>3
      <3>2. HandedFrames' \cap FreeFrames(bitmap') = {}
        BY <2>1, <2>6 DEF PoolInv, HandedDisjoint
      <3> QED BY <2>3, <3>1, <3>2 DEF HandedDisjoint
    <2> QED BY <2>7, <2>9 DEF PoolInv
  <1>8. ASSUME NEW r \in Requests, OutOfPages(r[1], r[2])
        PROVE  PoolInv'
    BY <1>8, SamePool DEF OutOfPages, allocVars
  <1>9. CASE UNCHANGED vars
    BY <1>9, SamePool DEF vars, mapVars, allocVars
  <1> QED BY <1>2, <1>3, <1>4, <1>5, <1>6, <1>7, <1>8, <1>9 DEF Next, alloc_pages

------------------------------------------------------------------------------
(* The inductive invariant: types, the order of the boot path, the pool. *)
IInv == TypeInv /\ SetupOrder /\ PoolInv

(* IInv holds in every reachable state of the boot path. *)
THEOREM Invariance == Spec => []IInv
  <1>1. Init => IInv
    BY TypeInit, OrderInit, PoolInit DEF IInv
  <1>2. IInv /\ [Next]_vars => IInv'
    BY TypeStep, OrderStep, PoolStep DEF IInv
  <1> QED BY <1>1, <1>2, PTL DEF Spec

(* Every variable of the boot path keeps its type. *)
THEOREM TypeCorrect == Spec => []TypeOK
  <1>1. IInv => TypeOK
    BY DEF IInv, TypeInv
  <1> QED BY <1>1, Invariance, PTL

(* setup_memory_region reads only where a record starts. *)
THEOREM CursorCorrect == Spec => []CursorOnRecord
  <1>1. IInv => CursorOnRecord
    BY DEF IInv, TypeInv
  <1> QED BY <1>1, Invariance, PTL

(* The scan of the table, the size of the bitmap and the order of start-up. *)
THEOREM OrderCorrect == Spec => []SetupOrder
  <1>1. IInv => SetupOrder
    BY DEF IInv
  <1> QED BY <1>1, Invariance, PTL

(* No access of the allocator leaves the memory of its bitmap. *)
THEOREM BitmapCorrect == Spec => []BitmapInBounds
  <1>1. IInv => BitmapInBounds
    <2> SUFFICES ASSUME IInv, LaidOut PROVE
          /\ DOMAIN bitmap = BitmapWords
          /\ \A f \in 0 .. max_page : get_alloc_bitmap_idx(f) \in BitmapWords
          /\ \A k \in BitmapWords : alloc_bitmap_start + (k + 1) * WordBytes <= heap_start
      BY DEF BitmapInBounds
    <2>1. max_page \in Nat
      BY TypeFacts DEF IInv
    <2>2. /\ bitmap_size \in Nat
          /\ bitmap_size \div WordBytes \in Nat
          /\ \A f \in 0 .. max_page : get_alloc_bitmap_idx(f) \in BitmapWords
          /\ \A k \in BitmapWords : (k + 1) * WordBytes <= bitmap_size
      BY <2>1, BitmapReachesMaxPage
    <2>3. alloc_bitmap_start \in Nat
      BY SetupArchAssumption, PageRounding DEF alloc_bitmap_start
    <2>4. DOMAIN bitmap = BitmapWords /\ heap_start = alloc_bitmap_start + bitmap_size
      BY DEF IInv, SetupOrder
    <2>5. ASSUME NEW k \in BitmapWords
          PROVE  alloc_bitmap_start + (k + 1) * WordBytes <= heap_start
      <3>1. k \in Nat /\ WordBytes \in Nat
        BY <2>2, AllocBitmapAssumption DEF BitmapWords
      <3>2. (k + 1) * WordBytes \in Nat /\ (k + 1) * WordBytes <= bitmap_size
        BY <2>2, <3>1
      <3> QED BY <2>2, <2>3, <2>4, <3>2
    <2> QED BY <2>2, <2>4, <2>5
  <1> QED BY <1>1, Invariance, PTL

(* A frame that is handed out, or may be, is free RAM above the heap. *)
THEOREM HandedUsableCorrect == Spec => []HandedUsable
  <1>1. IInv => HandedUsable
    BY DEF IInv, PoolInv
  <1> QED BY <1>1, Invariance, PTL

(* No frame is handed out twice. *)
THEOREM HandedDisjointCorrect == Spec => []HandedDisjoint
  <1>1. IInv => HandedDisjoint
    BY DEF IInv, PoolInv
  <1> QED BY <1>1, Invariance, PTL

------------------------------------------------------------------------------
LEMMA RefinementInit == Init => Abstract!Init
  BY ClosedBitmap DEF Init, Abstract!Init, GrantableFrames

(* Frames of a run that ends below the last frame are grantable when free. *)
LEMMA FreeRunGrantable ==
  ASSUME TypeInv, NEW f \in Nat, NEW n \in Nat \ {0}, f + n < max_page,
         Run(f, n) \subseteq FreeFrames(bitmap)
  PROVE  f .. f + n - 1 \subseteq GrantableFrames
  BY TypeFacts DEF Run, GrantableFrames

(* A run of grantable frames is one alloc_boot_pages finds free. *)
LEMMA GrantableRunFree ==
  ASSUME TypeInv, NEW f \in Nat, NEW n \in Nat \ {0},
         f .. f + n - 1 \subseteq GrantableFrames
  PROVE  f + n < max_page /\ is_free_contiguous_region(bitmap, f, n)
  <1>1. f + n - 1 \in GrantableFrames
    <2>1. f + n - 1 \in f .. f + n - 1
      OBVIOUS
    <2> QED BY <2>1
  <1>2. f + n < max_page
    <2>1. (f + n - 1) + 1 < max_page
      BY <1>1, Zenon DEF GrantableFrames
    <2>2. max_page \in Nat
      BY TypeFacts
    <2> QED BY <2>1, <2>2
  <1>3. is_free_contiguous_region(bitmap, f, n)
    BY DEF is_free_contiguous_region, Run, GrantableFrames, FreeFrames
  <1> QED BY <1>2, <1>3

(* init_alloc_bitmap donates, alloc_boot_pages grants, every other step leaves
   the grantable frames and the returned runs alone. *)
LEMMA RefinementStep ==
  IInv /\ [Next]_vars => [Abstract!Next]_<<GrantableFrames, handed>>
  <1> SUFFICES ASSUME IInv, [Next]_vars
               PROVE  Abstract!Next \/ UNCHANGED <<GrantableFrames, handed>>
    OBVIOUS
  <1>0. TypeInv /\ SetupOrder
    BY DEF IInv
  <1>1. CASE UNCHANGED <<bitmap, handed, max_page>>
    BY <1>1 DEF GrantableFrames
  <1>2. CASE FreeFrames(bitmap) = {} /\ FreeFrames(bitmap') = {} /\ UNCHANGED handed
    BY <1>2 DEF GrantableFrames
  <1>3. CASE MapNext /\ UNCHANGED allocVars
    <2>1. pc \in MapPc
      BY <1>3 DEF MapNext, MapPc, NoMemoryInformation, add_memory_region, TooManyEntries,
                  MemoryRegionDone, get_nr_pages, NrPagesDone, get_max_pfn, MaxPfnDone
    <2>2. bitmap = << >> /\ UNCHANGED <<bitmap, handed>>
      BY <1>0, <1>3, <2>1 DEF SetupOrder, allocVars
    <2> QED BY <1>2, <2>2, ClosedBitmap
  <1>4. CASE NoGuestImage \/ NoRoomForImage \/ copy_guest_image \/ NoHeapSpace
    BY <1>1, <1>4 DEF NoGuestImage, NoRoomForImage, copy_guest_image, NoHeapSpace, allocVars
  <1>5. CASE naive_allocator_init
    <2>1. bitmap = << >> /\ handed' = handed /\ bitmap' = [k \in BitmapWords |-> Bits]
      BY <1>0, <1>5 DEF SetupOrder, MapPc, naive_allocator_init, BitmapWords
    <2>2. bitmap_size \div WordBytes \in Nat
      BY <1>0, TypeFacts, BitmapReachesMaxPage
    <2>3. FreeFrames(bitmap') = {} /\ FreeFrames(bitmap) = {}
      BY <2>1, <2>2, ClosedBitmap DEF BitmapWords
    <2> QED BY <1>2, <2>1, <2>3
  <1>6. CASE init_alloc_bitmap
    <2>1. handed = << >> /\ UNCHANGED <<handed, max_page>>
      BY <1>0, <1>6 DEF SetupOrder, init_alloc_bitmap
    <2>2. FreeFrames(bitmap) \subseteq FreeFrames(bitmap')
      BY <1>0, <1>6, EntryOpens
    <2>3. FreeFrames(bitmap') \subseteq Nat
      <3>1. FreeFrames(bitmap) \subseteq Nat
        BY <1>0, TypeFacts, FreeFramesByBit DEF IsBitmap
      <3> QED BY <1>0, <1>6, <3>1, EntryOpens
    <2>4. Abstract!Donate
      BY <2>1, <2>2, <2>3 DEF Abstract!Donate, GrantableFrames
    <2> QED BY <2>4 DEF Abstract!Next
  <1>7. CASE InitAllocBitmapDone
    BY <1>1, <1>7 DEF InitAllocBitmapDone, allocVars
  <1>8. ASSUME NEW r \in Requests, alloc_boot_pages(r[1], r[2])
        PROVE  Abstract!Next
    <2>1. PICK f \in Nat :
            /\ f + r[1] < max_page /\ f % r[2] = 0
            /\ \A g \in Candidates(r[1], r[2]) :
                 g < f => ~ is_free_contiguous_region(bitmap, g, r[1])
            /\ r[1] \in Nat \ {0}
            /\ Run(f, r[1]) \subseteq FreeFrames(bitmap)
            /\ f \in FreeFrames(bitmap)
            /\ handed' = Append(handed, [first |-> f, nr |-> r[1]])
            /\ FreeFrames(bitmap') = FreeFrames(bitmap) \ Run(f, r[1])
      BY <1>0, <1>8, RunLeavesPool
    <2>2. max_page' = max_page /\ max_page \in Nat
      BY <1>0, <1>8, TypeFacts DEF alloc_boot_pages, mapVars
    <2>3. f .. f + r[1] - 1 \subseteq GrantableFrames
      BY <1>0, <2>1, FreeRunGrantable
    <2>4. f \in GrantableFrames
      BY <2>1, <2>2 DEF GrantableFrames
    <2>5. ASSUME NEW g \in GrantableFrames, g < f, g % r[2] = 0,
                 g .. g + r[1] - 1 \subseteq GrantableFrames
          PROVE  FALSE
      <3>1. g \in Nat
        BY <1>0, TypeFacts, FreeFramesByBit DEF GrantableFrames, IsBitmap
      <3>2. g + r[1] < max_page /\ is_free_contiguous_region(bitmap, g, r[1])
        BY <1>0, <2>1, <2>5, <3>1, GrantableRunFree
      <3>3. g \in Candidates(r[1], r[2])
        BY <2>1, <2>2, <2>5, <3>1, <3>2 DEF Candidates
      <3> QED BY <2>1, <2>5, <3>2, <3>3
    <2>6. GrantableFrames' = GrantableFrames \ (f .. f + r[1] - 1)
      BY <2>1, <2>2 DEF GrantableFrames, Run
    <2>7. Abstract!GrantRun(f, r[1], r[2])
      BY <2>1, <2>3, <2>5, <2>6 DEF Abstract!GrantRun, Abstract!Fits
    <2> QED BY <2>4, <2>7 DEF Abstract!Next, Abstract!Grant
  <1>9. ASSUME NEW r \in Requests, OutOfPages(r[1], r[2])
        PROVE  UNCHANGED <<bitmap, handed, max_page>>
    BY <1>9 DEF OutOfPages, allocVars
  <1>10. CASE UNCHANGED vars
    BY <1>1, <1>10 DEF vars, mapVars, allocVars
  <1> QED BY <1>1, <1>3, <1>4, <1>5, <1>6, <1>7, <1>8, <1>9, <1>10 DEF Next, alloc_pages

(* Setup and allocation implement the abstract allocator. *)
THEOREM AllocatorRefinement == Spec => ImplementsFrameAllocator
  <1> QED BY RefinementInit, RefinementStep, Invariance, PTL
       DEF Spec, ImplementsFrameAllocator, Abstract!Spec

------------------------------------------------------------------------------
(* What every implementation of the abstract allocator promises. *)
AbstractInv == Abstract!TypeOK /\ Abstract!GrantsDisjoint

LEMMA AbstractStep ==
  ASSUME AbstractInv, [Abstract!Next]_<<GrantableFrames, handed>>
  PROVE  AbstractInv'
  <1> USE DEF AbstractInv, Abstract!TypeOK, Abstract!GrantsDisjoint
  <1>1. CASE Abstract!Donate
    BY <1>1 DEF Abstract!Donate
  <1>2. ASSUME NEW r \in Requests, Abstract!Grant(r[1], r[2])
        PROVE  AbstractInv'
    <2>1. PICK first \in GrantableFrames :
            /\ first .. first + r[1] - 1 \subseteq GrantableFrames
            /\ GrantableFrames' = GrantableFrames \ (first .. first + r[1] - 1)
            /\ handed' = Append(handed, [first |-> first, nr |-> r[1]])
      BY <1>2 DEF Abstract!Grant, Abstract!GrantRun, Abstract!Fits
    <2>2. r[1] \in Nat \ {0}
      BY SetupArchAssumption
    <2> DEFINE n == Len(handed)
    <2>3. /\ n \in Nat /\ DOMAIN handed = 1 .. n /\ DOMAIN handed' = 1 .. n + 1
          /\ \A a \in 1 .. n : handed'[a] = handed[a]
          /\ handed'[n + 1] = [first |-> first, nr |-> r[1]]
      BY <2>1
    <2>4. Abstract!TypeOK'
      <3>1. [first |-> first, nr |-> r[1]] \in [first : Nat, nr : Nat \ {0}]
        BY <2>1, <2>2
      <3>2. handed' \in Seq([first : Nat, nr : Nat \ {0}])
        BY <2>1, <3>1
      <3>3. GrantableFrames' \subseteq Nat
        BY <2>1
      <3> QED BY <3>2, <3>3
    <2>5. /\ Abstract!Granted(handed'[n + 1]) \subseteq GrantableFrames
          /\ Abstract!Granted(handed'[n + 1]) \cap GrantableFrames' = {}
      <3>1. Abstract!Granted([first |-> first, nr |-> r[1]]) = first .. first + r[1] - 1
        BY DEF Abstract!Granted
      <3>2. Abstract!Granted(handed'[n + 1]) = first .. first + r[1] - 1
        BY <2>3, <3>1
      <3> QED BY <2>1, <3>2
    <2>6. ASSUME NEW a \in 1 .. n + 1
          PROVE  Abstract!Granted(handed'[a]) \cap GrantableFrames' = {}
      <3>1. CASE a = n + 1
        BY <2>5, <3>1
      <3>2. CASE a \in 1 .. n
        BY <2>1, <2>3, <3>2
      <3> QED BY <2>3, <3>1, <3>2
    <2>7. ASSUME NEW a \in 1 .. n + 1, NEW b \in 1 .. n + 1, a # b
          PROVE  Abstract!Granted(handed'[a]) \cap Abstract!Granted(handed'[b]) = {}
      <3>1. CASE a \in 1 .. n /\ b \in 1 .. n
        BY <2>3, <2>7, <3>1
      <3>2. CASE a \in 1 .. n /\ b = n + 1
        BY <2>3, <2>5, <3>2
      <3>3. CASE a = n + 1 /\ b \in 1 .. n
        BY <2>3, <2>5, <3>3
      <3>4. /\ a \in 1 .. n \/ a = n + 1
            /\ b \in 1 .. n \/ b = n + 1
        <4>1. n \in Nat
          BY <2>3
        <4> HIDE DEF n
        <4> QED BY <4>1
      <3> QED BY <2>7, <3>1, <3>2, <3>3, <3>4, Zenon
    <2> QED BY <2>3, <2>4, <2>6, <2>7
  <1>3. CASE UNCHANGED <<GrantableFrames, handed>>
    BY <1>3
  <1> QED BY <1>1, <1>2, <1>3 DEF Abstract!Next

(* The abstract allocator's promise is one of the code: no frame is granted to
   two requests, and none that is granted can be granted again
   (alloc.c:166-195). *)
THEOREM GrantsDisjointCorrect == Spec => []Abstract!GrantsDisjoint
  <1>1. Abstract!Init => AbstractInv
    BY DEF Abstract!Init, AbstractInv, Abstract!TypeOK, Abstract!GrantsDisjoint
  <1>2. AbstractInv => Abstract!GrantsDisjoint
    BY DEF AbstractInv
  <1>3. AbstractInv /\ [Abstract!Next]_<<GrantableFrames, handed>> => AbstractInv'
    BY AbstractStep
  <1> QED BY <1>1, <1>2, <1>3, AllocatorRefinement, PTL DEF ImplementsFrameAllocator, Abstract!Spec

(* After the first request is served the grantable frames only become fewer:
   alloc.c has no free operation (alloc.c:128-195). *)
THEOREM NoRefillCorrect == Spec => Abstract!NoRefill
  <1>1. [Abstract!Next]_<<GrantableFrames, handed>> =>
          [handed # << >> => GrantableFrames' \subseteq GrantableFrames]_<<GrantableFrames, handed>>
    BY DEF Abstract!Next, Abstract!Donate, Abstract!Grant, Abstract!GrantRun
  <1> QED BY <1>1, AllocatorRefinement, PTL
       DEF ImplementsFrameAllocator, Abstract!Spec, Abstract!NoRefill

------------------------------------------------------------------------------
(***************************************************************************)
(* What setup.c and alloc.c lose nothing of: the stash is in RAM, every    *)
(* usable frame reaches the pool, and a request fails only when the pool   *)
(* has no run for it.                                                      *)
(*                                                                         *)
(* Unlike the theorems above these do not hold of every map a loader could *)
(* pass.  Two hypotheses name what the code takes on trust.                *)
(***************************************************************************)
Apart(e, f) == EntryEnd(e) <= f.addr \/ EntryEnd(f) <= e.addr

(* No two records describe the same RAM: init_alloc_bitmap may skip too much of
   an entry that overlaps the one with the stash. *)
RamIsApart ==
  \A m \in MultibootInfos : \A o, q \in DOMAIN m.mmap :
    o # q /\ IsRam(m.mmap[o]) /\ IsRam(m.mmap[q]) => Apart(m.mmap[o], m.mmap[q])

(* The addresses the stash may get are below 2 GB (setup.c:45). *)
AddressesFitInt ==
  /\ 2 * HeapEnd < IntRange
  /\ \A m \in MultibootInfos : \A o \in DOMAIN m.mmap :
       IsRam(m.mmap[o]) => 2 * m.mmap[o].addr < IntRange

(* The entries of the table, and the records still to be read. *)
EntriesInv ==
  /\ mbi \in MultibootInfos
  /\ \A k \in 1 .. Len(e820) : IsRam(e820[k]) =>
       /\ 2 * e820[k].addr < IntRange
       /\ \A o \in DOMAIN mbi.mmap :
            o >= p /\ IsRam(mbi.mmap[o]) => Apart(e820[k], mbi.mmap[o])
       /\ \A l \in 1 .. Len(e820) : l # k /\ IsRam(e820[l]) => Apart(e820[k], e820[l])

(* The stash is the start of what an entry has above the heap. *)
StashedIn(k) ==
  /\ IsRam(e820[k])
  /\ image.start = SkipHeap(e820[k].addr)
  /\ guest_image_end <= EntryEnd(e820[k])

StashInv ==
  pc \in {"naive_allocator_init", "init_alloc_bitmap", "ready"} =>
    /\ \E k \in 1 .. Len(e820) : StashedIn(k)
    /\ image.size > 0 => guest_image_end <= MappedLimit

(* Entry k has been opened: each of its frames that is usable is free. *)
Opened(k) ==
  IsRam(e820[k]) =>
    \A f \in Nat :
      /\ FrameWithin(f, e820[k].addr, EntryEnd(e820[k]))
      /\ HeapEnd <= f * PageSize
      /\ ~ FrameTouches(f, image.start, guest_image_end)
      => f \in FreeFrames(bitmap)

OpenInv ==
  /\ pc = "init_alloc_bitmap" => \A k \in 1 .. Len(e820) : k < i => Opened(k)
  /\ pc = "ready" => \A f \in Nat : UsableFrame(f) => f \in HandedFrames \cup FreeFrames(bitmap)

CompleteInv == EntriesInv /\ StashInv /\ OpenInv

------------------------------------------------------------------------------
(* Only add_memory_region changes the table. *)
LEMMA TableSteps ==
  ASSUME [Next]_vars
  PROVE  \/ UNCHANGED <<mbi, p, e820>>
         \/ add_memory_region /\ UNCHANGED allocVars
BY DEF Next, vars, mapVars, MapNext, NoMemoryInformation, TooManyEntries, MemoryRegionDone,
       get_nr_pages, NrPagesDone, get_max_pfn, MaxPfnDone, NoGuestImage, NoRoomForImage,
       copy_guest_image, NoHeapSpace, naive_allocator_init, init_alloc_bitmap,
       InitAllocBitmapDone, alloc_pages, alloc_boot_pages, OutOfPages

LEMMA EntriesStep ==
  ASSUME RamIsApart, AddressesFitInt, TypeInv, EntriesInv, [Next]_vars
  PROVE  EntriesInv'
<1>1. CASE UNCHANGED <<mbi, p, e820>>
  BY <1>1 DEF EntriesInv, IsRam, Apart, EntryEnd
<1>2. CASE add_memory_region
  <2> DEFINE r == mbi.mmap[p]
             n == Len(e820)
  <2>1. /\ p < mbi.mmap_length /\ mbi' = mbi /\ e820' = Append(e820, NewEntry(r))
        /\ p' = p + Stride(r) /\ mbi \in MultibootInfos
    BY <1>2 DEF add_memory_region, EntriesInv
  <2>2. /\ MultibootInfo(mbi) /\ p \in Nat /\ CursorOnRecord /\ e820 \in Seq(E820Entry)
    BY DEF TypeInv, TypeOK, MapTypeOK
  <2>3. p \in DOMAIN mbi.mmap /\ r \in MemoryRecord /\ mbi.mmap_length \in Nat
    BY <2>1, <2>2 DEF MultibootInfo, CursorOnRecord
  <2>4. p' \in Nat /\ p < p'
    BY <2>1, <2>2, <2>3, MemoryMapAssumption DEF Stride, MemoryRecord
  <2>5. /\ n \in Nat /\ Len(e820') = n + 1 /\ e820'[n + 1] = NewEntry(r)
        /\ \A k \in 1 .. n : e820'[k] = e820[k]
    BY <2>1, <2>2
  <2>6. /\ e820'[n + 1].addr = r.addr
        /\ EntryEnd(e820'[n + 1]) = EntryEnd(r) /\ (IsRam(e820'[n + 1]) <=> IsRam(r))
    BY <2>5 DEF NewEntry, EntryEnd, IsRam
  <2>7. DOMAIN mbi.mmap \subseteq Nat
    BY <2>2 DEF MultibootInfo, Packed
  <2> HIDE DEF r, n
  <2>8. ASSUME NEW k \in 1 .. n + 1, IsRam(e820'[k])
        PROVE  /\ 2 * e820'[k].addr < IntRange
               /\ \A o \in DOMAIN mbi.mmap :
                    o >= p' /\ IsRam(mbi.mmap[o]) => Apart(e820'[k], mbi.mmap[o])
               /\ \A l \in 1 .. n + 1 : l # k /\ IsRam(e820'[l]) => Apart(e820'[k], e820'[l])
    <3>1. CASE k \in 1 .. n
      <4>1. e820'[k] = e820[k] /\ k \in 1 .. Len(e820) /\ IsRam(e820[k])
        BY <2>5, <2>8, <3>1 DEF n
      <4>2. \A o \in DOMAIN mbi.mmap : o >= p' => o >= p
        BY <2>2, <2>4, <2>7
      <4>3. IsRam(r) => Apart(e820[k], r)
        BY <2>2, <2>3, <4>1 DEF EntriesInv, r
      <4>4. ASSUME NEW l \in 1 .. n + 1, l # k, IsRam(e820'[l])
            PROVE  Apart(e820'[k], e820'[l])
        <5>1. CASE l \in 1 .. n
          BY <2>5, <4>1, <4>4, <5>1 DEF EntriesInv, n
        <5>2. CASE l = n + 1
          BY <2>6, <4>1, <4>3, <4>4, <5>2 DEF Apart
        <5> QED
          BY <2>5, <5>1, <5>2
      <4> QED
        BY <4>1, <4>2, <4>4 DEF EntriesInv
    <3>2. CASE k = n + 1
      <4>1. IsRam(r)
        BY <2>6, <2>8, <3>2
      <4>2. 2 * r.addr < IntRange
        BY <2>1, <2>3, <4>1 DEF AddressesFitInt, r
      <4>3. \A o \in DOMAIN mbi.mmap : o >= p' /\ IsRam(mbi.mmap[o]) => Apart(r, mbi.mmap[o])
        BY <2>1, <2>2, <2>3, <2>4, <2>7, <4>1 DEF RamIsApart, r
      <4>4. \A l \in 1 .. n : IsRam(e820[l]) => Apart(e820[l], r)
        BY <2>2, <2>3, <4>1 DEF EntriesInv, r, n
      <4>5. ASSUME NEW l \in 1 .. n + 1, l # k, IsRam(e820'[l])
            PROVE  Apart(e820'[k], e820'[l])
        <5>1. l \in 1 .. n /\ e820'[l] = e820[l]
          BY <2>5, <3>2, <4>5
        <5> QED
          BY <2>6, <3>2, <4>4, <4>5, <5>1 DEF Apart
      <4> QED
        BY <2>6, <3>2, <4>2, <4>3, <4>5 DEF Apart
    <3> QED
      BY <2>5, <3>1, <3>2
  <2> QED
    BY <2>1, <2>5, <2>8 DEF EntriesInv
<1> QED
  BY <1>1, <1>2, TableSteps

------------------------------------------------------------------------------
(* An address below 2 GB survives the detour through an int. *)
LEMMA ThroughIntKeeps ==
  ASSUME NEW x \in Nat, 2 * x < IntRange
  PROVE  ThroughInt(x) = x
<1>1. IntRange \in Nat \ {0} /\ x < IntRange
  BY MachineWordsAssumption
<1>2. x % IntRange = x
  BY <1>1
<1> QED
  BY <1>2 DEF ThroughInt

(* The steps after the stash has been written leave it and the table alone. *)
LEMMA StashStays ==
  ASSUME [Next]_vars, pc \in {"naive_allocator_init", "init_alloc_bitmap", "ready"}
  PROVE  UNCHANGED <<e820, image, max_page>>
BY DEF Next, vars, mapVars, allocVars, MapNext, NoMemoryInformation, add_memory_region,
       TooManyEntries, MemoryRegionDone, get_nr_pages, NrPagesDone, get_max_pfn, MaxPfnDone,
       NoGuestImage, NoRoomForImage, copy_guest_image, NoHeapSpace, naive_allocator_init,
       init_alloc_bitmap, InitAllocBitmapDone, alloc_pages, alloc_boot_pages, OutOfPages

LEMMA StashStep ==
  ASSUME AddressesFitInt, TypeInv, EntriesInv, StashInv, [Next]_vars
  PROVE  StashInv'
<1>1. CASE pc \in {"naive_allocator_init", "init_alloc_bitmap", "ready"}
  <2>1. UNCHANGED <<e820, image>>
    BY <1>1, StashStays
  <2> QED
    BY <1>1, <2>1 DEF StashInv, StashedIn, IsRam, EntryEnd, guest_image_end
<1>2. CASE copy_guest_image
  <2>1. PICK k \in 1 .. Len(e820) :
          LET start == ThroughInt(Place(e820[k], mbi.mod_size)) IN
          /\ Suitable(e820[k], mbi.mod_size)
          /\ image' = [start |-> start, size |-> mbi.mod_size]
          /\ pc' = IF MoveFaults(start, mbi.mod_size) THEN "dead" ELSE "naive_allocator_init"
    BY <1>2 DEF copy_guest_image, FirstSuitable
  <2> DEFINE e == e820[k]
             len == mbi.mod_size
  <2>2. /\ e.addr \in Nat /\ e.size \in Nat /\ EntryEnd(e) = e.addr + e.size /\ len \in Nat
        /\ HeapEnd \in Nat /\ IsRam(e) /\ e.size >= len /\ e820' = e820
    BY <1>2, <2>1, TypeFacts, SetupArchAssumption
    DEF Suitable, EntryEnd, TypeInv, TypeOK, MapTypeOK, MultibootInfo, copy_guest_image
  <2>3. Place(e, len) = SkipHeap(e.addr) /\ Place(e, len) + len <= EntryEnd(e)
        /\ Place(e, len) \in Nat
    BY <2>1, <2>2 DEF Suitable, Place, RoomBehindHeap, AboveHeap, SkipHeap
  <2>4. 2 * Place(e, len) < IntRange
    BY <2>2 DEF AddressesFitInt, EntriesInv, Place
  <2>5. image'.start = Place(e, len) /\ image'.size = len
    BY <2>1, <2>3, <2>4, ThroughIntKeeps
  <2>6. StashedIn(k)'
    BY <2>2, <2>3, <2>5 DEF StashedIn, guest_image_end, IsRam, EntryEnd
  <2>7. pc' = "naive_allocator_init" /\ len > 0 => Place(e, len) + len <= MappedLimit
    BY <2>1, <2>2, <2>3, <2>4, ThroughIntKeeps, SetupArchAssumption DEF MoveFaults
  <2>8. pc' = "naive_allocator_init" \/ pc' = "dead"
    BY <2>1
  <2> QED
    BY <2>1, <2>2, <2>5, <2>6, <2>7, <2>8 DEF StashInv, guest_image_end
<1>3. ASSUME pc \notin {"naive_allocator_init", "init_alloc_bitmap", "ready"}, ~ copy_guest_image
      PROVE  pc' \notin {"naive_allocator_init", "init_alloc_bitmap", "ready"}
  BY <1>3 DEF Next, vars, mapVars, MapNext, NoMemoryInformation, add_memory_region,
       TooManyEntries, MemoryRegionDone, get_nr_pages, NrPagesDone, get_max_pfn, MaxPfnDone,
       NoGuestImage, NoRoomForImage, NoHeapSpace, naive_allocator_init,
       init_alloc_bitmap, InitAllocBitmapDone, alloc_pages, alloc_boot_pages, OutOfPages
<1> QED
  BY <1>1, <1>2, <1>3 DEF StashInv

------------------------------------------------------------------------------
(* What is skipped of an entry is the heap or meets the stash. *)
LEMMA SkipsNoUsableFrame ==
  ASSUME TypeInv, EntriesInv, NEW k \in 1 .. Len(e820), IsRam(e820[k]),
         NEW j \in 1 .. Len(e820), StashedIn(j),
         NEW f \in Nat, FrameWithin(f, e820[k].addr, EntryEnd(e820[k])),
         HeapEnd <= f * PageSize, ~ FrameTouches(f, image.start, guest_image_end)
  PROVE  FrameWithin(f, SkipImage(SkipHeap(e820[k].addr), EntryEnd(e820[k])), EntryEnd(e820[k]))
<1> DEFINE a == e820[k].addr
           e == EntryEnd(e820[k])
           h == SkipHeap(a)
           lo == f * PageSize
           hi == (f + 1) * PageSize
           istart == image.start
           iend == guest_image_end
<1>1. /\ a \in Nat /\ e \in Nat /\ HeapEnd \in Nat /\ istart \in Nat /\ iend \in Nat
      /\ lo \in Nat /\ hi \in Nat /\ lo < hi /\ istart <= iend
  <2>1. PageSize \in Nat \ {0}
    BY PageSizeAssumption
  <2>2. lo \in Nat /\ hi = lo + PageSize
    BY <2>1
  <2>3. a \in Nat /\ e \in Nat /\ HeapEnd \in Nat /\ istart \in Nat /\ image.size \in Nat
    BY TypeFacts, SetupArchAssumption
  <2>4. iend \in Nat /\ istart <= iend
    BY <2>3 DEF guest_image_end
  <2> QED
    BY <2>1, <2>2, <2>3, <2>4
<1>2. a <= lo /\ hi <= e /\ HeapEnd <= lo /\ (lo >= iend \/ hi <= istart)
  BY <1>1 DEF FrameWithin, FrameTouches
<1>3. h <= lo /\ h \in Nat /\ a <= h
  BY <1>1, <1>2 DEF SkipHeap
<1>4. hi <= istart /\ h < iend /\ e > istart => FALSE
  <2>1. CASE j = k
    <3>1. istart = h
      BY <2>1 DEF StashedIn
    <3> HIDE DEF a, e, h, lo, hi, istart, iend
    <3> QED
      BY <1>1, <1>3, <3>1
  <2>2. CASE j # k
    <3>1. e <= e820[j].addr \/ EntryEnd(e820[j]) <= a
      BY <2>2 DEF EntriesInv, StashedIn, Apart
    <3>2. /\ istart = SkipHeap(e820[j].addr) /\ iend <= EntryEnd(e820[j])
          /\ e820[j].addr \in Nat /\ EntryEnd(e820[j]) \in Nat
      BY TypeFacts DEF StashedIn
    <3>3. e820[j].addr <= istart
      BY <1>1, <3>2 DEF SkipHeap
    <3> HIDE DEF a, e, h, lo, hi, istart, iend
    <3> QED
      BY <1>1, <1>3, <3>1, <3>2, <3>3
  <2> QED
    BY <2>1, <2>2
<1>5. SkipImage(h, e) <= lo
  <2>1. SkipImage(h, e) = IF h < iend /\ e > istart THEN iend ELSE h
    BY DEF SkipImage
  <2> HIDE DEF a, e, h, lo, hi, istart, iend
  <2> QED
    BY <1>1, <1>2, <1>3, <1>4, <2>1
<1> QED
  BY <1>2, <1>5 DEF FrameWithin

LEMMA OpenStep ==
  ASSUME IInv, EntriesInv, StashInv, OpenInv, [Next]_vars
  PROVE  OpenInv'
<1>0. TypeInv /\ SetupOrder
  BY DEF IInv
<1>1. CASE init_alloc_bitmap
  <2>1. /\ i \in 1 .. Len(e820)
        /\ FreeFrames(bitmap') =
             FreeFrames(bitmap) \cup
             {f \in Nat : /\ IsRam(e820[i])
                         /\ FrameWithin(f, SkipImage(SkipHeap(e820[i].addr), EntryEnd(e820[i])),
                                        EntryEnd(e820[i]))}
    BY <1>0, <1>1, EntryOpens
  <2>2. /\ pc = "init_alloc_bitmap" /\ pc' = "init_alloc_bitmap" /\ i' = i + 1
        /\ UNCHANGED <<e820, image>>
    BY <1>1 DEF init_alloc_bitmap
  <2>3. PICK j \in 1 .. Len(e820) : StashedIn(j)
    BY <2>2 DEF StashInv
  <2>4. ASSUME NEW k \in 1 .. Len(e820), k < i', IsRam(e820[k]), NEW f \in Nat,
               FrameWithin(f, e820[k].addr, EntryEnd(e820[k])),
               HeapEnd <= f * PageSize, ~ FrameTouches(f, image.start, guest_image_end)
        PROVE  f \in FreeFrames(bitmap')
    <3>1. CASE k < i
      BY <2>1, <2>2, <2>4, <3>1 DEF OpenInv, Opened
    <3>2. CASE k = i
      BY <1>0, <2>1, <2>3, <2>4, <3>2, SkipsNoUsableFrame
    <3> QED
      BY <2>1, <2>2, <2>4, <3>1, <3>2
  <2>5. \A k \in 1 .. Len(e820') : k < i' => Opened(k)'
    BY <2>2, <2>4 DEF Opened, IsRam, EntryEnd, guest_image_end
  <2> QED
    BY <2>2, <2>5 DEF OpenInv
<1>2. CASE InitAllocBitmapDone
  <2>1. /\ pc = "init_alloc_bitmap" /\ pc' = "ready" /\ i > Len(e820)
        /\ UNCHANGED <<e820, image, bitmap, handed>> /\ i \in Nat /\ Len(e820) \in Nat
    BY <1>0, <1>2, TypeFacts DEF InitAllocBitmapDone, allocVars
  <2>2. ASSUME NEW f \in Nat, UsableFrame(f)
        PROVE  f \in FreeFrames(bitmap)
    <3>1. PICK k \in 1 .. Len(e820) :
            IsRam(e820[k]) /\ FrameWithin(f, e820[k].addr, EntryEnd(e820[k]))
      BY <2>2 DEF UsableFrame, WholeRamFrame
    <3>2. Opened(k)
      BY <2>1 DEF OpenInv
    <3> QED
      BY <2>2, <3>1, <3>2 DEF Opened, UsableFrame
  <2>3. \A f : UsableFrame(f)' <=> UsableFrame(f)
    BY <2>1 DEF UsableFrame, WholeRamFrame, IsRam, EntryEnd, guest_image_end
  <2> QED
    BY <2>1, <2>2, <2>3 DEF OpenInv
<1>3. ASSUME NEW r \in Requests, alloc_boot_pages(r[1], r[2])
      PROVE  OpenInv'
  <2>1. PICK f \in Nat :
          /\ handed' = Append(handed, [first |-> f, nr |-> r[1]])
          /\ FreeFrames(bitmap') = FreeFrames(bitmap) \ Run(f, r[1])
    BY <1>0, <1>3, RunLeavesPool
  <2>2. pc = "ready" /\ pc' = "ready" /\ UNCHANGED <<e820, image>>
    BY <1>3 DEF alloc_boot_pages, mapVars
  <2>3. /\ Len(handed) \in Nat /\ DOMAIN handed = 1 .. Len(handed)
        /\ DOMAIN handed' = 1 .. Len(handed) + 1
        /\ \A a \in 1 .. Len(handed) : handed'[a] = handed[a]
        /\ handed'[Len(handed) + 1] = [first |-> f, nr |-> r[1]]
    BY <1>0, <2>1, TypeFacts
  <2>4. HandedFrames \subseteq HandedFrames'
    BY <2>3 DEF HandedFrames
  <2>5. Run(f, r[1]) \subseteq HandedFrames'
    <3>1. Run(handed'[Len(handed) + 1].first, handed'[Len(handed) + 1].nr) = Run(f, r[1])
      BY <2>3
    <3>2. Len(handed) + 1 \in DOMAIN handed'
      BY <2>3
    <3> QED
      BY <3>1, <3>2 DEF HandedFrames
  <2>6. \A g : UsableFrame(g)' <=> UsableFrame(g)
    BY <2>2 DEF UsableFrame, WholeRamFrame, IsRam, EntryEnd, guest_image_end
  <2> QED
    BY <2>1, <2>2, <2>4, <2>5, <2>6 DEF OpenInv
<1>4. CASE UNCHANGED <<pc, e820, i, image, bitmap, handed>>
  BY <1>4 DEF OpenInv, Opened, UsableFrame, WholeRamFrame, IsRam, EntryEnd, guest_image_end,
              HandedFrames
<1>5. CASE naive_allocator_init
  <2>1. pc' = "init_alloc_bitmap" /\ i' = 1
    BY <1>5 DEF naive_allocator_init
  <2> QED
    BY <2>1 DEF OpenInv
<1>6. ASSUME ~ init_alloc_bitmap, ~ InitAllocBitmapDone, ~ naive_allocator_init, ~ UNCHANGED vars,
             \A r \in Requests : ~ alloc_boot_pages(r[1], r[2])
      PROVE  pc' \notin {"init_alloc_bitmap", "ready"}
  BY <1>6 DEF Next, MapNext, NoMemoryInformation, add_memory_region,
       TooManyEntries, MemoryRegionDone, get_nr_pages, NrPagesDone, get_max_pfn, MaxPfnDone,
       NoGuestImage, NoRoomForImage, copy_guest_image, NoHeapSpace, alloc_pages, OutOfPages
<1>7. CASE UNCHANGED vars
  BY <1>4, <1>7 DEF vars, mapVars, allocVars
<1> QED
  BY <1>1, <1>2, <1>3, <1>5, <1>6, <1>7 DEF OpenInv

------------------------------------------------------------------------------
LEMMA CompleteAlways ==
  ASSUME RamIsApart, AddressesFitInt
  PROVE  Spec => [](IInv /\ CompleteInv)
<1>1. Init => CompleteInv
  BY DEF Init, MapInit, CompleteInv, EntriesInv, StashInv, OpenInv
<1>2. IInv /\ CompleteInv /\ [Next]_vars => CompleteInv'
  BY EntriesStep, StashStep, OpenStep DEF CompleteInv, IInv
<1> QED
  BY <1>1, <1>2, Invariance, PTL DEF Spec

(***************************************************************************)
(* Where addresses fit an int, the copy of the image lies inside one RAM   *)
(* entry, above the heap, and below the end of the mapping (setup.c:20-98).*)
(***************************************************************************)
THEOREM StashCorrect ==
  ASSUME RamIsApart, AddressesFitInt
  PROVE  Spec => []StashElsewhere
<1>1. IInv /\ CompleteInv => StashElsewhere
  <2> SUFFICES ASSUME IInv, CompleteInv, image.size > 0,
                      pc \in {"naive_allocator_init", "init_alloc_bitmap", "ready"}
               PROVE  /\ HeapEnd <= image.start
                      /\ guest_image_end <= MappedLimit
                      /\ \E k \in 1 .. Len(e820) :
                           /\ IsRam(e820[k])
                           /\ e820[k].addr <= image.start
                           /\ guest_image_end <= EntryEnd(e820[k])
    BY DEF StashElsewhere
  <2>1. PICK k \in 1 .. Len(e820) : StashedIn(k)
    BY DEF CompleteInv, StashInv
  <2>2. e820[k].addr \in Nat /\ HeapEnd \in Nat
    BY TypeFacts, SetupArchAssumption DEF IInv
  <2>3. HeapEnd <= image.start /\ e820[k].addr <= image.start
    BY <2>1, <2>2 DEF StashedIn, SkipHeap
  <2> QED
    BY <2>1, <2>3 DEF StashedIn, CompleteInv, StashInv
<1> QED
  BY <1>1, CompleteAlways, PTL

(***************************************************************************)
(* Every usable frame has been returned or can still be (alloc.c:96-137):  *)
(* the stash is at the start of its entry, so skipping it loses nothing.   *)
(***************************************************************************)
THEOREM PoolCompleteCorrect ==
  ASSUME RamIsApart, AddressesFitInt
  PROVE  Spec => []PoolComplete
<1>1. IInv /\ CompleteInv => PoolComplete
  BY DEF CompleteInv, OpenInv, PoolComplete
<1> QED
  BY <1>1, CompleteAlways, PTL

(***************************************************************************)
(* alloc_boot_pages gives up only when each aligned run below the last     *)
(* frame has a frame that is not usable or was returned (alloc.c:179-201). *)
(***************************************************************************)
THEOREM FailureCorrect ==
  ASSUME RamIsApart, AddressesFitInt
  PROVE  Spec => FailsOnlyWhenFull
<1> DEFINE Full == \A r \in Requests :
                     OutOfPages(r[1], r[2]) =>
                       \A f \in 0 .. max_page :
                         f % r[2] = 0 /\ f + r[1] < max_page =>
                           \E g \in Run(f, r[1]) : ~ UsableFrame(g) \/ g \in HandedFrames
<1>1. IInv /\ CompleteInv => Full
  <2> SUFFICES ASSUME IInv, CompleteInv, NEW r \in Requests, OutOfPages(r[1], r[2]),
                      NEW f \in 0 .. max_page, f % r[2] = 0, f + r[1] < max_page
               PROVE  \E g \in Run(f, r[1]) : ~ UsableFrame(g) \/ g \in HandedFrames
    BY DEF Full
  <2>1. f \in Candidates(r[1], r[2]) /\ pc = "ready"
    BY DEF Candidates, OutOfPages
  <2>2. ~ is_free_contiguous_region(bitmap, f, r[1])
    BY <2>1 DEF OutOfPages
  <2>3. PICK g \in Run(f, r[1]) : allocated_in_map(bitmap, g)
    BY <2>2 DEF is_free_contiguous_region
  <2>4. g \in Nat
    BY TypeFacts, SetupArchAssumption DEF Run, IInv
  <2>5. g \notin FreeFrames(bitmap)
    BY <2>3 DEF FreeFrames
  <2> QED
    BY <2>1, <2>3, <2>4, <2>5 DEF CompleteInv, OpenInv
<1> HIDE DEF Full
<1>2. IInv /\ CompleteInv => [Full]_vars
  BY <1>1
<1>3. Spec => [][Full]_vars
  BY <1>2, CompleteAlways, PTL
<1> QED
  BY <1>3 DEF Full, FailsOnlyWhenFull
------------------------------------------------------------------------------
(* The records setup_memory_region has passed, and those of them up to one of them. *)
RecordsRead == {o \in DOMAIN mbi.mmap : o < p}
ReadUpTo(o) == {q \in RecordsRead : q <= o}

(* The table so far, and that a scan of it only starts behind the last record. *)
AreaInv ==
  /\ Len(e820) = Cardinality(RecordsRead)
  /\ \A o \in RecordsRead : e820[Cardinality(ReadUpTo(o))] = NewEntry(mbi.mmap[o])
  /\ pc \notin {"setup_memory_region", "dead"} => p >= mbi.mmap_length

(* The frames that lie wholly in one of the first n entries that are RAM. *)
FramesOf(n) ==
  {f \in Nat : \E k \in 1 .. n : IsRam(e820[k]) /\ FrameWithin(f, e820[k].addr, EntryEnd(e820[k]))}

(* What the two scans have counted, from the entries they have seen. *)
FiguresInv ==
  /\ pc = "setup_memory_region" => total_pages = 0
  /\ pc \in {"setup_memory_region", "get_nr_pages"} => max_page = 0
  /\ pc = "get_nr_pages" =>
       /\ i <= Len(e820) + 1
       /\ IsFiniteSet(FramesOf(i - 1)) /\ Cardinality(FramesOf(i - 1)) <= total_pages
  /\ pc \in {"get_max_pfn", "copy_guest_image"} =>
       /\ IsFiniteSet(FramesOf(Len(e820))) /\ Cardinality(FramesOf(Len(e820))) <= total_pages
       /\ max_page > 0 => WholeRamFrame(max_page - 1)

------------------------------------------------------------------------------
(* The records an area holds are finitely many, and counting them up to one of
   those that have been read gives a place in the table. *)
LEMMA RecordsCounted ==
  ASSUME MultibootInfo(mbi), p \in Nat
  PROVE  /\ IsFiniteSet(RecordsRead) /\ Cardinality(RecordsRead) \in Nat
         /\ \A o \in RecordsRead : Cardinality(ReadUpTo(o)) \in 1 .. Cardinality(RecordsRead)
<1>1. DOMAIN mbi.mmap \subseteq 0 .. mbi.mmap_length - 1 /\ mbi.mmap_length \in Nat
  BY DEF MultibootInfo, Packed
<1>2. IsFiniteSet(0 .. mbi.mmap_length - 1)
  BY <1>1, FS_Interval
<1>3. RecordsRead \subseteq 0 .. mbi.mmap_length - 1
  BY <1>1 DEF RecordsRead
<1>4. IsFiniteSet(RecordsRead)
  BY <1>2, <1>3, FS_Subset
<1>5. ASSUME NEW o \in RecordsRead
      PROVE  Cardinality(ReadUpTo(o)) \in 1 .. Cardinality(RecordsRead)
  <2>1. ReadUpTo(o) \subseteq RecordsRead /\ o \in ReadUpTo(o)
    BY <1>3 DEF ReadUpTo
  <2>2. IsFiniteSet(ReadUpTo(o)) /\ Cardinality(ReadUpTo(o)) <= Cardinality(RecordsRead)
    BY <1>4, <2>1, FS_Subset
  <2>3. Cardinality(ReadUpTo(o)) # 0
    BY <2>1, <2>2, FS_EmptySet
  <2> QED
    BY <1>4, <2>2, <2>3, FS_CardinalityType
<1> QED
  BY <1>4, <1>5, FS_CardinalityType

LEMMA AreaInit == Init => AreaInv
<1> SUFFICES ASSUME Init PROVE AreaInv
  OBVIOUS
<1>1. DOMAIN mbi.mmap \subseteq Nat
  BY InitialInfo DEF Init, MultibootInfo, Packed
<1>2. RecordsRead = {}
  BY <1>1 DEF RecordsRead, Init, MapInit
<1> QED
  BY <1>2, FS_EmptySet DEF AreaInv, Init, MapInit

LEMMA AreaStep == TypeInv /\ AreaInv /\ [Next]_vars => AreaInv'
<1> SUFFICES ASSUME TypeInv, AreaInv, [Next]_vars PROVE AreaInv'
  OBVIOUS
<1>0. MultibootInfo(mbi) /\ p \in Nat /\ CursorOnRecord /\ e820 \in Seq(E820Entry)
  BY DEF TypeInv, TypeOK, MapTypeOK
<1>1. CASE UNCHANGED <<mbi, p, e820>>
  <2>1. pc' \notin {"setup_memory_region", "dead"} => p >= mbi.mmap_length
    <3>1. CASE pc \notin {"setup_memory_region", "dead"}
      BY <3>1 DEF AreaInv
    <3>2. CASE pc \in {"setup_memory_region", "dead"}
      BY <1>0, <3>2 DEF Next, vars, mapVars, MapNext, NoMemoryInformation, TooManyEntries,
           MemoryRegionDone, add_memory_region, get_nr_pages, NrPagesDone, get_max_pfn, MaxPfnDone,
           NoGuestImage, NoRoomForImage, copy_guest_image, NoHeapSpace, naive_allocator_init,
           init_alloc_bitmap, InitAllocBitmapDone, alloc_pages, alloc_boot_pages, OutOfPages,
           MultibootInfo
    <3> QED
      BY <3>1, <3>2
  <2> QED
    BY <1>1, <2>1 DEF AreaInv, RecordsRead, ReadUpTo
<1>2. CASE add_memory_region
  <2> DEFINE r == mbi.mmap[p]
             n == Len(e820)
  <2>1. /\ pc' = "setup_memory_region" /\ p < mbi.mmap_length /\ mbi' = mbi
        /\ e820' = Append(e820, NewEntry(r)) /\ p' = p + Stride(r)
    BY <1>2 DEF add_memory_region
  <2>2. p \in DOMAIN mbi.mmap /\ DOMAIN mbi.mmap \subseteq Nat /\ r \in MemoryRecord
    BY <1>0, <2>1 DEF MultibootInfo, Packed, CursorOnRecord
  <2>3. p' \in Nat /\ p < p' /\ p' = p + r.rsize + SizeofSize
    BY <1>0, <2>1, <2>2, MemoryMapAssumption DEF Stride, MemoryRecord
  <2>4. \A q \in DOMAIN mbi.mmap : q <= p \/ q >= p'
    BY <1>0, <2>2, <2>3 DEF MultibootInfo, Packed, r
  <2>5. p \notin RecordsRead /\ RecordsRead' = RecordsRead \cup {p}
    BY <1>0, <2>1, <2>2, <2>3, <2>4 DEF RecordsRead
  <2>6. /\ IsFiniteSet(RecordsRead) /\ Cardinality(RecordsRead) = n /\ n \in Nat
        /\ \A o \in RecordsRead : Cardinality(ReadUpTo(o)) \in 1 .. n
    BY <1>0, RecordsCounted DEF AreaInv
  <2>7. Cardinality(RecordsRead') = n + 1
    BY <2>5, <2>6, FS_AddElement
  <2>8. /\ Len(e820') = n + 1 /\ e820'[n + 1] = NewEntry(r)
        /\ \A k \in 1 .. n : e820'[k] = e820[k]
    BY <1>0, <2>1
  <2>9. ASSUME NEW o \in RecordsRead'
        PROVE  e820'[Cardinality(ReadUpTo(o)')] = NewEntry(mbi.mmap[o])
    <3>1. CASE o \in RecordsRead
      <4>1. ReadUpTo(o)' = ReadUpTo(o)
        <5>1. o \in Nat /\ o < p
          BY <2>2, <3>1 DEF RecordsRead
        <5> QED
          BY <1>0, <2>5, <5>1 DEF ReadUpTo
      <4> QED
        BY <2>6, <2>8, <3>1, <4>1 DEF AreaInv
    <3>2. CASE o = p
      <4>1. \A q \in RecordsRead' : q <= p
        BY <1>0, <2>2, <2>5 DEF RecordsRead
      <4>2. ReadUpTo(o)' = RecordsRead'
        BY <3>2, <4>1 DEF ReadUpTo
      <4> QED
        BY <2>7, <2>8, <3>2, <4>2
    <3> QED
      BY <2>5, <2>9, <3>1, <3>2
  <2> QED
    BY <2>1, <2>7, <2>8, <2>9 DEF AreaInv
<1> QED
  BY <1>1, <1>2, TableSteps

(* e820 is the loader's area. *)
LEMMA AreaGivesTable == TypeInv /\ AreaInv => TableIsTheArea
<1> SUFFICES ASSUME TypeInv, AreaInv PROVE TableIsTheArea
  OBVIOUS
<1>1. MultibootInfo(mbi) /\ p \in Nat
  BY DEF TypeInv, TypeOK, MapTypeOK
<1>2. pc \notin {"setup_memory_region", "dead"} => RecordsRead = DOMAIN mbi.mmap
  BY <1>1 DEF AreaInv, RecordsRead, MultibootInfo, Packed
<1>3. ASSUME NEW o \in RecordsRead
      PROVE  /\ e820[Cardinality(ReadUpTo(o))].addr = mbi.mmap[o].addr
             /\ e820[Cardinality(ReadUpTo(o))].size = mbi.mmap[o].size
             /\ e820[Cardinality(ReadUpTo(o))].type = mbi.mmap[o].type
  <2>1. e820[Cardinality(ReadUpTo(o))] = NewEntry(mbi.mmap[o])
    BY DEF AreaInv
  <2> QED
    BY <2>1 DEF NewEntry
<1>4. Len(e820) = Cardinality(RecordsRead)
  BY DEF AreaInv
<1> QED
  BY <1>2, <1>3, <1>4 DEF TableIsTheArea, RecordsRead, ReadUpTo

------------------------------------------------------------------------------
(* The whole frames between two addresses are no more than the pages of the distance. *)
LEMMA FramesInEntry ==
  ASSUME NEW a \in Nat, NEW s \in Nat
  PROVE  LET fs == {f \in Nat : FrameWithin(f, a, a + s)} IN
         IsFiniteSet(fs) /\ Cardinality(fs) <= PFN_DOWN(s)
<1> DEFINE u == PFN_UP(a)
           d == PFN_DOWN(a + s)
           w == PFN_DOWN(s)
           fs == {f \in Nat : FrameWithin(f, a, a + s)}
<1>1. /\ u \in Nat /\ d \in Nat /\ w \in Nat
      /\ a <= u * PageSize
      /\ d * PageSize <= a + s
      /\ s < w * PageSize + PageSize
  BY PageRounding
<1>2. \A f \in Nat : FrameWithin(f, a, a + s) <=> u <= f /\ f < d
  BY FramesBetween
<1> HIDE DEF u, d, w
<1>3. fs = u .. d - 1
  BY <1>1, <1>2
<1>4. IsFiniteSet(fs) /\ Cardinality(fs) = IF u > d - 1 THEN 0 ELSE d - u
  <2>1. u \in Int /\ d - 1 \in Int /\ (d - 1) - u + 1 = d - u
    BY <1>1
  <2> QED
    BY <1>3, <2>1, FS_Interval
<1>5. u < d => d - u <= w
  <2> SUFFICES ASSUME u < d, w + 1 <= d - u PROVE FALSE
    BY <1>1
  <2>1. PageSize \in Nat \ {0}
    BY PageSizeAssumption
  <2>2. (w + 1) * PageSize <= (d - u) * PageSize
    BY <1>1, <2>1
  <2>3. w * PageSize + PageSize <= d * PageSize - u * PageSize
    BY <1>1, <2>1, <2>2
  <2> QED
    BY <1>1, <2>1, <2>3
<1>6. Cardinality(fs) <= w
  BY <1>1, <1>4, <1>5
<1> QED
  BY <1>4, <1>6 DEF w

(* One more entry counted by get_nr_pages covers its frames. *)
LEMMA FramesAdded ==
  ASSUME TypeInv, NEW n \in 1 .. Len(e820), NEW t \in Nat,
         IsFiniteSet(FramesOf(n - 1)), Cardinality(FramesOf(n - 1)) <= t
  PROVE  /\ IsFiniteSet(FramesOf(n))
         /\ IsRam(e820[n]) => Cardinality(FramesOf(n)) <= t + PFN_DOWN(e820[n].size)
         /\ ~ IsRam(e820[n]) => Cardinality(FramesOf(n)) <= t
<1> DEFINE fs == {f \in Nat : FrameWithin(f, e820[n].addr, EntryEnd(e820[n]))}
<1>1. e820[n].addr \in Nat /\ e820[n].size \in Nat /\ Len(e820) \in Nat
  BY TypeFacts
<1>2. 1 .. n = (1 .. n - 1) \cup {n}
  BY <1>1
<1>3. CASE ~ IsRam(e820[n])
  BY <1>2, <1>3 DEF FramesOf
<1>4. CASE IsRam(e820[n])
  <2>1. FramesOf(n) = FramesOf(n - 1) \cup fs
    BY <1>2, <1>4 DEF FramesOf
  <2>2. IsFiniteSet(fs) /\ Cardinality(fs) <= PFN_DOWN(e820[n].size)
    BY <1>1, FramesInEntry DEF EntryEnd
  <2> HIDE DEF fs
  <2>3. /\ IsFiniteSet(FramesOf(n))
        /\ Cardinality(FramesOf(n))
             = Cardinality(FramesOf(n - 1)) + Cardinality(fs) - Cardinality(FramesOf(n - 1) \cap fs)
    BY <2>1, <2>2, FS_Union
  <2>4. /\ Cardinality(FramesOf(n - 1)) \in Nat /\ Cardinality(fs) \in Nat
        /\ Cardinality(FramesOf(n - 1) \cap fs) \in Nat
    <3>1. IsFiniteSet(FramesOf(n - 1) \cap fs)
      BY <2>2, FS_Intersection
    <3> QED
      BY <2>2, <3>1, FS_CardinalityType
  <2>5. PFN_DOWN(e820[n].size) \in Nat
    BY <1>1, PageRounding
  <2> QED
    BY <1>4, <2>2, <2>3, <2>4, <2>5
<1> QED
  BY <1>3, <1>4

(* Raising max_page to the end of an entry keeps the frame below it a frame of RAM. *)
LEMMA EndIsTight ==
  ASSUME TypeInv, NEW k \in 1 .. Len(e820), RaisesMaxPfn(e820[k])
  PROVE  WholeRamFrame(PFN_DOWN(EntryEnd(e820[k])) - 1)
<1> DEFINE d == PFN_DOWN(EntryEnd(e820[k]))
           u == PFN_UP(e820[k].addr)
<1>1. e820[k].addr \in Nat /\ EntryEnd(e820[k]) \in Nat
  BY TypeFacts
<1>2. d \in Nat /\ u \in Nat /\ u < d /\ IsRam(e820[k])
  BY <1>1, PageRounding DEF RaisesMaxPfn
<1>3. \A f \in Nat : FrameWithin(f, e820[k].addr, EntryEnd(e820[k])) <=> u <= f /\ f < d
  BY <1>1, FramesBetween
<1> HIDE DEF d, u
<1>4. FrameWithin(d - 1, e820[k].addr, EntryEnd(e820[k]))
  BY <1>2, <1>3
<1>5. WholeRamFrame(d - 1)
  BY <1>2, <1>4 DEF WholeRamFrame
<1> QED
  BY <1>5 DEF d

LEMMA FiguresInit == Init => FiguresInv
BY DEF Init, MapInit, FiguresInv

LEMMA FiguresStep == TypeInv /\ FiguresInv /\ [Next]_vars => FiguresInv'
<1> SUFFICES ASSUME TypeInv, FiguresInv, [Next]_vars PROVE FiguresInv'
  OBVIOUS
<1>0. /\ e820 \in Seq(E820Entry) /\ Len(e820) \in Nat /\ i \in Nat \ {0}
      /\ total_pages \in Nat /\ max_page \in Nat
  BY DEF TypeInv, TypeOK, MapTypeOK
<1>1. ASSUME UNCHANGED e820
      PROVE  /\ \A n \in Nat : FramesOf(n)' = FramesOf(n)
             /\ \A f \in Nat : WholeRamFrame(f)' = WholeRamFrame(f)
  BY <1>1 DEF FramesOf, WholeRamFrame, IsRam, EntryEnd
<1>2. CASE add_memory_region
  BY <1>2 DEF FiguresInv, add_memory_region
<1>3. CASE MemoryRegionDone
  <2>1. FramesOf(0)' = {}
    BY DEF FramesOf
  <2>2. /\ pc' = "get_nr_pages" /\ i' = 1 /\ UNCHANGED <<e820, total_pages, max_page>>
        /\ max_page = 0 /\ total_pages = 0
    BY <1>3 DEF MemoryRegionDone, FiguresInv
  <2>3. i' - 1 = 0 /\ i' <= Len(e820') + 1
    BY <1>0, <2>2
  <2>4. IsFiniteSet(FramesOf(i - 1)') /\ Cardinality(FramesOf(i - 1)') = 0
    BY <2>1, <2>3, FS_EmptySet
  <2> QED
    BY <2>2, <2>3, <2>4 DEF FiguresInv
<1>4. CASE get_nr_pages
  <2>1. /\ pc = "get_nr_pages" /\ pc' = pc /\ i \in 1 .. Len(e820) /\ i' = i + 1
        /\ UNCHANGED <<e820, max_page>>
        /\ total_pages' = IF IsRam(e820[i]) THEN total_pages + PFN_DOWN(e820[i].size)
                                            ELSE total_pages
    BY <1>0, <1>4 DEF get_nr_pages
  <2>2. IsFiniteSet(FramesOf(i)) /\ Cardinality(FramesOf(i)) <= total_pages'
    BY <1>0, <2>1, FramesAdded DEF FiguresInv
  <2>3. i' - 1 = i /\ i' <= Len(e820') + 1
    BY <1>0, <2>1
  <2>4. FramesOf(i - 1)' = FramesOf(i)
    BY <2>1, <2>3 DEF FramesOf
  <2> QED
    BY <2>1, <2>2, <2>3, <2>4 DEF FiguresInv
<1>5. CASE NrPagesDone
  <2>1. /\ pc = "get_nr_pages" /\ pc' = "get_max_pfn" /\ i > Len(e820)
        /\ UNCHANGED <<e820, total_pages, max_page>>
    BY <1>5 DEF NrPagesDone
  <2>2. i - 1 = Len(e820) /\ max_page = 0
    BY <1>0, <2>1 DEF FiguresInv
  <2> QED
    BY <1>0, <1>1, <2>1, <2>2 DEF FiguresInv
<1>6. CASE get_max_pfn
  <2>1. /\ pc = "get_max_pfn" /\ pc' = pc /\ i \in 1 .. Len(e820)
        /\ UNCHANGED <<e820, total_pages>>
        /\ max_page' = IF RaisesMaxPfn(e820[i]) THEN PFN_DOWN(EntryEnd(e820[i])) ELSE max_page
    BY <1>0, <1>6 DEF get_max_pfn
  <2>2. max_page' > 0 => WholeRamFrame(max_page' - 1)
    <3>1. CASE RaisesMaxPfn(e820[i])
      BY <2>1, <3>1, EndIsTight
    <3>2. CASE ~ RaisesMaxPfn(e820[i])
      BY <2>1, <3>2 DEF FiguresInv
    <3> QED
      BY <3>1, <3>2
  <2>3. max_page' > 0 => WholeRamFrame(max_page - 1)'
    BY <2>1, <2>2 DEF WholeRamFrame
  <2> QED
    BY <1>0, <1>1, <2>1, <2>3 DEF FiguresInv
<1>7. CASE MaxPfnDone
  <2>1. pc = "get_max_pfn" /\ pc' = "copy_guest_image" /\ UNCHANGED <<e820, total_pages, max_page>>
    BY <1>7 DEF MaxPfnDone
  <2> QED
    BY <1>0, <1>1, <2>1 DEF FiguresInv
<1>8. CASE pc' \notin {"setup_memory_region", "get_nr_pages", "get_max_pfn", "copy_guest_image"}
  BY <1>8 DEF FiguresInv
<1>9. CASE UNCHANGED vars
  <2>1. UNCHANGED <<pc, i, e820, total_pages, max_page>>
    BY <1>9 DEF vars, mapVars
  <2> QED
    BY <1>0, <1>1, <2>1 DEF FiguresInv
<1> QED
  BY <1>2, <1>3, <1>4, <1>5, <1>6, <1>7, <1>8, <1>9
     DEF Next, MapNext, NoMemoryInformation, TooManyEntries, NoGuestImage, NoRoomForImage,
         copy_guest_image, NoHeapSpace, naive_allocator_init, init_alloc_bitmap,
         InitAllocBitmapDone, alloc_pages, alloc_boot_pages, OutOfPages, mapVars

LEMMA FiguresFollow ==
  TypeInv /\ SetupOrder /\ FiguresInv => FiguresFitTheMap
<1> SUFFICES ASSUME TypeInv, SetupOrder, FiguresInv, pc = "copy_guest_image"
             PROVE  MaxPageIsTight /\ TotalPagesCoversRam
  BY DEF FiguresFitTheMap
<1>1. max_page \in Nat /\ total_pages \in Nat
  BY DEF TypeInv, TypeOK, MapTypeOK
<1>2. ASSUME NEW k \in 1 .. Len(e820), IsRam(e820[k]), NEW f \in 0 .. EntryEnd(e820[k]),
             FrameWithin(f, e820[k].addr, EntryEnd(e820[k]))
      PROVE  f < max_page
  <2> DEFINE u == PFN_UP(e820[k].addr)
             d == PFN_DOWN(EntryEnd(e820[k]))
  <2>1. e820[k].addr \in Nat /\ EntryEnd(e820[k]) \in Nat /\ f \in Nat
    BY TypeFacts
  <2>2. u \in Nat /\ d \in Nat
    BY <2>1, PageRounding
  <2>3. u <= f /\ f < d
    BY <1>2, <2>1, FramesBetween
  <2>4. u < d => d <= max_page
    BY <1>2 DEF SetupOrder, EntryCovered
  <2> HIDE DEF u, d
  <2> QED
    BY <1>1, <2>1, <2>2, <2>3, <2>4
<1>3. MaxPageIsTight
  BY <1>2 DEF MaxPageIsTight, FiguresInv
<1>4. TotalPagesCoversRam
  <2>1. {f \in 0 .. max_page : WholeRamFrame(f)} \subseteq FramesOf(Len(e820))
    BY <1>1 DEF WholeRamFrame, FramesOf
  <2>2. /\ IsFiniteSet(FramesOf(Len(e820))) /\ Cardinality(FramesOf(Len(e820))) <= total_pages
    BY DEF FiguresInv
  <2>3. /\ Cardinality({f \in 0 .. max_page : WholeRamFrame(f)}) <= Cardinality(FramesOf(Len(e820)))
        /\ IsFiniteSet({f \in 0 .. max_page : WholeRamFrame(f)})
    BY <2>1, <2>2, FS_Subset
  <2>4. /\ Cardinality({f \in 0 .. max_page : WholeRamFrame(f)}) \in Nat
        /\ Cardinality(FramesOf(Len(e820))) \in Nat
    BY <2>2, <2>3, FS_CardinalityType
  <2> QED
    BY <1>1, <2>2, <2>3, <2>4 DEF TotalPagesCoversRam
<1> QED
  BY <1>3, <1>4

(* The table is the loader's area, record by record, for every packed area. *)
THEOREM TableCorrect == Spec => []TableIsTheArea
<1>1. IInv => TypeInv
  BY DEF IInv
<1>2. Spec => []AreaInv
  BY <1>1, AreaInit, AreaStep, Invariance, PTL DEF Spec
<1> QED
  BY <1>1, <1>2, AreaGivesTable, Invariance, PTL

(* max_page is the least bound of the whole frames in RAM and total_pages no less
   than their number, for every table. *)
THEOREM FiguresCorrect == Spec => []FiguresFitTheMap
<1>1. IInv => TypeInv /\ SetupOrder
  BY DEF IInv
<1>2. Spec => []FiguresInv
  BY <1>1, FiguresInit, FiguresStep, Invariance, PTL DEF Spec
<1> QED
  BY <1>1, <1>2, FiguresFollow, Invariance, PTL
=============================================================================
