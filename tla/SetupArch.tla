------------------------------ MODULE SetupArch ------------------------------
(***************************************************************************)
(* kernel/setup.c (setup_arch) with kernel/alloc.c (the naive allocator):  *)
(* the guest image is moved out of the way, the allocation bitmap is laid  *)
(* out behind the program and opened for the RAM nobody uses, and from     *)
(* then on alloc_pages serves the rest of the boot path.                   *)
(*                                                                         *)
(* The module continues MemoryMap: setup_arch runs on one processor with   *)
(* interrupts off, so its steps have one order.  In state "ready" any      *)
(* client may call alloc_pages with any of Requests; there is no operation *)
(* that gives pages back.                                                  *)
(***************************************************************************)
EXTENDS MemoryMap, AllocBitmap, MachineWords

CONSTANTS
  HeapEnd,      \* opt->vmm_heap_size, which setup_arch stores in vmm_heap_end
  KernelEnd,    \* PHYS (&_end): the first byte behind the loaded program
  MappedLimit,  \* the boot page table maps physical memory below it (1 GB)
  Requests      \* the <<nr_pfns, pfn_align>> clients pass to alloc_pages

ASSUME SetupArchAssumption ==
  /\ HeapEnd \in Nat
  /\ KernelEnd \in Nat
  /\ MappedLimit \in Nat
  /\ Requests \subseteq (Nat \ {0}) \X (Nat \ {0})

VARIABLES
  image,       \* pml->guest_image_start and pml->guest_image_size
  heap_start,  \* pml->vmm_heap_start: the end of the bitmap
  bitmap,      \* naive_allocator.alloc_bitmap
  handed       \* every run alloc_pages has returned, in order

allocVars == <<image, heap_start, bitmap, handed>>
vars == <<mapVars, allocVars>>

Init ==
  /\ MapInit
  /\ image = [start |-> 0, size |-> 0]
  /\ heap_start = 0
  /\ bitmap = << >>
  /\ handed = << >>

------------------------------------------------------------------------------
has_guest_image == "MBI_MODULES" \in mbi.flags /\ mbi.mods_count > 0

\* Faulty form: forgets the length.
RoomForNothing(e, len) == e.addr < HeapEnd /\ HeapEnd < EntryEnd(e)

(* The two places an entry offers, tried in this order. *)
RoomBehindHeap(e, len) == e.addr < HeapEnd /\ HeapEnd + len < EntryEnd(e)
AboveHeap(e) == e.addr >= HeapEnd

Suitable(e, len) ==
  /\ IsRam(e)
  /\ e.size >= len
  /\ RoomBehindHeap(e, len) \/ AboveHeap(e)

Place(e, len) == IF RoomBehindHeap(e, len) THEN HeapEnd ELSE e.addr

(* The first suitable entry in the order of the table wins. *)
FirstSuitable(k, len) ==
  /\ Suitable(e820[k], len)
  /\ \A j \in 1 .. k - 1 : ~ Suitable(e820[j], len)

(* memmove between mapped addresses; any other address faults, and nothing
   handles a page fault. *)
MoveFaults(start, size) == size > 0 /\ start + size > MappedLimit

(* copy_guest_image: "No guest operating system is specified." *)
NoGuestImage ==
  /\ pc = "copy_guest_image"
  /\ ~ has_guest_image
  /\ pc' = "dead"
  /\ UNCHANGED <<mbi, p, e820, i, total_pages, max_page, allocVars>>

(* find_memory_region_...: "Not enough memory to stash the guest kernel image." *)
NoRoomForImage ==
  /\ pc = "copy_guest_image"
  /\ has_guest_image
  /\ \A k \in 1 .. Len(e820) : ~ Suitable(e820[k], mbi.mod_size)
  /\ pc' = "dead"
  /\ image' = [start |-> image.start, size |-> mbi.mod_size]
  /\ UNCHANGED <<mbi, p, e820, i, total_pages, max_page, heap_start, bitmap, handed>>

(* The address goes through the int that find_memory_region_... returns. *)
copy_guest_image ==
  /\ pc = "copy_guest_image"
  /\ has_guest_image
  /\ \E k \in 1 .. Len(e820) :
       /\ FirstSuitable(k, mbi.mod_size)
       /\ LET start == ThroughInt(Place(e820[k], mbi.mod_size)) IN
          /\ image' = [start |-> start, size |-> mbi.mod_size]
          /\ pc' = IF MoveFaults(start, mbi.mod_size) THEN "dead" ELSE "naive_allocator_init"
  /\ UNCHANGED <<mbi, p, e820, i, total_pages, max_page, heap_start, bitmap, handed>>

------------------------------------------------------------------------------
alloc_bitmap_start == PAGE_UP(KernelEnd)

\* Faulty form: no longword of padding.
bitmap_size_unpadded == PAGE_UP(max_page \div ByteBits)

(* One bit per frame and a longword of padding for map_alloc and map_free. *)
bitmap_size == PAGE_UP((max_page \div ByteBits) + WordBytes)

(* naive_allocator_init: "No heap space." *)
NoHeapSpace ==
  /\ pc = "naive_allocator_init"
  /\ heap_start' = alloc_bitmap_start + bitmap_size
  /\ heap_start' >= HeapEnd
  /\ pc' = "dead"
  /\ UNCHANGED <<mbi, p, e820, i, total_pages, max_page, image, bitmap, handed>>

(* All allocated by default: the memset fills every word of bitmap_size bytes. *)
naive_allocator_init ==
  /\ pc = "naive_allocator_init"
  /\ heap_start' = alloc_bitmap_start + bitmap_size
  /\ heap_start' < HeapEnd
  /\ bitmap' = [k \in 0 .. (bitmap_size \div WordBytes) - 1 |-> Bits]
  /\ i' = 1
  /\ pc' = "init_alloc_bitmap"
  /\ UNCHANGED <<mbi, p, e820, total_pages, max_page, image, handed>>

\* Faulty form: one frame short.
__init_alloc_bitmap_short(tbl, from, to) ==
  LET start == PAGE_UP(from)
      end   == PAGE_DOWN(to)
  IN IF end <= start THEN tbl
     ELSE map_free(tbl, start \div PageSize, ((end - start) \div PageSize) - 1)

(* __init_alloc_bitmap: frees the whole frames between two addresses. *)
__init_alloc_bitmap(tbl, from, to) ==
  LET start == PAGE_UP(from)
      end   == PAGE_DOWN(to)
  IN IF end <= start THEN tbl
     ELSE map_free(tbl, start \div PageSize, (end - start) \div PageSize)

(* Skip the vmm heap, then the guest image when the rest of the entry meets it. *)
SkipHeap(s) == IF s < HeapEnd THEN HeapEnd ELSE s
guest_image_end == image.start + image.size
\* Faulty form: ignores the image.
SkipNothing(s, e) == s
SkipImage(s, e) ==
  IF s < guest_image_end /\ e > image.start THEN guest_image_end ELSE s

\* Faulty form: a reserved entry is never passed.
init_alloc_bitmap_stuck ==
  /\ pc = "init_alloc_bitmap"
  /\ i <= Len(e820)
  /\ IsRam(e820[i])
  /\ bitmap' = __init_alloc_bitmap(bitmap, SkipImage(SkipHeap(e820[i].addr), EntryEnd(e820[i])),
                                   EntryEnd(e820[i]))
  /\ i' = i + 1
  /\ UNCHANGED <<pc, mbi, p, e820, total_pages, max_page, image, heap_start, handed>>

(* One iteration of init_alloc_bitmap. *)
init_alloc_bitmap ==
  /\ pc = "init_alloc_bitmap"
  /\ i <= Len(e820)
  /\ bitmap' = IF IsRam(e820[i])
               THEN LET e == EntryEnd(e820[i])
                    IN __init_alloc_bitmap(bitmap, SkipImage(SkipHeap(e820[i].addr), e), e)
               ELSE bitmap
  /\ i' = i + 1
  /\ UNCHANGED <<pc, mbi, p, e820, total_pages, max_page, image, heap_start, handed>>

InitAllocBitmapDone ==
  /\ pc = "init_alloc_bitmap"
  /\ i > Len(e820)
  /\ pc' = "ready"
  /\ UNCHANGED <<mbi, p, e820, i, total_pages, max_page, allocVars>>

------------------------------------------------------------------------------
\* Faulty form: stops one start early.
CandidatesButLast(nr_pfns, pfn_align) ==
  {f \in 0 .. max_page : f % pfn_align = 0 /\ f + nr_pfns + 1 < max_page}

(* The starts alloc_boot_pages tries: i = 0, pfn_align, 2 * pfn_align, ...
   while i + nr_pfns < max_page. *)
Candidates(nr_pfns, pfn_align) ==
  {f \in 0 .. max_page : f % pfn_align = 0 /\ f + nr_pfns < max_page}

alloc_boot_pages(nr_pfns, pfn_align) ==
  /\ pc = "ready"
  /\ \E f \in Candidates(nr_pfns, pfn_align) :
       /\ is_free_contiguous_region(bitmap, f, nr_pfns)
       /\ \A g \in Candidates(nr_pfns, pfn_align) :
            g < f => ~ is_free_contiguous_region(bitmap, g, nr_pfns)
       /\ bitmap' = map_alloc(bitmap, f, nr_pfns)
       /\ handed' = Append(handed, [first |-> f, nr |-> nr_pfns])
  /\ UNCHANGED <<mapVars, image, heap_start>>

(* "alloc_boot_pages": no candidate is free. *)
OutOfPages(nr_pfns, pfn_align) ==
  /\ pc = "ready"
  /\ \A f \in Candidates(nr_pfns, pfn_align) : ~ is_free_contiguous_region(bitmap, f, nr_pfns)
  /\ pc' = "dead"
  /\ UNCHANGED <<mbi, p, e820, i, total_pages, max_page, allocVars>>

alloc_pages ==
  \E r \in Requests : alloc_boot_pages(r[1], r[2]) \/ OutOfPages(r[1], r[2])

Next ==
  \/ MapNext /\ UNCHANGED allocVars
  \/ NoGuestImage
  \/ NoRoomForImage
  \/ copy_guest_image
  \/ NoHeapSpace
  \/ naive_allocator_init
  \/ init_alloc_bitmap
  \/ InitAllocBitmapDone
  \/ alloc_pages

Spec == Init /\ [][Next]_vars

(* The processor keeps executing: the boot path takes its next step if it has one. *)
FairSpec == Spec /\ WF_vars(Next)

------------------------------------------------------------------------------
SetupPc ==
  MapPc \cup {"copy_guest_image", "naive_allocator_init", "init_alloc_bitmap", "ready", "dead"}

(* Every variable of the boot path keeps the type the code gives it. *)
TypeOK ==
  /\ MapTypeOK
  /\ pc \in SetupPc
  /\ image \in [start : Nat, size : Nat]
  /\ heap_start \in Nat
  /\ IsBitmap(bitmap)
  /\ handed \in Seq([first : Nat, nr : Nat \ {0}])

LaidOut == pc \in {"init_alloc_bitmap", "ready"}

BitmapWords == 0 .. (bitmap_size \div WordBytes) - 1

(***************************************************************************)
(* map_alloc and map_free never write, and alloc_boot_pages never reads, a *)
(* word outside the memory the bitmap was given: the longword of padding   *)
(* and get_max_pfn's bound are enough for every entry and request, and     *)
(* the last word ends below vmm_heap_start (alloc.c:46-94, 139-177).       *)
(***************************************************************************)
BitmapInBounds ==
  LaidOut =>
    /\ DOMAIN bitmap = BitmapWords
    /\ \A f \in 0 .. max_page : get_alloc_bitmap_idx(f) \in BitmapWords
    /\ \A k \in BitmapWords : alloc_bitmap_start + (k + 1) * WordBytes <= heap_start

HandedFrames == UNION {Run(handed[a].first, handed[a].nr) : a \in DOMAIN handed}

(***************************************************************************)
(* No frame is returned to two callers of alloc_pages, and none that was   *)
(* returned is still free in the bitmap (alloc.c:166-195).                 *)
(***************************************************************************)
HandedDisjoint ==
  /\ \A a, b \in DOMAIN handed : a # b =>
       Run(handed[a].first, handed[a].nr) \cap Run(handed[b].first, handed[b].nr) = {}
  /\ HandedFrames \cap FreeFrames(bitmap) = {}

(* The frame is RAM, above the heap, and holds no byte of the stashed image. *)
UsableFrame(f) ==
  /\ WholeRamFrame(f)
  /\ HeapEnd <= f * PageSize
  /\ ~ FrameTouches(f, image.start, guest_image_end)

(***************************************************************************)
(* A frame that alloc_pages returned, or may still return, is usable: it   *)
(* never belongs to a hole or a reserved entry, to the VMM's program, heap *)
(* or bitmap, or to the guest image that vm_create has yet to read         *)
(* (setup.c:94-98, alloc.c:96-137).                                        *)
(***************************************************************************)
HandedUsable == \A f \in HandedFrames \cup FreeFrames(bitmap) : UsableFrame(f)

(***************************************************************************)
(* Nothing usable is lost: once the bitmap is open every usable frame has  *)
(* been returned or can be found free in it (alloc.c:96-137).              *)
(***************************************************************************)
PoolComplete ==
  pc = "ready" =>
    \A f \in 0 .. max_page :
      UsableFrame(f) => f \in HandedFrames \cup FreeFrames(bitmap)

(* get_max_pfn has seen entry k: the whole frames of its RAM end below max_page. *)
EntryCovered(k) ==
  IsRam(e820[k]) /\ PFN_UP(e820[k].addr) < PFN_DOWN(EntryEnd(e820[k])) =>
    PFN_DOWN(EntryEnd(e820[k])) <= max_page

(***************************************************************************)
(* Why the bitmap is never overrun: the scan for max_page covers the       *)
(* entries one by one, what it established still holds when the bitmap is  *)
(* dimensioned with max_page, and nothing is handed out before the last    *)
(* entry has been opened (e820.c:86-107, alloc.c:109-164).                 *)
(***************************************************************************)
SetupOrder ==
  /\ pc = "get_max_pfn" => \A k \in 1 .. Len(e820) : k < i => EntryCovered(k)
  /\ pc \in {"copy_guest_image", "naive_allocator_init", "init_alloc_bitmap", "ready"} =>
       \A k \in 1 .. Len(e820) : EntryCovered(k)
  /\ pc \in MapPc \cup {"copy_guest_image", "naive_allocator_init"} => bitmap = << >>
  /\ pc \notin {"ready", "dead"} => handed = << >>
  /\ LaidOut =>
       /\ DOMAIN bitmap = BitmapWords
       /\ heap_start = alloc_bitmap_start + bitmap_size
       /\ heap_start < HeapEnd

(***************************************************************************)
(* "We need move a guest image to elsewhere since the page allocater may   *)
(* destroy the image" (setup.c:94-95): the copy lies inside one RAM entry, *)
(* above the heap and so off the program and the bitmap, and below the end *)
(* of the mapping it is written through.                                   *)
(***************************************************************************)
StashElsewhere ==
  pc \in {"naive_allocator_init", "init_alloc_bitmap", "ready"} /\ image.size > 0 =>
    /\ HeapEnd <= image.start
    /\ guest_image_end <= MappedLimit
    /\ \E k \in 1 .. Len(e820) :
         /\ IsRam(e820[k])
         /\ e820[k].addr <= image.start
         /\ guest_image_end <= EntryEnd(e820[k])

(***************************************************************************)
(* alloc_pages gives up only when no aligned run of frames that are usable *)
(* and not yet returned lies below the last frame of memory; that last     *)
(* frame it never considers (i + nr_pfns < max_page, alloc.c:185).         *)
(***************************************************************************)
FailsOnlyWhenFull ==
  [][\A r \in Requests :
       OutOfPages(r[1], r[2]) =>
         \A f \in 0 .. max_page :
           f % r[2] = 0 /\ f + r[1] < max_page =>
             \E g \in Run(f, r[1]) : ~ UsableFrame(g) \/ g \in HandedFrames]_vars

(* setup_arch always comes to an end: the walk over the loader's records and
   each scan of the table are finite (e820.c:56, 73, 92; alloc.c:114). *)
SetupEnds == <>(pc \in {"ready", "dead"})

(* The frames alloc_boot_pages can still reach: not the last one. *)
GrantableFrames == {f \in FreeFrames(bitmap) : f + 1 < max_page}

Abstract == INSTANCE FrameAllocator
              WITH Frames <- Nat, pool <- GrantableFrames, grants <- handed

(***************************************************************************)
(* Setup and allocation implement the abstract allocator: entries donate   *)
(* before the first request, and each request takes the lowest aligned run *)
(* of grantable frames (alloc.c:96-201).                                   *)
(***************************************************************************)
ImplementsFrameAllocator == Abstract!Spec
===============================================================================
