------------------------------ MODULE MemoryMap ------------------------------
(***************************************************************************)
(* kernel/e820.c: the first steps of setup_arch.  The boot loader leaves a *)
(* packed area of variable-sized records in memory; setup_memory_region    *)
(* walks it into the fixed-size table e820, and get_nr_pages and           *)
(* get_max_pfn scan the table for the two figures the page allocator is    *)
(* dimensioned with.                                                       *)
(*                                                                         *)
(* One step is one iteration of one of the three loops.  The control state *)
(* pc names the function that is running; "copy_guest_image" is where this *)
(* module ends and SetupArch takes over.  "dead" stands for fatal_failure: *)
(* it executes ud2a with no IDT loaded, from which no code resumes.        *)
(***************************************************************************)
EXTENDS PageMath, Sequences, FiniteSets

CONSTANTS
  E820_MAX_ENTRIES,  \* capacity of struct e820_map (128 in the code)
  SizeofSize,        \* sizeof (mmap->size), the field p skips besides the record
  MultibootInfos     \* the multiboot_info structures a boot loader may pass

E820_RAM == "E820_RAM"
E820_RESERVED == "E820_RESERVED"   \* any type but RAM

E820Entry == [addr : Nat, size : Nat, type : {E820_RAM, E820_RESERVED}]

(***************************************************************************)
(* The part of struct multiboot_info the boot path reads.  mmap maps the   *)
(* byte offset at which a record starts to that record, so that reading at *)
(* an offset outside DOMAIN mmap is reading something that is no record.   *)
(* A record carries its own length without the size field (rsize).         *)
(***************************************************************************)
MemoryRecord == [rsize : Nat, addr : Nat, size : Nat, type : {E820_RAM, E820_RESERVED}]

Packed(m) ==
  /\ DOMAIN m.mmap \subseteq 0 .. m.mmap_length - 1
  /\ m.mmap_length > 0 => 0 \in DOMAIN m.mmap
  /\ \A o \in DOMAIN m.mmap :
       LET next == o + m.mmap[o].rsize + SizeofSize IN
       /\ next = m.mmap_length \/ next \in DOMAIN m.mmap
       /\ \A q \in DOMAIN m.mmap : q <= o \/ q >= next

MultibootInfo(m) ==
  /\ m.flags \subseteq {"MBI_MEMMAP", "MBI_MODULES"}
  /\ m.mmap_length \in Nat
  /\ m.mods_count \in Nat
  /\ m.mod_size \in Nat
  /\ \A o \in DOMAIN m.mmap : m.mmap[o] \in MemoryRecord
  /\ Packed(m)

ASSUME MemoryMapAssumption ==
  /\ E820_MAX_ENTRIES \in Nat
  /\ SizeofSize \in Nat \ {0}
  /\ \A m \in MultibootInfos : MultibootInfo(m)

VARIABLES
  pc,           \* the function of the boot path that is running
  mbi,          \* the multiboot information, never written
  p,            \* offset of the record setup_memory_region reads next
  e820,         \* the entries of e820_map, e820.nr_map = Len(e820)
  i,            \* the loop index (1-based) of the running scan over e820
  total_pages,  \* pml->total_pages
  max_page      \* pml->max_page

mapVars == <<pc, mbi, p, e820, i, total_pages, max_page>>

IsRam(e) == e.type = E820_RAM
EntryEnd(e) == e.addr + e.size

(* Locals and *pml are uninitialized in C; each is assigned before its first use. *)
MapInit ==
  /\ pc = "setup_memory_region"
  /\ mbi \in MultibootInfos
  /\ p = 0
  /\ e820 = << >>
  /\ i = 1
  /\ total_pages = 0
  /\ max_page = 0

------------------------------------------------------------------------------
(* setup_memory_region: the loader gave no memory map. *)
NoMemoryInformation ==
  /\ pc = "setup_memory_region"
  /\ "MBI_MEMMAP" \notin mbi.flags
  /\ pc' = "dead"
  /\ UNCHANGED <<mbi, p, e820, i, total_pages, max_page>>

\* Faulty form: address and size exchanged.
EntrySwapped(r) == [addr |-> r.size, size |-> r.addr, type |-> r.type]

(* The entry add_memory_region makes of a record. *)
NewEntry(r) == [addr |-> r.addr, size |-> r.size, type |-> r.type]

(* From a record to the next: its own size does not count the size field. *)
Stride(r) == r.rsize + SizeofSize

(* add_memory_region and the advance of p past the record and its size field. *)
add_memory_region ==
  /\ pc = "setup_memory_region"
  /\ "MBI_MEMMAP" \in mbi.flags
  /\ p < mbi.mmap_length
  /\ Len(e820) < E820_MAX_ENTRIES
  /\ LET r == mbi.mmap[p] IN
     /\ e820' = Append(e820, NewEntry(r))
     /\ p' = p + Stride(r)
  /\ UNCHANGED <<pc, mbi, i, total_pages, max_page>>

(* add_memory_region: "Too many entries in the memory map." *)
TooManyEntries ==
  /\ pc = "setup_memory_region"
  /\ "MBI_MEMMAP" \in mbi.flags
  /\ p < mbi.mmap_length
  /\ Len(e820) >= E820_MAX_ENTRIES
  /\ pc' = "dead"
  /\ UNCHANGED <<mbi, p, e820, i, total_pages, max_page>>

(* The walk is over; setup_arch calls get_nr_pages. *)
MemoryRegionDone ==
  /\ pc = "setup_memory_region"
  /\ "MBI_MEMMAP" \in mbi.flags
  /\ p >= mbi.mmap_length
  /\ pc' = "get_nr_pages"
  /\ i' = 1
  /\ UNCHANGED <<mbi, p, e820, total_pages, max_page>>

(* One iteration of get_nr_pages: whole pages' worth of each RAM entry. *)
get_nr_pages ==
  /\ pc = "get_nr_pages"
  /\ i <= Len(e820)
  /\ total_pages' = IF IsRam(e820[i]) THEN total_pages + PFN_DOWN(e820[i].size)
                                      ELSE total_pages
  /\ i' = i + 1
  /\ UNCHANGED <<pc, mbi, p, e820, max_page>>

NrPagesDone ==
  /\ pc = "get_nr_pages"
  /\ i > Len(e820)
  /\ pc' = "get_max_pfn"
  /\ i' = 1
  /\ UNCHANGED <<mbi, p, e820, total_pages, max_page>>

\* Faulty form: does not ask for a whole frame.
RaisesMaxPfnByEnd(e) == IsRam(e) /\ PFN_DOWN(EntryEnd(e)) > max_page
(* The entry holds a whole frame and ends above every frame seen so far. *)
RaisesMaxPfn(e) ==
  /\ IsRam(e)
  /\ PFN_UP(e.addr) < PFN_DOWN(EntryEnd(e))
  /\ PFN_DOWN(EntryEnd(e)) > max_page

(* One iteration of get_max_pfn; max_page is its accumulator n. *)
get_max_pfn ==
  /\ pc = "get_max_pfn"
  /\ i <= Len(e820)
  /\ max_page' = IF RaisesMaxPfn(e820[i]) THEN PFN_DOWN(EntryEnd(e820[i])) ELSE max_page
  /\ i' = i + 1
  /\ UNCHANGED <<pc, mbi, p, e820, total_pages>>

(* setup_arch also sets vmm_heap_end here: SetupArch's constant HeapEnd. *)
MaxPfnDone ==
  /\ pc = "get_max_pfn"
  /\ i > Len(e820)
  /\ pc' = "copy_guest_image"
  /\ UNCHANGED <<mbi, p, e820, i, total_pages, max_page>>

MapNext ==
  \/ NoMemoryInformation
  \/ add_memory_region
  \/ TooManyEntries
  \/ MemoryRegionDone
  \/ get_nr_pages
  \/ NrPagesDone
  \/ get_max_pfn
  \/ MaxPfnDone

------------------------------------------------------------------------------
MapPc == {"setup_memory_region", "get_nr_pages", "get_max_pfn"}

(* Every variable of the scan keeps the type the code gives it. *)
MapTypeOK ==
  /\ MultibootInfo(mbi)
  /\ p \in Nat
  /\ e820 \in Seq(E820Entry)
  /\ i \in Nat \ {0}
  /\ total_pages \in Nat
  /\ max_page \in Nat

(***************************************************************************)
(* setup_memory_region never reads at an offset where no record starts:    *)
(* the stride mmap->size + sizeof (mmap->size) keeps p on record           *)
(* boundaries over records of different lengths (e820.c:56-64).            *)
(***************************************************************************)
CursorOnRecord ==
  p = mbi.mmap_length \/ p \in DOMAIN mbi.mmap

(***************************************************************************)
(* The table is the loader's area, record by record and in its order: the  *)
(* k-th entry is the record with k - 1 records before it, and once the     *)
(* scans start no record is missing (e820.c:10-23, 46-65).                 *)
(***************************************************************************)
TableIsTheArea ==
  LET read == {o \in DOMAIN mbi.mmap : o < p} IN
  /\ Len(e820) = Cardinality(read)
  /\ \A o \in read :
       LET e == e820[Cardinality({q \in read : q <= o})]
           r == mbi.mmap[o]
       IN e.addr = r.addr /\ e.size = r.size /\ e.type = r.type
  /\ pc \notin {"setup_memory_region", "dead"} => read = DOMAIN mbi.mmap

(* The frames that lie wholly inside one RAM entry: what can be allocated at all. *)
WholeRamFrame(f) ==
  \E k \in 1 .. Len(e820) :
    IsRam(e820[k]) /\ FrameWithin(f, e820[k].addr, EntryEnd(e820[k]))

(* max_page is the least bound of the whole RAM frames: each is below it and,
   unless there is none, the frame just below it is one. *)
MaxPageIsTight ==
  /\ \A k \in 1 .. Len(e820) : IsRam(e820[k]) =>
       \A f \in 0 .. EntryEnd(e820[k]) :
         FrameWithin(f, e820[k].addr, EntryEnd(e820[k])) => f < max_page
  /\ max_page > 0 => WholeRamFrame(max_page - 1)

TotalPagesCoversRam ==
  Cardinality({f \in 0 .. max_page : WholeRamFrame(f)}) <= total_pages

(***************************************************************************)
(* The two figures fit the map they were taken from, for entries that      *)
(* start and end anywhere and in any order: max_page is the least bound of *)
(* the frames that lie wholly in RAM, and total_pages is never less than   *)
(* their number, although it rounds each entry by its size and max_page by *)
(* its two ends (e820.c:67-107).                                           *)
(***************************************************************************)
FiguresFitTheMap == pc = "copy_guest_image" => MaxPageIsTight /\ TotalPagesCoversRam
===============================================================================
