---------------------------- MODULE BootPathProofs ----------------------------
(***************************************************************************)
(* Theorems about BootPath: what the theorems of SetupArch and of VmCreate *)
(* say of the two parts holds of the whole boot path.                      *)
(***************************************************************************)
EXTENDS BootPath, SetupArchProofs

(* What VmCreate may be handed: the theorems of VmCreateProofs hold of them all. *)
HandoverShape ==
  [pool : SUBSET (HeapEnd .. TopFrame), stash : Nat, image : {m[2] : m \in Modules},
   vmm : UNION {[D -> {<<"program">>, <<"bitmap">>}] : D \in SUBSET (SuperPageSize .. HeapEnd - 1)}]

PossibleHandovers ==
  {h \in HandoverShape :
     /\ VM!Stash(h) \subseteq HeapEnd .. TopFrame
     /\ h.pool \cap VM!Stash(h) = {}}

VMP == INSTANCE VmCreateProofs
         WITH pool <- GrantableFrames, grants <- handed, pc <- vpc, i <- vi,
              handover <- [pool |-> {}, stash |-> image.start, image |-> Image, vmm |-> ProgramAndBitmap],
              Handovers <- PossibleHandovers, Pools <- SUBSET (HeapEnd .. TopFrame),
              Mappings <- {}, MappedFrames <- MappedLimit

LEMMA SetupSteps == PathNext => [Next]_vars
<1> SUFFICES ASSUME PathNext PROVE [Next]_vars
  OBVIOUS
<1>1. CASE SetupStep
  BY <1>1 DEF SetupStep, Next
<1>2. CASE WithoutFrames \/ Afterwards
  BY <1>2 DEF WithoutFrames, Afterwards
<1>3. ASSUME NEW nr, NEW align, <<nr, align>> \in Requests,
             alloc_boot_pages(nr, align) \/ OutOfPages(nr, align)
      PROVE  alloc_pages
  <2>1. <<nr, align>>[1] = nr /\ <<nr, align>>[2] = align
    OBVIOUS
  <2> QED
    BY <1>3, <2>1 DEF alloc_pages
<1>4. CASE WithFrames \/ WithoutRun
  BY <1>3, <1>4, BootPathAssumption DEF WithFrames, WithoutRun, Next
<1> QED
  BY <1>1, <1>2, <1>4 DEF PathNext, PathStep

(* The boot path as a whole is a behaviour of setup_arch and its allocator. *)
THEOREM PathIsSetup == PathSpec => Spec
<1>1. PathInit => Init
  BY DEF PathInit
<1>2. [PathNext]_pathVars => [Next]_vars
  BY SetupSteps DEF pathVars
<1> QED
  BY <1>1, <1>2, PTL DEF PathSpec, Spec

(* The instance of the model and the instance of the proofs have the same steps. *)
LEMMA SameSteps ==
  /\ VM!Allocate => VMP!Allocate
  /\ VM!AllocationFails => VMP!AllocationFails
  /\ VM!set_state_save_area => VMP!set_state_save_area
  /\ VM!CreateNestedRoot => VMP!CreateNestedRoot
  /\ VM!create_vm_pmem_mapping_table => VMP!create_vm_pmem_mapping_table
  /\ VM!RunMmap => VMP!RunMmap
  /\ VM!MappingTableFails => VMP!MappingTableFails
  /\ VM!MappingTableDone => VMP!MappingTableDone
  /\ VM!load_elf_image => VMP!load_elf_image
  /\ VM!ElfImageLoaded => VMP!ElfImageLoaded
  /\ VM!create_temp_page_table => VMP!create_temp_page_table
  /\ VM!switch_to_guest_os => VMP!switch_to_guest_os
  /\ VM!GuestWrites => VMP!GuestWrites
  /\ VM!GuestExits => VMP!GuestExits
  /\ VM!handle_vmexit => VMP!handle_vmexit
<1>1. VM!Allocate => VMP!Allocate
  <2>1. VM!Callers = VMP!Callers
    BY DEF VM!Callers, VMP!Callers, VM!alloc_host_save_area, VMP!alloc_host_save_area,
       VM!alloc_vmcb, VMP!alloc_vmcb, VM!set_iopm, VMP!set_iopm, VM!set_msrpm, VMP!set_msrpm,
       VM!alloc_vm_pmem, VMP!alloc_vm_pmem, VM!create_intercept_table,
       VMP!create_intercept_table, VM!PAGE_SIZE, VMP!PAGE_SIZE
  <2>2. \A c, f : VM!Faults(c, f) = VMP!Faults(c, f)
    BY DEF VM!Faults, VMP!Faults
  <2>3. \A f, nr, align : VM!Allocator!GrantRun(f, nr, align) = VMP!Allocator!GrantRun(f, nr, align)
    BY DEF VM!Allocator!GrantRun, VMP!Allocator!GrantRun, VM!Allocator!Fits, VMP!Allocator!Fits
  <2>4. \A f, nr, content : VM!Filled(f, nr, content) = VMP!Filled(f, nr, content)
    BY DEF VM!Filled, VMP!Filled, VM!FramesOf, VMP!FramesOf
  <2> QED
    BY <2>1, <2>2, <2>3, <2>4 DEF VM!Allocate, VMP!Allocate
<1>2. VM!AllocationFails => VMP!AllocationFails
  <2>1. VM!Callers = VMP!Callers
    BY DEF VM!Callers, VMP!Callers, VM!alloc_host_save_area, VMP!alloc_host_save_area,
       VM!alloc_vmcb, VMP!alloc_vmcb, VM!set_iopm, VMP!set_iopm, VM!set_msrpm, VMP!set_msrpm,
       VM!alloc_vm_pmem, VMP!alloc_vm_pmem, VM!create_intercept_table,
       VMP!create_intercept_table, VM!PAGE_SIZE, VMP!PAGE_SIZE
  <2> QED
    BY <2>1 DEF VM!AllocationFails, VMP!AllocationFails, VM!Allocator!Exhausted,
       VMP!Allocator!Exhausted, VM!Allocator!GrantRun, VMP!Allocator!GrantRun, VM!Faults,
       VMP!Faults, VM!Allocator!Fits, VMP!Allocator!Fits
<1>3. VM!set_state_save_area => VMP!set_state_save_area
  BY DEF VM!set_state_save_area, VMP!set_state_save_area, VM!pageVars, VMP!pageVars
<1>4. VM!CreateNestedRoot => VMP!CreateNestedRoot
  BY DEF VM!CreateNestedRoot, VMP!CreateNestedRoot, VM!pml4_table_create, VMP!pml4_table_create,
     VM!TablesInMem, VMP!TablesInMem, VM!Granted, VMP!Granted, VM!Cleared, VMP!Cleared,
     VM!Allocator!GrantRun, VMP!Allocator!GrantRun, VM!ClearTable, VMP!ClearTable,
     VM!Allocator!Fits, VMP!Allocator!Fits, VM!Index, VMP!Index, VM!ClearEntry, VMP!ClearEntry
<1>5. VM!create_vm_pmem_mapping_table => VMP!create_vm_pmem_mapping_table
  BY DEF VM!create_vm_pmem_mapping_table, VMP!create_vm_pmem_mapping_table, VM!PFN_UP_2MB,
     VMP!PFN_UP_2MB, VM!is_reserved_pmem, VMP!is_reserved_pmem, VM!PFN_DOWN_2MB, VMP!PFN_DOWN_2MB,
     VM!mmap, VMP!mmap, VM!NestedRoot, VMP!NestedRoot, VM!ThroughInt, VMP!ThroughInt,
     VM!PGT_LEVEL_PML4, VMP!PGT_LEVEL_PML4
<1>6. VM!RunMmap => VMP!RunMmap
  BY DEF VM!RunMmap, VMP!RunMmap, VM!PageStep, VMP!PageStep, VM!TablesInMem, VMP!TablesInMem,
     VM!MapPage, VMP!MapPage, VM!Descend, VMP!Descend, VM!AddTable, VMP!AddTable, VM!PGT_LEVEL_PD,
     VMP!PGT_LEVEL_PD, VM!WalkIndex, VMP!WalkIndex, VM!entry_is_present, VMP!entry_is_present,
     VM!WalkEntry, VMP!WalkEntry, VM!Granted, VMP!Granted, VM!Cleared, VMP!Cleared, VM!get_index,
     VMP!get_index, VM!get_entry, VMP!get_entry, VM!Allocator!GrantRun, VMP!Allocator!GrantRun,
     VM!ClearTable, VMP!ClearTable, VM!Reach, VMP!Reach, VM!Allocator!Fits, VMP!Allocator!Fits,
     VM!Index, VMP!Index, VM!ClearEntry, VMP!ClearEntry, VM!PGT_LEVEL_PML4, VMP!PGT_LEVEL_PML4,
     VM!PGT_LEVEL_PDP, VMP!PGT_LEVEL_PDP
<1>7. VM!MappingTableFails => VMP!MappingTableFails
  BY DEF VM!MappingTableFails, VMP!MappingTableFails, VM!OutOfFrames, VMP!OutOfFrames,
     VM!TableFaults, VMP!TableFaults, VM!NeedsTable, VMP!NeedsTable, VM!Allocator!Exhausted,
     VMP!Allocator!Exhausted, VM!Granted, VMP!Granted, VM!PGT_LEVEL_PD, VMP!PGT_LEVEL_PD,
     VM!entry_is_present, VMP!entry_is_present, VM!WalkEntry, VMP!WalkEntry, VM!Allocator!Fits,
     VMP!Allocator!Fits, VM!Allocator!GrantRun, VMP!Allocator!GrantRun, VM!get_entry,
     VMP!get_entry, VM!get_index, VMP!get_index, VM!Reach, VMP!Reach, VM!PGT_LEVEL_PML4,
     VMP!PGT_LEVEL_PML4, VM!PGT_LEVEL_PDP, VMP!PGT_LEVEL_PDP
<1>8. VM!MappingTableDone => VMP!MappingTableDone
  BY DEF VM!MappingTableDone, VMP!MappingTableDone, VM!PFN_UP_2MB, VMP!PFN_UP_2MB, VM!NestedRoot,
     VMP!NestedRoot, VM!pageVars, VMP!pageVars
<1>9. VM!load_elf_image => VMP!load_elf_image
  BY DEF VM!load_elf_image, VMP!load_elf_image, VM!Phdrs, VMP!Phdrs, VM!is_loadable_phdr,
     VMP!is_loadable_phdr, VM!PmemFaults, VMP!PmemFaults, VM!SegmentLoaded, VMP!SegmentLoaded,
     VM!pageVars, VMP!pageVars, VM!FramesOf, VMP!FramesOf
<1>10. VM!ElfImageLoaded => VMP!ElfImageLoaded
  BY DEF VM!ElfImageLoaded, VMP!ElfImageLoaded, VM!Phdrs, VMP!Phdrs, VM!pageVars, VMP!pageVars
<1>11. VM!create_temp_page_table => VMP!create_temp_page_table
  BY DEF VM!create_temp_page_table, VMP!create_temp_page_table, VM!PmemFaults, VMP!PmemFaults,
     VM!FramesOf, VMP!FramesOf, VM!TempTableBase, VMP!TempTableBase, VM!TempTables,
     VMP!TempTables, VM!pageVars, VMP!pageVars, VM!ClearTable, VMP!ClearTable, VM!Index,
     VMP!Index, VM!ClearEntry, VMP!ClearEntry
<1>12. VM!switch_to_guest_os => VMP!switch_to_guest_os
  BY DEF VM!switch_to_guest_os, VMP!switch_to_guest_os, VM!pageVars, VMP!pageVars
<1>13. VM!GuestWrites => VMP!GuestWrites
  BY DEF VM!GuestWrites, VMP!GuestWrites, VM!HostFrames, VMP!HostFrames, VM!pageVars,
     VMP!pageVars, VM!Translation, VMP!Translation, VM!PageOf, VMP!PageOf, VM!PdEntries,
     VMP!PdEntries, VM!get_entry, VMP!get_entry, VM!PGT_LEVEL_PD, VMP!PGT_LEVEL_PD, VM!NextTable,
     VMP!NextTable, VM!PGT_LEVEL_PDP, VMP!PGT_LEVEL_PDP, VM!PGT_LEVEL_PML4, VMP!PGT_LEVEL_PML4,
     VM!entry_is_present, VMP!entry_is_present, VM!get_index, VMP!get_index, VM!Reach, VMP!Reach
<1>14. VM!GuestExits => VMP!GuestExits
  BY DEF VM!GuestExits, VMP!GuestExits, VM!pageVars, VMP!pageVars
<1>15. VM!handle_vmexit => VMP!handle_vmexit
  BY DEF VM!handle_vmexit, VMP!handle_vmexit, VM!pageVars, VMP!pageVars
<1> QED
  BY <1>1, <1>2, <1>3, <1>4, <1>5, <1>6, <1>7, <1>8, <1>9, <1>10, <1>11, <1>12, <1>13, <1>14,
     <1>15

(* They have the same properties, too. *)
LEMMA SameProperties ==
  /\ VMP!GuestStarts => VM!GuestStarts
  /\ VMP!GuestIsConfined => VM!GuestIsConfined
  /\ VMP!Owners = VM!Owners
<1>1. VMP!GuestStarts => VM!GuestStarts
  BY DEF VM!GuestStarts, VMP!GuestStarts, VM!GuestCanStart, VMP!GuestCanStart, VM!SegmentsInPlace,
     VMP!SegmentsInPlace, VM!GuestWalk, VMP!GuestWalk, VM!GuestReads, VMP!GuestReads,
     VM!AsPrescribed, VMP!AsPrescribed, VM!TempTableFrames, VMP!TempTableFrames, VM!GuestEntries,
     VMP!GuestEntries, VM!PGT_LEVEL_PML4, VMP!PGT_LEVEL_PML4, VM!PGT_LEVEL_PDP, VMP!PGT_LEVEL_PDP,
     VM!PGT_LEVEL_PD, VMP!PGT_LEVEL_PD, VM!HostFrames, VMP!HostFrames, VM!Phdrs, VMP!Phdrs,
     VM!is_loadable_phdr, VMP!is_loadable_phdr, VM!Target, VMP!Target, VM!Prescribed,
     VMP!Prescribed, VM!FramesOf, VMP!FramesOf, VM!get_index, VMP!get_index, VM!entry_is_present,
     VMP!entry_is_present, VM!Translation, VMP!Translation, VM!PageOf, VMP!PageOf, VM!Reach,
     VMP!Reach, VM!PdEntries, VMP!PdEntries, VM!get_entry, VMP!get_entry, VM!NextTable,
     VMP!NextTable
<1>2. VMP!GuestIsConfined => VM!GuestIsConfined
  BY DEF VM!GuestIsConfined, VMP!GuestIsConfined, VM!Built, VMP!Built, VM!Pages, VMP!Pages,
     VM!HostFrames, VMP!HostFrames, VM!VmmFrames, VMP!VmmFrames, VM!Translation, VMP!Translation,
     VM!PageOf, VMP!PageOf, VM!Stash, VMP!Stash, VM!GrantedFrames, VMP!GrantedFrames, VM!Owners,
     VMP!Owners, VM!PdEntries, VMP!PdEntries, VM!FramesOf, VMP!FramesOf, VM!get_entry,
     VMP!get_entry, VM!PGT_LEVEL_PD, VMP!PGT_LEVEL_PD, VM!NextTable, VMP!NextTable,
     VM!PGT_LEVEL_PDP, VMP!PGT_LEVEL_PDP, VM!PGT_LEVEL_PML4, VMP!PGT_LEVEL_PML4,
     VM!entry_is_present, VMP!entry_is_present, VM!get_index, VMP!get_index, VM!Reach, VMP!Reach
<1>3. VMP!Owners = VM!Owners
  BY DEF VM!Owners, VMP!Owners, VM!FramesOf, VMP!FramesOf
<1> QED
  BY <1>1, <1>2, <1>3

(* What VmCreateProofs assumes of the constants. *)
LEMMA VmAssumptions ==
  VMP!MachineWordsAssumption /\ VMP!PageTableAssumption /\ VMP!VmCreateAssumption
<1>1. VMP!PageTableAssumption
  BY BootPathAssumption, SetupArchAssumption DEF VM!PageTableAssumption, VMP!PageTableAssumption
<1>2. /\ PmemSize \in Nat /\ PmemSize % SuperPageSize = 0
      /\ PmemSize <= SuperPageSize * TableSize * TableSize * TableSize
      /\ HeapEnd \in Nat /\ HeapEnd >= SuperPageSize /\ TopFrame \in Nat /\ GuestFrames \subseteq Nat
  BY BootPathAssumption DEF VM!VmCreateAssumption
<1>3. ASSUME NEW h \in PossibleHandovers
      PROVE  /\ h.pool \in SUBSET (HeapEnd .. TopFrame)
             /\ h.pool \cup VMP!Stash(h) \subseteq HeapEnd .. TopFrame
             /\ h.pool \cap VMP!Stash(h) = {}
             /\ h.stash \in Nat
             /\ DOMAIN h.vmm \subseteq SuperPageSize .. HeapEnd - 1
             /\ h.image.size \in Nat
             /\ VMP!WellFormed(h.image)
  <2>1. PICK m \in Modules : h.image = m[2]
    BY <1>3 DEF PossibleHandovers, HandoverShape
  <2>2. VM!WellFormed(h.image) <=> VMP!WellFormed(h.image)
    BY DEF VM!WellFormed, VMP!WellFormed, VM!Segment, VMP!Segment, VM!Target, VMP!Target,
           VM!FramesOf, VMP!FramesOf
  <2>3. VM!WellFormed(h.image) /\ h.image.size \in Nat
    BY <2>1, BootPathAssumption
  <2>4. VMP!Stash(h) = VM!Stash(h)
    BY DEF VM!Stash, VMP!Stash, VM!FramesOf, VMP!FramesOf
  <2> QED
    BY <2>2, <2>4, <2>3 DEF PossibleHandovers, HandoverShape
<1>4. VMP!MachineWordsAssumption
  BY MachineWordsAssumption DEF VMP!MachineWordsAssumption
<1> QED
  BY <1>1, <1>2, <1>3, <1>4 DEF VMP!VmCreateAssumption

------------------------------------------------------------------------------
(***************************************************************************)
(* What the boot path takes on trust: the RAM of the memory map is         *)
(* physical memory, and the program ends below the heap's end.             *)
(***************************************************************************)
RamIsPhysical ==
  \A m \in MultibootInfos : \A o \in DOMAIN m.mmap :
    IsRam(m.mmap[o]) => EntryEnd(m.mmap[o]) <= TopFrame + 1
ProgramFits == KernelEnd <= HeapEnd

(* The RAM of the table is physical memory, and the loader put the module there. *)
LoaderInv ==
  /\ mbi \in MultibootInfos
  /\ \A k \in 1 .. Len(e820) : IsRam(e820[k]) => EntryEnd(e820[k]) <= TopFrame + 1
  /\ module \in Modules
  /\ KernelEnd <= ModuleStart
  /\ ModuleStart + Image.size <= TopFrame + 1
  /\ mbi.mod_size = Image.size
  /\ Stashed => image.size = mbi.mod_size

(* The module lies at start. *)
ModuleAt(start) == \A k \in 0 .. Image.size - 1 : mem[start + k] = <<"file", k>>

(* Until the bitmap is open vm_create has done nothing; the module is where the
   loader put it and then where copy_guest_image did. *)
BeforeInv ==
  /\ pc # "ready"
  /\ VMP!TreeInv /\ DOMAIN tables = {} /\ pml4s = {} /\ mode = "idle"
  /\ vpc = "alloc_host_save_area" /\ vi = 0 /\ vm = VMP!NewVm
  /\ DOMAIN mem = 0 .. TopFrame
  /\ \A f \in SuperPageSize .. KernelEnd - 1 : mem[f] = <<"program">>
  /\ pc = "init_alloc_bitmap" => \A f \in KernelEnd .. heap_start - 1 : mem[f] = <<"bitmap">>
  /\ pc # "dead" => ModuleAt(IF Stashed THEN image.start ELSE ModuleStart)

(* From then on vm_create runs, on what VmCreate says it is handed. *)
AfterInv ==
  /\ pc \in {"ready", "dead"}
  /\ pc = "dead" => vpc = "dead"
  /\ KernelEnd <= heap_start
  /\ VMP!VmInv

PathInv == BeforeInv \/ AfterInv

(* Stash and pool are as VmCreate wants them as soon as there is a stash. *)
PlacedInv ==
  Stashed =>
    /\ image.start \in Nat /\ image.size = Image.size
    /\ HeapEnd <= image.start /\ image.start + Image.size <= TopFrame + 1
    /\ StashFrames \subseteq HeapEnd .. TopFrame
    /\ GrantableFrames \subseteq HeapEnd .. TopFrame
    /\ GrantableFrames \cap StashFrames = {}

SetupInv == IInv /\ CompleteInv /\ LoaderInv

------------------------------------------------------------------------------
LEMMA PathFacts ==
  /\ PageSize = 1 /\ SuperPageSize \in Nat \ {0} /\ SuperPageSize <= KernelEnd
  /\ HeapEnd \in Nat /\ HeapEnd >= SuperPageSize /\ TopFrame \in Nat /\ KernelEnd \in Nat
  /\ \A m \in Modules : m[1] \in Nat /\ m[2].size \in Nat
<1>1. SuperPageSize \in Nat \ {0}
  BY VmAssumptions DEF VMP!PageTableAssumption
<1>2. HeapEnd >= SuperPageSize /\ TopFrame \in Nat
  BY BootPathAssumption DEF VM!VmCreateAssumption
<1> QED
  BY <1>1, <1>2, BootPathAssumption, SetupArchAssumption

(* With the frame as the unit of addresses nothing is rounded. *)
LEMMA Unrounded ==
  ASSUME NEW x \in Nat
  PROVE  PAGE_UP(x) = x
<1>1. PAGE_UP(x) \in Nat /\ x <= PAGE_UP(x) /\ PAGE_UP(x) < x + PageSize
  BY PageRounding
<1> QED
  BY <1>1, PathFacts

LEMMA BitmapBehindProgram ==
  ASSUME TypeInv
  PROVE  alloc_bitmap_start = KernelEnd /\ bitmap_size \in Nat
<1>1. alloc_bitmap_start = KernelEnd
  BY PathFacts, Unrounded DEF alloc_bitmap_start
<1>2. max_page \div ByteBits \in Nat /\ WordBytes \in Nat
  <2>1. max_page \in Nat /\ ByteBits \in Nat \ {0} /\ WordBytes \in Nat
    BY TypeFacts, AllocBitmapAssumption
  <2> QED
    BY <2>1, DivModExact
<1>3. (max_page \div ByteBits) + WordBytes \in Nat
  BY <1>2
<1> QED
  BY <1>1, <1>3, PageRounding DEF bitmap_size

(* The stash lies in physical memory above the heap. *)
LEMMA StashPlaced ==
  ASSUME TypeInv, StashInv, LoaderInv, Stashed
  PROVE  /\ image.start \in Nat /\ image.size = Image.size /\ Image.size \in Nat
         /\ HeapEnd <= image.start /\ image.start + image.size <= TopFrame + 1
         /\ StashFrames = image.start .. image.start + image.size - 1
         /\ StashFrames \subseteq HeapEnd .. TopFrame
<1>1. PICK k \in 1 .. Len(e820) : StashedIn(k)
  BY DEF StashInv, Stashed
<1>2. e820[k].addr \in Nat /\ image.start \in Nat /\ image.size \in Nat /\ HeapEnd \in Nat /\ TopFrame \in Nat
  BY TypeFacts, PathFacts
<1>3. HeapEnd <= image.start
  BY <1>1, <1>2 DEF StashedIn, SkipHeap
<1>4. image.start + image.size <= EntryEnd(e820[k]) /\ EntryEnd(e820[k]) <= TopFrame + 1
  BY <1>1 DEF StashedIn, guest_image_end, LoaderInv
<1>5. EntryEnd(e820[k]) \in Nat
  BY TypeFacts
<1>6. image.size = Image.size
  BY DEF LoaderInv
<1>7. StashFrames = image.start .. image.start + image.size - 1
  BY <1>6 DEF StashFrames, VM!Stash, VM!FramesOf
<1>8. image.start + image.size <= TopFrame + 1
  BY <1>2, <1>4, <1>5
<1> QED
  BY <1>2, <1>3, <1>6, <1>7, <1>8

(* The pool lies in physical memory above the heap and off the stash. *)
LEMMA PoolPlaced ==
  ASSUME TypeInv, HandedUsable, StashInv, LoaderInv, Stashed
  PROVE  /\ GrantableFrames \subseteq HeapEnd .. TopFrame
         /\ GrantableFrames \cap StashFrames = {}
<1> SUFFICES ASSUME NEW f \in GrantableFrames
             PROVE  f \in HeapEnd .. TopFrame /\ f \notin StashFrames
  OBVIOUS
<1>1. f \in Nat /\ UsableFrame(f)
  <2>1. f \in FreeFrames(bitmap) /\ IsBitmap(bitmap)
    BY TypeFacts DEF GrantableFrames
  <2> QED
    BY <2>1, FreeFramesByBit DEF HandedUsable, IsBitmap
<1>2. PICK k \in 1 .. Len(e820) : IsRam(e820[k]) /\ FrameWithin(f, e820[k].addr, EntryEnd(e820[k]))
  BY <1>1 DEF UsableFrame, WholeRamFrame
<1>3. EntryEnd(e820[k]) \in Nat /\ EntryEnd(e820[k]) <= TopFrame + 1
  BY <1>2, TypeFacts DEF LoaderInv
<1>4. f * PageSize = f /\ (f + 1) * PageSize = f + 1
  BY <1>1, PathFacts
<1>5. HeapEnd <= f /\ f + 1 <= EntryEnd(e820[k])
      /\ ~ (f < image.start + image.size /\ image.start < f + 1)
  BY <1>1, <1>2, <1>4 DEF UsableFrame, FrameWithin, FrameTouches, guest_image_end
<1> QED
  BY <1>1, <1>3, <1>5, StashPlaced, PathFacts

------------------------------------------------------------------------------
LEMMA InitPathInv ==
  ASSUME RamIsPhysical, ProgramFits, VMP!MachineIsLargeEnough, PathInit
  PROVE  LoaderInv /\ BeforeInv
<1>1. mbi \in MultibootInfos /\ pc = "setup_memory_region" /\ e820 = << >>
  BY DEF PathInit, Init, MapInit
<1>2. /\ module \in Modules /\ mbi.mod_size = Image.size
      /\ KernelEnd <= ModuleStart
      /\ ModuleStart \in Nat /\ Image.size \in Nat
  BY PathFacts DEF PathInit, LoadedIn, ModuleStart, Image
<1>3. ModuleStart + Image.size <= TopFrame + 1
  <2>1. PICK o \in DOMAIN mbi.mmap :
          IsRam(mbi.mmap[o]) /\ ModuleStart + Image.size <= EntryEnd(mbi.mmap[o])
    BY DEF PathInit, LoadedIn
  <2>2. EntryEnd(mbi.mmap[o]) <= TopFrame + 1
    BY <1>1, <2>1 DEF RamIsPhysical
  <2>3. EntryEnd(mbi.mmap[o]) \in Nat
    BY <1>1, MemoryMapAssumption DEF MultibootInfo, MemoryRecord, EntryEnd
  <2> QED
    BY <1>2, <2>1, <2>2, <2>3, PathFacts
<1>4. LoaderInv
  BY <1>1, <1>2, <1>3 DEF LoaderInv, Stashed
<1>5. VMP!TreeInv /\ DOMAIN tables = {} /\ pml4s = {} /\ mode = "idle"
  <2>1. VMP!PageInit
    <3>1. VM!PageInit
      BY DEF PathInit
    <3>2. {} \in SUBSET (HeapEnd .. TopFrame)
      OBVIOUS
    <3> QED
      BY <3>1, <3>2 DEF VM!PageInit, VMP!PageInit, VM!PGT_LEVEL_PML4, VMP!PGT_LEVEL_PML4,
         VM!Entry, VMP!Entry, VM!Index, VMP!Index
  <2>2. VMP!TreeInv
    <3>1. VMP!PageInv
      BY <2>1, VmAssumptions, VMP!InitEstablishesPageInv
    <3> QED
      BY <3>1 DEF VMP!PageInv
  <2> QED
    BY <2>1, <2>2 DEF VMP!PageInit
<1>6. vpc = "alloc_host_save_area" /\ vi = 0 /\ vm = VMP!NewVm
  BY DEF PathInit, VM!NewVm, VMP!NewVm
<1>7. /\ DOMAIN mem = 0 .. TopFrame
      /\ \A f \in 0 .. TopFrame :
           mem[f] = IF f \in VM!FramesOf(ModuleStart, Image.size) THEN <<"file", f - ModuleStart>>
                    ELSE IF f \in SuperPageSize .. KernelEnd - 1 THEN <<"program">>
                    ELSE <<"other">>
  BY DEF PathInit
<1>8. \A f \in SuperPageSize .. KernelEnd - 1 : mem[f] = <<"program">>
  <2>1. ASSUME NEW f \in SuperPageSize .. KernelEnd - 1
        PROVE  f \in 0 .. TopFrame /\ f \notin VM!FramesOf(ModuleStart, Image.size)
    BY <1>2, PathFacts DEF ProgramFits, VMP!MachineIsLargeEnough, VM!FramesOf
  <2> QED
    BY <1>7, <2>1
<1>9. ModuleAt(ModuleStart)
  <2>1. ASSUME NEW k \in 0 .. Image.size - 1
        PROVE  /\ ModuleStart + k \in 0 .. TopFrame
               /\ ModuleStart + k \in VM!FramesOf(ModuleStart, Image.size)
               /\ (ModuleStart + k) - ModuleStart = k
    BY <1>2, <1>3, PathFacts DEF VM!FramesOf
  <2> QED
    BY <1>7, <2>1 DEF ModuleAt
<1>10. BeforeInv
  BY <1>1, <1>5, <1>6, <1>7, <1>8, <1>9 DEF BeforeInv, Stashed
<1> QED
  BY <1>4, <1>10

(* The setup steps, without what they leave alone: each leads to the next. *)
LEMMA SetupOnward ==
  ASSUME SetupStep
  PROVE  /\ pc \notin {"ready", "dead"} /\ UNCHANGED vmPathVars
         /\ \/ /\ copy_guest_image /\ pc' = "naive_allocator_init"
               /\ mem' = ModuleCopied
            \/ naive_allocator_init /\ mem' = BitmapWritten
            \/ pc' = "dead" /\ UNCHANGED mem
            \/ ~ Stashed /\ pc' \notin {"naive_allocator_init", "init_alloc_bitmap", "ready"}
               /\ UNCHANGED mem
            \/ pc = "init_alloc_bitmap" /\ UNCHANGED <<pc, image, heap_start, mem>>
            \/ InitAllocBitmapDone /\ UNCHANGED mem
<1>1. CASE copy_guest_image /\ pc' # "dead" /\ mem' = ModuleCopied
  BY <1>1 DEF copy_guest_image, SetupStep
<1>2. CASE copy_guest_image /\ pc' = "dead" /\ UNCHANGED mem
  BY <1>2 DEF copy_guest_image, SetupStep
<1>3. CASE naive_allocator_init /\ mem' = BitmapWritten
  BY <1>3 DEF naive_allocator_init, SetupStep
<1>4. CASE MapNext /\ UNCHANGED allocVars /\ UNCHANGED mem
  <2>1. pc \in MapPc /\ (pc' = "dead" \/ pc' \in MapPc \cup {"copy_guest_image"})
    BY <1>4 DEF MapNext, NoMemoryInformation, add_memory_region, TooManyEntries, MemoryRegionDone,
           get_nr_pages, NrPagesDone, get_max_pfn, MaxPfnDone, MapPc
  <2> QED
    BY <1>4, <2>1 DEF MapPc, Stashed, SetupStep
<1>5. CASE (NoGuestImage \/ NoRoomForImage \/ NoHeapSpace) /\ UNCHANGED mem
  BY <1>5 DEF NoGuestImage, NoRoomForImage, NoHeapSpace, SetupStep
<1>6. CASE init_alloc_bitmap /\ UNCHANGED mem
  BY <1>6 DEF init_alloc_bitmap, SetupStep
<1>7. CASE InitAllocBitmapDone /\ UNCHANGED mem
  BY <1>7 DEF InitAllocBitmapDone, SetupStep
<1> QED
  BY <1>1, <1>2, <1>3, <1>4, <1>5, <1>6, <1>7 DEF SetupStep

(* mbi and module are never written, and the table gets records of mbi only. *)
LEMMA StepKeepsLoaderInv ==
  ASSUME RamIsPhysical, TypeInv, LoaderInv, [PathNext]_pathVars
  PROVE  LoaderInv'
<1>1. [Next]_vars
  BY SetupSteps DEF pathVars
<1>2. mbi' = mbi
  BY <1>1, TableSteps DEF add_memory_region
<1>3. module' = module
  BY DEF PathNext, PathStep, SetupStep, WithoutFrames, WithFrames, WithoutRun, Afterwards,
         pathVars, vmPathVars
<1>4. \A k \in 1 .. Len(e820)' : IsRam(e820[k])' => (EntryEnd(e820[k]) <= TopFrame + 1)'
  <2>1. CASE UNCHANGED e820
    BY <2>1 DEF LoaderInv, IsRam, EntryEnd
  <2>2. CASE add_memory_region
    <3>1. /\ e820' = Append(e820, NewEntry(mbi.mmap[p])) /\ e820 \in Seq(E820Entry)
          /\ MultibootInfo(mbi) /\ CursorOnRecord /\ p < mbi.mmap_length /\ p \in Nat
      BY <2>2 DEF add_memory_region, TypeInv, TypeOK, MapTypeOK
    <3>2. p \in DOMAIN mbi.mmap
      BY <3>1 DEF MultibootInfo, CursorOnRecord
    <3>3. ASSUME NEW k \in 1 .. Len(e820'), IsRam(e820'[k])
          PROVE  EntryEnd(e820'[k]) <= TopFrame + 1
      <4>1. CASE k \in 1 .. Len(e820)
        <5>1. e820'[k] = e820[k]
          BY <3>1, <4>1
        <5> QED
          BY <3>3, <4>1, <5>1 DEF LoaderInv
      <4>2. CASE k = Len(e820) + 1
        <5>1. e820'[k] = NewEntry(mbi.mmap[p])
          BY <3>1, <4>2
        <5>2. EntryEnd(e820'[k]) = EntryEnd(mbi.mmap[p]) /\ IsRam(mbi.mmap[p])
          BY <3>3, <5>1 DEF NewEntry, EntryEnd, IsRam
        <5> QED
          BY <3>2, <5>2 DEF RamIsPhysical, LoaderInv
      <4> QED
        BY <3>1, <4>1, <4>2
    <3> QED
      BY <3>3 DEF IsRam, EntryEnd
  <2> QED
    BY <1>1, <2>1, <2>2, TableSteps
<1>5. Stashed' => image'.size = mbi.mod_size
  <2>1. CASE Stashed
    BY <1>1, <2>1, StashStays DEF Stashed, LoaderInv
  <2>2. CASE copy_guest_image
    BY <2>2 DEF copy_guest_image
  <2>3. ASSUME ~ Stashed, ~ copy_guest_image
        PROVE  ~ Stashed'
    BY <1>1, <2>3 DEF Stashed, Next, vars, mapVars, MapNext, NoMemoryInformation, add_memory_region,
       TooManyEntries, MemoryRegionDone, get_nr_pages, NrPagesDone, get_max_pfn, MaxPfnDone,
       NoGuestImage, NoRoomForImage, NoHeapSpace, naive_allocator_init,
       init_alloc_bitmap, InitAllocBitmapDone, alloc_pages, alloc_boot_pages, OutOfPages
  <2> QED
    BY <2>1, <2>2, <2>3
<1> QED
  BY <1>2, <1>3, <1>4, <1>5 DEF LoaderInv, ModuleStart, Image, Stashed

LEMMA SetupInvPlaces ==
  ASSUME SetupInv
  PROVE  PlacedInv
BY StashPlaced, PoolPlaced DEF SetupInv, IInv, PoolInv, CompleteInv, PlacedInv

LEMMA PlacedAlways ==
  ASSUME RamIsApart, AddressesFitInt, RamIsPhysical, ProgramFits, VMP!MachineIsLargeEnough
  PROVE  PathSpec => [](SetupInv /\ PlacedInv)
<1>1. Spec => [](IInv /\ CompleteInv)
  BY CompleteAlways
<1>2. PathInit => LoaderInv
  BY InitPathInv
<1>3. IInv /\ CompleteInv /\ LoaderInv /\ [PathNext]_pathVars => LoaderInv'
  BY StepKeepsLoaderInv DEF IInv
<1>4. IInv /\ CompleteInv /\ LoaderInv => SetupInv /\ PlacedInv
  BY SetupInvPlaces DEF SetupInv
<1>5. PathSpec => Spec
  BY PathIsSetup
<1>6. PathSpec => PathInit /\ [][PathNext]_pathVars
  BY DEF PathSpec
<1> QED
  BY <1>1, <1>2, <1>3, <1>4, <1>5, <1>6, PTL

------------------------------------------------------------------------------
(* vm_create waits for setup_arch. *)
LEMMA BeforeSteps ==
  ASSUME BeforeInv, [PathNext]_pathVars
  PROVE  SetupStep \/ UNCHANGED pathVars
<1>1. pc # "ready" /\ vpc = "alloc_host_save_area"
  BY DEF BeforeInv
<1>2. ~ WithoutFrames
  BY <1>1 DEF WithoutFrames
<1>3. ~ WithFrames
  BY <1>1 DEF WithFrames, alloc_boot_pages
<1>4. ~ WithoutRun
  BY <1>1 DEF WithoutRun, OutOfPages
<1>5. ~ Afterwards
  BY <1>1 DEF Afterwards, VM!GuestWrites, VM!GuestExits, VM!handle_vmexit
<1> QED
  BY <1>2, <1>3, <1>4, <1>5 DEF PathNext, PathStep

(* The copy lands above the heap, and holds the module wherever that was. *)
LEMMA CopyKeepsBefore ==
  ASSUME ProgramFits, SetupInv, PlacedInv', BeforeInv, SetupStep,
         copy_guest_image, pc' = "naive_allocator_init", mem' = ModuleCopied
  PROVE  BeforeInv'
<1>1. UNCHANGED <<module, tables, pml4s, mode, walk, vpc, vi, vm>>
  BY SetupOnward DEF vmPathVars
<1>2. /\ image'.start \in Nat /\ HeapEnd <= image'.start
      /\ image'.start + Image.size <= TopFrame + 1 /\ Image.size \in Nat /\ ModuleStart \in Nat
  BY <1>1, PathFacts DEF PlacedInv, Stashed, Image, ModuleStart, SetupInv, LoaderInv
<1>3. ModuleAt(ModuleStart) /\ DOMAIN mem = 0 .. TopFrame
      /\ \A f \in SuperPageSize .. KernelEnd - 1 : mem[f] = <<"program">>
  BY DEF BeforeInv, Stashed, copy_guest_image
<1>4. \A f \in 0 .. TopFrame :
        mem'[f] = IF f \in image'.start .. image'.start + Image.size - 1
                  THEN mem[ModuleStart + (f - image'.start)] ELSE mem[f]
  BY <1>3 DEF ModuleCopied, VM!FramesOf
<1>5. DOMAIN mem' = 0 .. TopFrame
  BY <1>3 DEF ModuleCopied
<1>6. ASSUME NEW k \in 0 .. Image.size - 1
      PROVE  mem'[image'.start + k] = <<"file", k>>
  <2>1. /\ image'.start + k \in 0 .. TopFrame
        /\ image'.start + k \in image'.start .. image'.start + Image.size - 1
        /\ (image'.start + k) - image'.start = k
    BY <1>2, PathFacts
  <2> QED
    BY <1>3, <1>4, <2>1 DEF ModuleAt
<1>7. ASSUME NEW f \in SuperPageSize .. KernelEnd - 1
      PROVE  mem'[f] = <<"program">>
  <2>1. f \in 0 .. TopFrame
    BY <1>3, <1>2, PathFacts DEF ProgramFits
  <2>2. f \notin image'.start .. image'.start + Image.size - 1
    BY <1>2, PathFacts DEF ProgramFits
  <2> QED
    BY <1>3, <1>4, <2>1, <2>2
<1>8. VMP!TreeInv'
  BY <1>1, VmAssumptions, VMP!WalkStops DEF BeforeInv
<1>9. pc' = "naive_allocator_init" /\ ModuleAt(image.start)'
  BY <1>1, <1>6 DEF ModuleAt, Image
<1> QED
  BY <1>1, <1>5, <1>7, <1>8, <1>9 DEF BeforeInv, Stashed, VMP!NewVm

(* The bitmap lands between the program and the heap's end. *)
LEMMA BitmapKeepsBefore ==
  ASSUME ProgramFits, SetupInv, PlacedInv, BeforeInv, SetupStep,
         naive_allocator_init, mem' = BitmapWritten
  PROVE  BeforeInv'
<1> DEFINE e == heap_start'
<1>1. UNCHANGED <<module, tables, pml4s, mode, walk, vpc, vi, vm>>
  BY SetupOnward DEF vmPathVars
<1>2. UNCHANGED image /\ pc' = "init_alloc_bitmap" /\ pc = "naive_allocator_init"
      /\ e = alloc_bitmap_start + bitmap_size /\ e < HeapEnd
  BY DEF naive_allocator_init
<1>3. alloc_bitmap_start = KernelEnd /\ bitmap_size \in Nat
  BY BitmapBehindProgram DEF SetupInv, IInv
<1>4. /\ image.start \in Nat /\ HeapEnd <= image.start
      /\ image.start + Image.size <= TopFrame + 1 /\ Image.size \in Nat
  BY <1>2, PathFacts DEF PlacedInv, Stashed, Image, SetupInv, LoaderInv
<1>5. ModuleAt(image.start) /\ DOMAIN mem = 0 .. TopFrame
      /\ \A f \in SuperPageSize .. KernelEnd - 1 : mem[f] = <<"program">>
  BY <1>2 DEF BeforeInv, Stashed
<1> HIDE DEF e
<1>6. \A f \in 0 .. TopFrame :
        mem'[f] = IF f \in KernelEnd .. e - 1 THEN <<"bitmap">> ELSE mem[f]
  <2>1. /\ alloc_bitmap_start = KernelEnd /\ alloc_bitmap_start + bitmap_size = e
        /\ KernelEnd \in Nat /\ bitmap_size \in Nat /\ e \in Nat
    BY <1>2, <1>3, PathFacts
  <2>2. \A f \in 0 .. TopFrame :
          mem'[f] = IF f \in alloc_bitmap_start .. alloc_bitmap_start + bitmap_size - 1
                    THEN <<"bitmap">> ELSE mem[f]
    BY <1>5 DEF BitmapWritten
  <2> QED
    BY <2>1, <2>2
<1>7. DOMAIN mem' = 0 .. TopFrame
  BY <1>5 DEF BitmapWritten
<1>8. KernelEnd \in Nat /\ SuperPageSize \in Nat /\ HeapEnd \in Nat /\ TopFrame \in Nat
      /\ e \in Nat /\ e < HeapEnd
  BY <1>2, <1>3, PathFacts
<1>9. ASSUME NEW k \in 0 .. Image.size - 1
      PROVE  mem'[image.start + k] = <<"file", k>>
  <2>1. image.start + k \in 0 .. TopFrame /\ image.start + k \notin KernelEnd .. e - 1
    BY <1>4, <1>8
  <2> QED
    BY <1>5, <1>6, <2>1 DEF ModuleAt
<1>10. HeapEnd <= TopFrame + 1
  BY <1>4, <1>8
<1>11. ASSUME NEW f \in SuperPageSize .. KernelEnd - 1
       PROVE  mem'[f] = <<"program">>
  <2>1. f \in 0 .. TopFrame /\ f \notin KernelEnd .. e - 1
    BY <1>8, <1>10 DEF ProgramFits
  <2> QED
    BY <1>5, <1>6, <2>1
<1>12. ASSUME NEW f \in KernelEnd .. e - 1
       PROVE  mem'[f] = <<"bitmap">>
  <2>1. f \in 0 .. TopFrame
    BY <1>8, <1>10
  <2> QED
    BY <1>6, <2>1
<1>13. VMP!TreeInv'
  BY <1>1, VmAssumptions, VMP!WalkStops DEF BeforeInv
<1>14. ModuleAt(image.start)'
  BY <1>1, <1>2, <1>9 DEF ModuleAt, Image
<1> QED
  BY <1>1, <1>2, <1>7, <1>11, <1>12, <1>13, <1>14 DEF BeforeInv, Stashed, VMP!NewVm, e

(* The last step of setup_arch hands over what VmCreate says it starts from. *)
LEMMA HandoverFresh ==
  ASSUME ProgramFits, SetupInv, PlacedInv, BeforeInv, InitAllocBitmapDone
  PROVE  VMP!Fresh /\ KernelEnd <= heap_start
<1>1. pc = "init_alloc_bitmap" /\ Stashed
  BY DEF InitAllocBitmapDone, Stashed
<1>2. handed = << >> /\ heap_start = alloc_bitmap_start + bitmap_size /\ heap_start < HeapEnd
  BY <1>1 DEF SetupInv, IInv, SetupOrder, LaidOut
<1>3. heap_start \in Nat /\ KernelEnd <= heap_start
  BY <1>2, BitmapBehindProgram, PathFacts DEF SetupInv, IInv
<1> DEFINE h == [pool |-> {}, stash |-> image.start, image |-> Image, vmm |-> ProgramAndBitmap]
<1>4. h \in PossibleHandovers
  <2>1. Image \in {m[2] : m \in Modules} /\ image.start \in Nat
    BY <1>1 DEF Image, SetupInv, LoaderInv, PlacedInv
  <2>2. ProgramAndBitmap \in
          UNION {[D -> {<<"program">>, <<"bitmap">>}] : D \in SUBSET (SuperPageSize .. HeapEnd - 1)}
    <3>1. SuperPageSize .. heap_start - 1 \in SUBSET (SuperPageSize .. HeapEnd - 1)
      BY <1>2, <1>3, PathFacts
    <3>2. ProgramAndBitmap \in [SuperPageSize .. heap_start - 1 -> {<<"program">>, <<"bitmap">>}]
      BY DEF ProgramAndBitmap
    <3> QED
      BY <3>1, <3>2
  <2>3. h \in HandoverShape
    BY <2>1, <2>2 DEF HandoverShape
  <2>4. VM!Stash(h) \subseteq HeapEnd .. TopFrame
    BY <1>1 DEF PlacedInv, StashFrames, VM!Stash
  <2> QED
    BY <2>3, <2>4 DEF PossibleHandovers
<1>5. VMP!Stash(h) = StashFrames
  BY DEF StashFrames, VM!Stash, VMP!Stash, VM!FramesOf, VMP!FramesOf
<1>6. GrantableFrames \subseteq HeapEnd .. TopFrame /\ GrantableFrames \cap VMP!Stash(h) = {}
  BY <1>1, <1>5 DEF PlacedInv
<1>7. \A f \in DOMAIN h.vmm : mem[f] = h.vmm[f]
  <2>1. ASSUME NEW f \in SuperPageSize .. heap_start - 1
        PROVE  mem[f] = ProgramAndBitmap[f]
    <3>1. CASE f < KernelEnd
      <4>1. f \in SuperPageSize .. KernelEnd - 1
        BY <1>3, <3>1, PathFacts
      <4> QED
        BY <3>1, <4>1 DEF ProgramAndBitmap, BeforeInv
    <3>2. CASE ~ (f < KernelEnd)
      <4>1. f \in KernelEnd .. heap_start - 1
        BY <1>3, <3>2, PathFacts
      <4> QED
        BY <1>1, <3>2, <4>1 DEF ProgramAndBitmap, BeforeInv
    <3> QED
      BY <3>1, <3>2
  <2>2. DOMAIN ProgramAndBitmap = SuperPageSize .. heap_start - 1
    BY DEF ProgramAndBitmap
  <2> QED
    BY <2>1, <2>2
<1>8. \A f \in VMP!Stash(h) : mem[f] = <<"file", f - h.stash>>
  <2>1. ModuleAt(image.start) /\ image.start \in Nat /\ Image.size \in Nat
    BY <1>1, PathFacts DEF BeforeInv, PlacedInv, Image, SetupInv, LoaderInv
  <2>2. ASSUME NEW f \in image.start .. image.start + Image.size - 1
        PROVE  mem[f] = <<"file", f - image.start>>
    <3>1. f - image.start \in 0 .. Image.size - 1 /\ image.start + (f - image.start) = f
      BY <2>1
    <3> QED
      BY <2>1, <3>1 DEF ModuleAt
  <2>3. VMP!Stash(h) = image.start .. image.start + Image.size - 1
    BY DEF VMP!Stash, VMP!FramesOf
  <2> QED
    BY <2>2, <2>3
<1> QED
  BY <1>2, <1>3, <1>4, <1>6, <1>7, <1>8 DEF VMP!Fresh, BeforeInv

LEMMA HandoverMade ==
  ASSUME ProgramFits, VMP!MachineIsLargeEnough, SetupInv, PlacedInv, BeforeInv, SetupStep,
         InitAllocBitmapDone, UNCHANGED mem
  PROVE  AfterInv'
<1>1. VMP!Fresh /\ KernelEnd <= heap_start
  BY HandoverFresh
<1>2. VMP!VmInv
  BY <1>1, VmAssumptions, VMP!FreshVmInv
<1>3. UNCHANGED VMP!vars
  <2>1. UNCHANGED <<module, tables, pml4s, mode, walk, vpc, vi, vm>>
    BY SetupOnward DEF vmPathVars
  <2>2. UNCHANGED <<max_page, image, heap_start, bitmap, handed>>
    BY DEF InitAllocBitmapDone, allocVars
  <2> QED
    BY <2>1, <2>2 DEF VMP!vars, VMP!pageVars, VMP!vmVars, GrantableFrames, ProgramAndBitmap, Image
<1>4. VMP!VmInv'
  BY <1>2, <1>3, VmAssumptions, VMP!StepKeepsVmInv
<1> QED
  BY <1>1, <1>4 DEF AfterInv, InitAllocBitmapDone, allocVars

LEMMA SetupKeepsPath ==
  ASSUME ProgramFits, VMP!MachineIsLargeEnough, SetupInv, PlacedInv, PlacedInv', BeforeInv,
         SetupStep
  PROVE  PathInv'
<1>1. UNCHANGED <<module, tables, pml4s, mode, walk, vpc, vi, vm>>
  BY SetupOnward DEF vmPathVars
<1>2. VMP!TreeInv'
  BY <1>1, VmAssumptions, VMP!WalkStops DEF BeforeInv
<1>3. CASE copy_guest_image /\ pc' = "naive_allocator_init" /\ mem' = ModuleCopied
  BY <1>3, CopyKeepsBefore DEF PathInv
<1>4. CASE naive_allocator_init /\ mem' = BitmapWritten
  BY <1>4, BitmapKeepsBefore DEF PathInv
<1>5. CASE pc' = "dead" /\ UNCHANGED mem
  BY <1>1, <1>2, <1>5 DEF BeforeInv, VMP!NewVm, PathInv
<1>6. CASE ~ Stashed /\ pc' \notin {"naive_allocator_init", "init_alloc_bitmap", "ready"}
           /\ UNCHANGED mem
  <2>1. pc # "dead"
    BY SetupOnward
  <2>2. ~ Stashed' /\ pc' # "ready" /\ pc' # "init_alloc_bitmap"
    BY <1>6 DEF Stashed
  <2>3. ModuleAt(ModuleStart)'
    BY <1>1, <1>6, <2>1 DEF BeforeInv, ModuleAt, ModuleStart, Image
  <2> QED
    BY <1>1, <1>2, <1>6, <2>2, <2>3 DEF BeforeInv, VMP!NewVm, PathInv
<1>7. CASE pc = "init_alloc_bitmap" /\ UNCHANGED <<pc, image, heap_start, mem>>
  <2>1. Stashed /\ Stashed'
    BY <1>7 DEF Stashed
  <2>2. ModuleAt(image.start)'
    BY <1>1, <1>7, <2>1 DEF BeforeInv, ModuleAt, Image
  <2> QED
    BY <1>1, <1>2, <1>7, <2>1, <2>2 DEF BeforeInv, VMP!NewVm, PathInv
<1>8. CASE InitAllocBitmapDone /\ UNCHANGED mem
  BY <1>8, HandoverMade DEF PathInv
<1> QED
  BY <1>3, <1>4, <1>5, <1>6, <1>7, <1>8, SetupOnward

(* Once the bitmap is open each step is one of vm_create or of the guest. *)
LEMMA AfterSteps ==
  ASSUME AfterInv, [PathNext]_pathVars
  PROVE  /\ [VMP!Next]_(VMP!vars)
         /\ UNCHANGED heap_start
         /\ pc' \in {"ready", "dead"} /\ (pc' = "dead" => vpc' = "dead")
<1>1. ~ SetupStep
  BY SetupOnward DEF AfterInv
<1>2. CASE UNCHANGED pathVars
  BY <1>2 DEF pathVars, vars, mapVars, allocVars, vmPathVars, AfterInv, VMP!vars, VMP!pageVars,
     VMP!vmVars, GrantableFrames, ProgramAndBitmap, Image
<1>3. CASE WithoutFrames
  <2>1. VMP!Next
    BY <1>3, SameSteps DEF WithoutFrames, VMP!Next, VMP!BootStep
  <2> QED
    BY <1>3, <2>1 DEF WithoutFrames, vars, mapVars, allocVars
<1>4. CASE WithFrames
  <2>1. VMP!Next
    BY <1>4, SameSteps DEF WithFrames, VMP!Next, VMP!BootStep
  <2>2. UNCHANGED <<pc, heap_start>> /\ pc = "ready"
    BY <1>4 DEF WithFrames, alloc_boot_pages, mapVars
  <2> QED
    BY <2>1, <2>2
<1>5. CASE WithoutRun
  <2>1. VMP!Next
    BY <1>5, SameSteps DEF WithoutRun, VMP!Next, VMP!BootStep
  <2>2. UNCHANGED heap_start /\ pc' = "dead"
    BY <1>5 DEF WithoutRun, OutOfPages, allocVars
  <2>3. vpc' = "dead"
    BY <1>5 DEF WithoutRun, VM!AllocationFails, VM!MappingTableFails
  <2> QED
    BY <2>1, <2>2, <2>3
<1>6. CASE Afterwards
  <2>1. VMP!Next
    BY <1>6, SameSteps DEF Afterwards, VMP!Next
  <2>2. UNCHANGED <<pc, heap_start>> /\ vpc # "dead"
    BY <1>6 DEF Afterwards, vars, mapVars, allocVars, VM!GuestWrites, VM!GuestExits, VM!handle_vmexit
  <2> QED
    BY <2>1, <2>2 DEF AfterInv
<1> QED
  BY <1>1, <1>2, <1>3, <1>4, <1>5, <1>6 DEF PathNext, PathStep

LEMMA StepKeepsPathInv ==
  ASSUME ProgramFits, VMP!MachineIsLargeEnough, SetupInv, PlacedInv, PlacedInv', PathInv,
         [PathNext]_pathVars
  PROVE  PathInv'
<1>1. CASE BeforeInv /\ UNCHANGED pathVars
  <2>1. UNCHANGED <<pc, image, heap_start, module, tables, pml4s, mode, walk, vpc, vi, vm, mem>>
    BY <1>1 DEF pathVars, vars, mapVars, allocVars, vmPathVars
  <2>2. VMP!TreeInv'
    BY <1>1, <2>1, VmAssumptions, VMP!WalkStops DEF BeforeInv
  <2> QED
    BY <1>1, <2>1, <2>2 DEF BeforeInv, VMP!NewVm, PathInv, ModuleAt, ModuleStart, Image, Stashed
<1>2. CASE BeforeInv /\ SetupStep
  BY <1>2, SetupKeepsPath
<1>3. CASE AfterInv
  <2>1. VMP!VmInv'
    BY <1>3, AfterSteps, VmAssumptions, VMP!StepKeepsVmInv DEF AfterInv
  <2> QED
    BY <1>3, <2>1, AfterSteps DEF AfterInv, PathInv
<1> QED
  BY <1>1, <1>2, <1>3, BeforeSteps DEF PathInv

LEMMA PathInvAlways ==
  ASSUME RamIsApart, AddressesFitInt, RamIsPhysical, ProgramFits, VMP!MachineIsLargeEnough
  PROVE  PathSpec => [](SetupInv /\ PlacedInv /\ PathInv)
<1>1. PathSpec => [](SetupInv /\ PlacedInv)
  BY PlacedAlways
<1>2. PathInit => PathInv
  BY InitPathInv DEF PathInv
<1>3. SetupInv /\ PlacedInv /\ PlacedInv' /\ PathInv /\ [PathNext]_pathVars => PathInv'
  BY StepKeepsPathInv
<1>4. PathSpec => PathInit /\ [][PathNext]_pathVars
  BY DEF PathSpec
<1> QED
  BY <1>1, <1>2, <1>3, <1>4, PTL

------------------------------------------------------------------------------
(***************************************************************************)
(* setup_arch leaves what vm_create relies on, and vm_create asks for its  *)
(* first frame only then (setup.c:84-119).                                 *)
(***************************************************************************)
THEOREM HandoverCorrect ==
  ASSUME RamIsApart, AddressesFitInt, RamIsPhysical, ProgramFits, VMP!MachineIsLargeEnough
  PROVE  PathSpec => []HandoverAsAssumed
<1>1. SetupInv /\ PlacedInv /\ PathInv => HandoverAsAssumed
  <2> SUFFICES ASSUME SetupInv, PlacedInv, PathInv PROVE HandoverAsAssumed
    OBVIOUS
  <2>1. CASE pc = "ready"
    BY <2>1 DEF HandoverAsAssumed, PlacedInv, Stashed
  <2>2. CASE pc \notin {"ready", "dead"}
    BY <2>2 DEF HandoverAsAssumed, PathInv, BeforeInv, AfterInv, SetupInv, IInv, SetupOrder
  <2> QED
    BY <2>1, <2>2 DEF HandoverAsAssumed
<1> QED
  BY <1>1, PathInvAlways, PTL

(***************************************************************************)
(* From copy_guest_image to the end the stash holds the module, wherever   *)
(* the loader put it, whatever is allocated and loaded and whatever the    *)
(* guest stores through the nested tables ("the page allocater may destroy *)
(* the image", setup.c:94).                                                *)
(***************************************************************************)
THEOREM ModuleSurvivesCorrect ==
  ASSUME RamIsApart, AddressesFitInt, RamIsPhysical, ProgramFits, VMP!MachineIsLargeEnough
  PROVE  PathSpec => []ModuleSurvives
<1>1. SetupInv /\ PlacedInv /\ PathInv => ModuleSurvives
  <2> SUFFICES ASSUME SetupInv, PlacedInv, PathInv, Stashed, NEW k \in 0 .. Image.size - 1
               PROVE  mem[image.start + k] = <<"file", k>>
    BY DEF ModuleSurvives
  <2>1. CASE BeforeInv
    BY <2>1 DEF BeforeInv, ModuleAt, Stashed
  <2>2. CASE AfterInv
    <3>1. \A f \in image.start .. image.start + Image.size - 1 : mem[f] = <<"file", f - image.start>>
      BY <2>2 DEF AfterInv, VMP!VmInv, VMP!VmmIntact, VMP!Stash, VMP!FramesOf
    <3>2. /\ image.start + k \in image.start .. image.start + Image.size - 1
          /\ (image.start + k) - image.start = k
      BY PathFacts DEF PlacedInv, Image, SetupInv, LoaderInv
    <3> QED
      BY <3>1, <3>2
  <2> QED
    BY <2>1, <2>2 DEF PathInv
<1> QED
  BY <1>1, PathInvAlways, PTL

(***************************************************************************)
(* Program, bitmap and the frames given to the VMM keep what they hold     *)
(* while the machine is built and the guest stores what it likes through   *)
(* the nested tables, and no guest address reaches any of them             *)
(* (alloc.c:139-164, vm.c:142-168).                                        *)
(***************************************************************************)
THEOREM VmmKeptCorrect ==
  ASSUME RamIsApart, AddressesFitInt, RamIsPhysical, ProgramFits, VMP!MachineIsLargeEnough
  PROVE  PathSpec => []VmmKept
<1>1. SetupInv /\ PlacedInv /\ PathInv => VmmKept
  <2> SUFFICES ASSUME SetupInv, PlacedInv, PathInv PROVE VmmKept
    OBVIOUS
  <2> DEFINE Hold(frames, content) == \A f \in frames : mem[f] = content
  <2>1. alloc_bitmap_start = KernelEnd
    BY BitmapBehindProgram DEF SetupInv, IInv
  <2>2. CASE BeforeInv
    <3>2. /\ VMP!Owners.hsa = {} /\ VMP!Owners.vmcb = {} /\ VMP!Owners.iopm = {}
          /\ VMP!Owners.msrpm = {} /\ VMP!Owners.tables = {}
      BY <2>2 DEF BeforeInv, VMP!Owners, VMP!NewVm
    <3>3. VM!GuestIsConfined
      BY <2>2 DEF BeforeInv, VM!GuestIsConfined, VM!Built
    <3>4. Hold(SuperPageSize .. KernelEnd - 1, <<"program">>)
      BY <2>2 DEF BeforeInv
    <3>5. LaidOut => Hold(alloc_bitmap_start .. heap_start - 1, <<"bitmap">>)
      BY <2>1, <2>2 DEF BeforeInv, LaidOut
    <3> QED
      BY <3>2, <3>3, <3>4, <3>5, SameProperties DEF VmmKept
  <2>3. CASE AfterInv
    <3>1. VMP!VmInv /\ VMP!VmmIntact /\ KernelEnd <= heap_start
      BY <2>3 DEF AfterInv, VMP!VmInv
    <3>2. \A f \in SuperPageSize .. heap_start - 1 : mem[f] = ProgramAndBitmap[f]
      BY <3>1 DEF VMP!VmmIntact, ProgramAndBitmap
    <3>3. heap_start \in Nat /\ SuperPageSize <= KernelEnd /\ KernelEnd \in Nat /\ SuperPageSize \in Nat
      BY PathFacts DEF SetupInv, IInv, TypeInv, TypeOK
    <3>4. Hold(SuperPageSize .. KernelEnd - 1, <<"program">>)
      <4>1. ASSUME NEW f \in SuperPageSize .. KernelEnd - 1
            PROVE  mem[f] = <<"program">>
        <5>1. f \in SuperPageSize .. heap_start - 1 /\ f < KernelEnd
          BY <3>1, <3>3
        <5> QED
          BY <3>2, <5>1 DEF ProgramAndBitmap
      <4> QED
        BY <4>1
    <3>5. Hold(alloc_bitmap_start .. heap_start - 1, <<"bitmap">>)
      <4>1. ASSUME NEW f \in KernelEnd .. heap_start - 1
            PROVE  mem[f] = <<"bitmap">>
        <5>1. f \in SuperPageSize .. heap_start - 1 /\ ~ (f < KernelEnd)
          BY <3>1, <3>3
        <5> QED
          BY <3>2, <5>1 DEF ProgramAndBitmap
      <4> QED
        BY <2>1, <4>1
    <3>6. /\ Hold(VMP!Owners.hsa, <<"hsa">>) /\ Hold(VMP!Owners.vmcb, <<"vmcb">>)
          /\ Hold(VMP!Owners.iopm \cup VMP!Owners.msrpm, <<"intercepts">>)
          /\ Hold(VMP!Owners.tables, <<"table">>)
      BY <3>1 DEF VMP!VmmIntact
    <3>7. VM!GuestIsConfined
      BY <3>1, VmAssumptions, VMP!InvConfines, SameProperties
    <3> QED
      BY <3>4, <3>5, <3>6, <3>7, SameProperties DEF VmmKept
  <2> QED
    BY <2>2, <2>3 DEF PathInv
<1> QED
  BY <1>1, PathInvAlways, PTL

(* What the nested tables map, and how far the loader is. *)
StartInv == AfterInv => VMP!MappedInv /\ VMP!LoadedInv

(***************************************************************************)
(* The guest the loader named is the guest that starts: through the nested *)
(* tables it finds its module's segments and a page table to start on      *)
(* (setup.c:106-119, vm.c:205-233, elf.c:20-53).                           *)
(***************************************************************************)
THEOREM ModuleBecomesGuestCorrect ==
  ASSUME RamIsApart, AddressesFitInt, RamIsPhysical, ProgramFits, VMP!MachineIsLargeEnough,
         VMP!GuestFitsInt
  PROVE  PathSpec => []ModuleBecomesGuest
<1>1. vpc = "alloc_host_save_area" => VMP!MappedInv /\ VMP!LoadedInv
  BY DEF VMP!MappedInv, VMP!LoadedInv, VMP!Built
<1>2. PathInit => StartInv
  BY <1>1 DEF PathInit, StartInv
<1>3. PathInv /\ StartInv /\ [PathNext]_pathVars => StartInv'
  <2> SUFFICES ASSUME PathInv, StartInv, [PathNext]_pathVars PROVE StartInv'
    OBVIOUS
  <2>1. CASE BeforeInv
    <3>1. vpc' = "alloc_host_save_area"
      BY <2>1, BeforeSteps, SetupOnward DEF BeforeInv, pathVars, vmPathVars
    <3>2. VMP!MappedInv' /\ VMP!LoadedInv'
      BY <3>1 DEF VMP!MappedInv, VMP!LoadedInv, VMP!Built
    <3> QED
      BY <3>2 DEF StartInv
  <2>2. CASE AfterInv
    <3>1. VMP!VmInv /\ VMP!MappedInv /\ VMP!LoadedInv /\ [VMP!Next]_(VMP!vars)
      BY <2>2, AfterSteps DEF StartInv, AfterInv
    <3>2. VMP!MappedInv'
      BY <3>1, VmAssumptions, VMP!StepKeepsMapped
    <3>3. VMP!LoadedInv'
      BY <3>1, VmAssumptions, VMP!StepKeepsLoaded
    <3> QED
      BY <3>2, <3>3 DEF StartInv
  <2> QED
    BY <2>1, <2>2 DEF PathInv
<1>4. PathInv /\ StartInv => ModuleBecomesGuest
  <2> SUFFICES ASSUME PathInv, StartInv PROVE ModuleBecomesGuest
    OBVIOUS
  <2>1. CASE BeforeInv
    BY <2>1 DEF BeforeInv, ModuleBecomesGuest, VM!GuestStarts
  <2>2. CASE AfterInv
    <3>1. VMP!GuestStarts
      BY <2>2, VmAssumptions, VMP!InvStarts DEF StartInv, AfterInv
    <3> QED
      BY <3>1, SameProperties DEF ModuleBecomesGuest
  <2> QED
    BY <2>1, <2>2 DEF PathInv
<1>5. PathSpec => PathInit /\ [][PathNext]_pathVars
  BY DEF PathSpec
<1> QED
  BY <1>2, <1>3, <1>4, <1>5, PathInvAlways, PTL
===============================================================================
