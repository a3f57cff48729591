# TLA+ models and proofs for TVMM

TVMM is a tiny virtual machine monitor for AMD64 with SVM.  It boots by Multiboot,
builds one virtual machine from the first boot module, enters it with VMRUN and
reports the first exit.  This directory holds TLA+ modules that model what the
VMM does from its first instruction to that report, TLC configurations that check
them on small machines, and proofs for TLAPS.

TVMM runs on one processor, with interrupts off and without an IDT.  Its VMM side has
no concurrency: what is hard is the arithmetic of addresses and bitmaps on
arbitrary memory maps, the order in which regions of memory are claimed, used and
overwritten, failure in the middle of a construction, and, from VMRUN on, an
arbitrary guest that writes while the VMM's own structures lie in the same memory.

## 1. Inventory

| Part | State | Operations | Talks to | What makes it correct |
|---|---|---|---|---|
| `boot.S` | CR0/CR3/CR4/EFER, GDTR, boot page tables, stack | enter long mode, map the first 1 GB twice, call `start_vmm` | boot loader, `setup.c` | no fault on the way; what C relies on holds at `start_vmm` |
| `setup.c` | `pmem_layout` | `parse_cmdline`, `setup_arch`, `copy_guest_image`, `start_vmm` | e820, alloc, cpu, vm | the image is moved before anything overwrites it, to RAM nobody claims |
| `e820.c` | `e820_map` | `setup_memory_region`, `get_nr_pages`, `get_max_pfn` | boot loader's records | the table is the loader's map; `max_page` bounds the RAM tightly |
| `alloc.c` | allocation bitmap, `max_page` | `naive_allocator_init`, `alloc_pages` | setup; svm, vm and page as clients | no access outside the bitmap; usable frames only; no frame twice; none lost |
| `cpu.c` | `cpuinfo_x86` (a local) | `identify_cpu` | svm | stops on every processor the VMM cannot use, for the reason it prints |
| `svm.c`, `svm_asm.S` | EFER, `VM_HSAVE_PA`, save area | `enable_svm`, `svm_launch` | alloc, vm | SVM is enabled before VMRUN; the host's state survives the guest |
| `page.c` | page tables in allocated frames | `pml4_table_create`, `mmap`, `vaddr_to_paddr` | alloc, vm | an `mmap` changes one translation; the tables are trees; lookup agrees with the processor |
| `elf.c` | guest memory | `load_elf_image` | vm | each segment is where its header says |
| `vm.c` | `struct vm`, VMCB fields, guest memory | `vm_create`, `vm_boot`, `handle_vmexit` | all of the above | the guest reaches its memory and none of the VMM's; it can fetch its first instruction |
| `vmcb.c` | none | `vmcb_check_consistency`, `vmcb_dump` | vm | a VMCB is launched exactly when no message applies to it |
| `printf.c` | cursor, 1 KB buffer | `printf`, `putstr`, `scroll` | everybody | text stays in the buffer and on the screen |
| `failure.c` | none | `fatal_failure` | everybody | nothing runs afterwards |
| `string.c` | none | `memset`, `memmove`, ... | everybody | overlapping moves are right |
| `vmexit.c` | none | `print_vmexit_exitcode` | vm | the name of the code is printed; the exit code changes nothing |
| `sos` | guest | the sample guest | VMM | links at 2 MB |

How they interact: `start_vmm` calls, in this order, `setup_memory_region`,
`get_nr_pages`, `get_max_pfn`, `copy_guest_image`, `naive_allocator_init`,
`identify_cpu` (which allocates the host save area), `vm_create` (VMCB, intercept
tables, guest memory, nested page table, image, first page table of the guest) and
`vm_boot`.  All parts share physical memory; the bitmap and the layout record
(`pmem_layout`) are what tells them apart.  Every failure ends in `fatal_failure`,
an undefined instruction without a handler: the machine stops for good.

The behaviours that are hard, each with the lines where it bites and the properties that
watch it, are the `hazards` of `PROJECT.json`.

## 2. Modules

| Module | Models | Used by |
|---|---|---|
| `BootEntry` | `boot.S`: the way from 32-bit mode to `start_vmm`, on the tables of the file | `ProcessorPath` extends it |
| `PageMath` | rounding macros of `page.h` | `MemoryMap` |
| `MachineWords` | an `unsigned long` that passes through an `int` | `SetupArch`, `PageTable` |
| `MemoryMap` | `e820.c`: one step per loop iteration | `SetupArch` extends it |
| `AllocBitmap` | the word operations of `alloc.c` (no state) | `SetupArch` |
| `SetupArch` | `setup_arch` of `setup.c`, and the rest of `alloc.c` | `BootPath` extends it |
| `FrameAllocator` | abstract: a pool that is filled once and granted from | implemented by `SetupArch`; instantiated by `PageTable` and `Cpu` |
| `PageTable` | `page.c`: one step per invocation of `__mmap` | `VmCreate` extends it |
| `AddressMap` | abstract: spaces, each a partial map of pages | implemented by `PageTable` |
| `VmCreate` | `vm.c`, `elf.c`, and the guest | instantiated by `BootPath` |
| `BootPath` | `start_vmm`: `SetupArch` and `VmCreate` on one memory and one bitmap | |
| `Vmcb` | `vmcb.c`: one step per check | `ProcessorPath` extends it |
| `Cpu` | `cpu.c` and `enable_svm` of `svm.c` | `SvmLaunch` extends it |
| `SvmLaunch` | `svm_asm.S` by instruction, and the end of `vm.c` | `ProcessorPath` extends it |
| `ProcessorPath` | `physical_entry` to the exit of the guest, on one processor: `BootEntry`, `Cpu`, `Vmcb` and `SvmLaunch` | |
| `Strings` | `string.c`: one step per string instruction or loop iteration | |
| `Console` | `printf.c` and the message of `failure.c` | |
| `MCMachines`, `MCImages` | how regions become the loader's packed records; the guest images | MC modules |
| `MC*` | the small instances | runs |
| `*Proofs` | theorems | |

How the parts compose.  `SetupArch` *continues* `MemoryMap`: same `pc`, same
variables.  `SetupArch` implements `FrameAllocator` (property
`ImplementsFrameAllocator`, theorem `AllocatorRefinement`), so the clients are
modelled above the abstract allocator: `PageTable` and `VmCreate` take their frames with
`Allocator!GrantRun`, and so does `Cpu` for the save area.  What `VmCreate` assumes of the
pool it starts with (`VmCreateAssumption`: above the heap, apart from the stashed image,
inside memory) is not left to argument: `BootPath` instantiates `VmCreate` above the variables
of `SetupArch`, its pool is the free bits, its grants are what `alloc_boot_pages`
returned, and a step of the composition that allocates is a step of both.
`SvmLaunch` continues `Cpu` past `enable_svm`; what `vm_create` builds in
between is `VmCreate`'s matter, and the two share the allocation of the save area.

So there are two compositions of the whole program, one for what its parts share.
`BootPath` follows the memory: who claims, writes and keeps which frame.  `ProcessorPath` follows the
processor: the entry code leaves EFER to `enable_svm`, `vm_boot` checks the VMCB and only
then switches to the guest, and the guest comes back.

### How state and actions correspond to the code

* `pc` is the function that runs; an action is one loop iteration or one call, with every
  write it makes.  `i` is the index of the running loop, kept 1-based where the
  table is a sequence.  `"dead"` is `fatal_failure` or a page fault.
* `BootEntry`: a virtual address is the indices that select its 2 MB page, so that the sign
  extension of `VIRT` and the wrap of `PHYS` are visible; `"shutdown"` is any fault, since there
  is no IDT.
* `MemoryMap`: `mbi.mmap` maps byte offsets to records, so that reading between two
  records is an evaluation error rather than a value; `p` is the offset of
  `setup_memory_region`; `e820` is the table and `Len(e820)` is `nr_map`.
* `AllocBitmap`: a word is the set of its 1 bits.  The masks `(1UL << n) - 1` and
  `- (1UL << n)` are `BitsBelow(n)` and `BitsFrom(n)`.  The operations write words as C
  does, without looking at the array's size; a write outside shows as a
  larger `DOMAIN`.
* `SetupArch`: `image`, `heap_start` and `max_page` are the fields of `pmem_layout`;
  `bitmap` is the array; `handed` records what `alloc_pages` returned and exists only
  to state properties.  `HeapEnd` is `vmm_heap_end`, `KernelEnd` is `PHYS(&_end)`, and
  `MappedLimit` is the 1 GB of `boot.S`.  In state `"ready"` any client may make any
  of `Requests`.
* `PageTable`: a table is named by its frame; an entry has flags and a base.  `walk`
  holds the arguments of the running `__mmap`.  `AddTable` is `pg_table_create`, the two
  assignments of the new entry and the recursive call.
* `VmCreate`: `vm` holds the fields of `struct vm` and of the VMCB that are
  computed; `mem` tells what each frame holds.  Five callers of `alloc_pages` differ
  only in what they ask for, fill in and go on with, and are the rows of `Callers`.
  `GuestWrites` is any store of any guest, through the nested tables.
* `BootPath`: `mem` holds the module's frames where the loader put them, the program, and
  what each function writes; the unit is the frame in both parts.
* `Vmcb`: a register is the set of its 1 bits; `Returned` keeps the bits an `int` keeps.
* `Cpu`: a processor is what its CPUID answers, a leaf number two halves of 16 bits, and
  an `unsigned char` family is taken modulo 256.  A leaf above the last one answers with the
  processor's own record too: the code asks for some without looking.
* `ProcessorPath`: `ip` is the place in the entry code, `pc` the function of C or the instruction of
  `svm_launch`, `state` the place in the checks.  EFER is one register, whose bits `BootEntry` names and
  `Cpu` numbers.  The VMCB is any one of `Vmcbs`, not only the one `vm_create` builds, so that refusals happen.
* `SvmLaunch`: a register holds who put its value there.  VMRUN loads and stores `rax` and
  `rsp` only; the guest changes any of `Clobbers`.
* `Strings`: bytes are signed as `char` is; `movsl`, `movsw` and `movsb` are steps of their own,
  so that an overlap can bite between them.
* `Console`: `asked` collects what should have been printed; `fits` says whether the
  buffer took all of it.

Definitions marked "Faulty form" are plausible mistakes in the definition that
follows them.  No specification uses them; each shows, put in the place of the correct
definition, that a property notices the mistake (`mutants` in `PROJECT.json`).

## 3. Properties and runs

`tlc -config X.cfg M` for each line; the states are distinct ones.  Each takes less than a
minute on two workers.

| Run | Configuration | States | Properties | Shows |
|---|---|---|---|---|
| setup_arch | `MCSetupArch` | 38456 | TableIsTheArea, FiguresFitTheMap, BitmapInBounds, HandedDisjoint, HandedUsable, PoolComplete, StashElsewhere, FailsOnlyWhenFull, SetupEnds, ImplementsFrameAllocator | every order of up to three of twelve regions and up to four of eight, a table that overflows, two image sizes, a missing map, module or room |
| page_table | `MCPageTable` | 18659 | TreeShape, LookupAgrees, MmapEnds, ImplementsAddressMap | two spaces, up to six frames, mappings that share no, one or two tables, one page above 2 GB among pages below |
| vm_create | `MCVmCreate` | 911 | TypeOK, EveryFrameOwnedOnce, FailsOnlyWithoutRoom, GuestIsConfined, GuestMemoryMapped, VmmIntact, GuestStarts, BootEnds | twenty pools and images, any stores of the guest |
| boot_path | `MCBootPath` | 2566 | ModuleSurvives, HandoverAsAssumed, ModuleBecomesGuest, VmmKept | twelve memory maps, five places of the module, two images, from the loader to the guest's exit |
| processor_path | `MCProcessorPath` | 61249 | EveryPageTwice, EntryContract, RefusedForTheReasonPrinted, VmrunIsLegal, CalleeSavedRestored, LaunchedIsConsistent, RefusedForTheReasonGiven, CreatedIsLaunched, VmrunReached | every state a loader may leave; processors that differ in each answer the code looks at; VMCBs with all combinations of the mode bits and each other bit turned over alone; guests that change any register |
| strings | `MCStrings` | 120170 | MemmoveIsSimultaneous, ZeroMeansEqual, FillsAndCopiesExactly | every source, destination and length in nine bytes; every pair of short strings of extreme bytes |
| console | `MCConsole` | 87222 | ScreenShowsText, StaysInBuffer | texts and numbers that end before, at and behind each boundary |
| vm_create_image | `MCVmCreateImage` | | ImageSurvives (violated) | finding 1 |
| vmcb_pae | `MCVmcbPae` | | LaunchedIsConsistent (violated) | finding 2 |
| svm_nested_paging | `MCSvmLaunchPaging` | | NestedPagingChecked (violated) | finding 3 |
| setup_arch_high | `MCSetupArchHigh` | | StashElsewhere (violated) | finding 4 |
| vmcb_reserved | `MCVmcbReserved` | | LaunchedIsConsistent (violated) | finding 5 |

### What the properties say

`BootEntry`.  `EveryPageTwice`: from paging on, each page of the first 1 GB is reached at its low
and at its high address, and no other page is.  `EntryContract`: what C code relies on when
`start_vmm` begins.

`SetupArch`.  `TableIsTheArea`: no record of the loader's map is lost, doubled or reordered, and
the walk reads at record boundaries only.  `FiguresFitTheMap`: `max_page` and `total_pages` bound
the whole RAM frames.  `BitmapInBounds`: no word outside the bitmap is touched, and the bitmap
ends below the heap's end.  `HandedUsable` and `PoolComplete` together: the free bits
plus what was handed out are exactly the usable frames.  `HandedDisjoint`: no frame
twice.  `StashElsewhere`: the copy of the image lies in RAM, off the program, under the
mapping.  `FailsOnlyWhenFull`: the allocator does not give up early; the very last frame of
memory, which `i + nr_pfns < max_page` never considers, is excepted.
`ImplementsFrameAllocator`: every step is a donation, a grant of the *lowest* fitting run,
or a stutter.  `SetupEnds`: the scans end.

`PageTable`.  `TreeShape`: three disjoint levels, one link to each lower table, and each
granted frame is a table.  `ImplementsAddressMap`: a call changes the
translation of its page in its space in one step and no other, also when it runs out of frames
half way.  `LookupAgrees`: `vaddr_to_paddr` returns what the processor would, for each page
below 2 GB, also while pages above are mapped.
`MmapEnds`: the recursion ends, with the page mapped or for want of a frame.

`VmCreate`.  `EveryFrameOwnedOnce`: what was allocated is what the parts of the machine
use.  `FailsOnlyWithoutRoom`: a step that ends in `"dead"` found no room below 1 GB for what it
asked for, or for the guest's memory as a whole; the other properties of the construction are silent
about a machine that was given up, so this one says when that may happen.  `GuestIsConfined`: no
guest-physical address leads to a frame of the VMM.
`GuestMemoryMapped`: the nested tables are exactly the promised map.  `VmmIntact`: the
VMM's structures keep their contents while the image is loaded and while the guest
stores through the nested tables.  `GuestStarts`: what the guest finds when it starts, its segments and a page table that
maps its first 4 MB.  `BootEnds`: the construction ends.

`BootPath`.  `ModuleSurvives`: the stash holds the loader's module, from the copy to the end,
wherever the module was loaded.  `HandoverAsAssumed`: what `VmCreate` assumes is what
`SetupArch` leaves.  `ModuleBecomesGuest`: the guest that starts is that module.  `VmmKept`:
program, bitmap and the VMM's frames keep what they hold.

`Vmcb`.  `LaunchedIsConsistent` and `RefusedForTheReasonGiven` compare the code's
checks with the messages, in both directions; `CreatedIsLaunched`: the VMCB of
`vm_create` is never refused.

`SvmLaunch`.  `RefusedForTheReasonPrinted`: each message is true of the processor it is printed
for.  `VmrunIsLegal`: VMRUN is reached only on a processor the code is written for, with
`EFER.SVME` and `VM_HSAVE_PA` set and interrupts held off.  `CalleeSavedRestored`: what the ABI
asks of `svm_launch`, whatever the guest did.  `NestedPagingChecked` (violated, finding 3): a processor
without nested paging is refused.

`ProcessorPath`.  `VmrunReached`: a processor the code is written for, started by a Multiboot loader and
with the VMCB of `vm_create`, gets to VMRUN; so the modes of the entry code are set up in
an order that does not fault, and none of the many tests refuses wrongly.

`Strings`.  `MemmoveIsSimultaneous`, `ZeroMeansEqual`, `FillsAndCopiesExactly`: against a definition of
each in one expression.  `Console`.  `ScreenShowsText`: the screen shows the last lines of
all that was printed.  `StaysInBuffer`: nothing is written behind the buffer but by a number that would
end there, and then two bytes at most.

### Bounds, and why they are enough

* Frames of two bytes make addresses that lie inside a frame odd; one is enough for every
  rounding.  A word of four bits lets runs lie in a word, end on its boundary, and span
  three words.  Regions lie below, across and above the heap's end and the mapped limit,
  touch each other, and have holes; three of them in any order let the stash go to
  each place `find_memory_region_for_saving_guest_image` may choose.  Requests are a
  frame, an unaligned run and an aligned run.
* Tables of two entries and three levels keep every kind of sharing between two walks:
  none, the PDP table, both.  Six frames let two spaces be built and run out at
  each depth.
* Eight frames stand for 2 MB in `VmCreate` and `BootPath`, so that a large page has an inside;
  the guest has two large pages, the number the code's 4 MB gives.  The pools include one
  for each allocation that can fail, and frames beyond the mapped limit.
* `BootPath` puts the module right behind the program, under the future bitmap, and across the
  stash from below and above.  `Requests` are what `vm_create` and `page.c` ask for.
* In `Vmcb` each check reads at most five bits, which the combinations cover
  together; the range checks are covered bit by bit.  EFER.LMA is read by no check, and CR4.PGE matters only
  without PAE (`vmcb_pae`), so the combinations leave both alone.
* `ProcessorPath`: `Starts` varies the loader with a usual processor, the processor and the pool with
  two loaders (with and without NX in EFER), and the VMCB with a usual start: the three meet only
  in EFER and in the order of the steps.
* `SvmLaunch`: one processor that is accepted and, for each test of the code, the two sides of it,
  combined where one test hides another.
* `Strings`: nine bytes hold two double words and every remainder; the bytes whose
  difference is least and greatest are in the strings.  The theorems need no bound.
* `Console`: two lines of three columns, a buffer of six bytes, three digits, and up to `MaxCalls` = 3
  calls: after two, the next starts on any cell, and the screen scrolls in the middle of a text.  `Chars` are the
  characters that texts may have, the digits among them; the theorems hold for every such set.

Where an `int` is too narrow for a value of the code, the passing runs stop short of it and a
violation run goes on: `setup_arch` has its memory below 2 GB and `setup_arch_high` above 4 GB;
`processor_path` turns over the reserved bits an `int` sees, `vmcb_reserved` the others.  The one such place
without a violation run is `page.c:108`: `page_table` has a page above 2 GB, among pages below, but
`LookupAgrees` promises nothing of it, and `vaddr_to_paddr` has no caller that could ask.

### Fairness

There is one thread, interrupts are off, and it is never preempted: an action of the
boot path that is enabled is executed, which is weak fairness of the next step
(`SetupArch!FairSpec`), of a running `__mmap` (`FairPageSpec`), of the
construction (`VmCreate!FairSpec`) and of the VMM's own instructions (`Vmm` in `ProcessorPath!FairSpec`).  No fairness is
assumed of clients of `alloc_pages` or `mmap` in the component runs, nor of the guest, which may
run for ever.  `BootPath`, `Strings` and `Console` are checked for safety only.

`CHECK_DEADLOCK FALSE` is set in every run because every one of these programs stops: in
`fatal_failure`, at the end of its work, or when the guest has exited.

## 4. Findings

1. `vm.c:170-203`: the guest's first page table is written over the image
   (`vm_create_image`); for the sample guest it lies in its bss.
2. `system.h:15`: `X86_CR4_PAE` has two bits, so that a CR4 with PGE and without PAE is taken for one
   with PAE (`vmcb_pae`).
3. `cpu.c:153`: the check for nested paging reads a bit of the vendor's name in leaf 0x80000000,
   which is 1 on every AMD processor (`svm_nested_paging`).
4. `setup.c:45`: the place for the guest image is returned as an `int`, so from 2 GB on the image is
   copied elsewhere: room at 4 GB becomes address 0 (`setup_arch_high`; `ThroughInt` in `SetupArch`,
   hypothesis `AddressesFitInt`).
5. `vmcb.c:35`, `vmcb.c:53`: bits 43 to 63 of CR4 and 47 to 63 of EFER are lost in an `int`
   (`vmcb_reserved`; `Returned` in `Vmcb`, hypothesis `ReservedBitsFit`).

Divergences without a run:

* `page.c:108`: `vaddr_to_paddr` loses the bits of a physical address from 2^31 on, although the field of
  the entry (`page.h:82`) has room for them.  It has no caller; `LookupAgrees` is limited to the pages below.
* `printf.c:92-98`: a number that ends behind the buffer is written there, by two bytes at most.
  `NumberOverruns` is the exception that `StaysInBuffer` names and bounds.  No text of the repository is as long
  as the 1024 characters of the buffer.
* `vm.c:262-274`: the exit report explains `exitinfo1` as a page fault's error code for every exit.
  The report only prints and is not modelled.
* Where the words of the code differ from what it does: `check_msr_ioio_intercept_tables` always
  passes; `vmcb.c:129` names CR4.PE where the code checks
  CR0.PE; `vm.c:107` says that PG must be cleared and the next line sets it; `multiboot.h:70-71` says
  that offset 0 of a record is `base_addr_low` while the structure and the walk have `size` there;
  `elf.c:10` skips read-only segments; the guest does not see its image below 2 MB, since those
  addresses are the machine's own ("for VGA (too naive)"); the address of the Multiboot information
  for the guest is computed and never passed; `page.c:79` shifts a 40-bit field, which is harmless
  below 1 GB.

## 5. Proofs

`tlapm M.tla` proves every obligation of the eight proof modules, for all values of
the constants that satisfy the named assumptions of the modules.  Where a theorem
needs more than that, the extra fact is a named hypothesis of the theorem, in the
proof module, and says what the code takes on trust.

| Module | Theorems | Hypotheses |
|---|---|---|
| `BootEntryProofs` | `EveryPageTwiceCorrect`, `EntryContractCorrect`, `NoFaultCorrect` | |
| `SetupArchProofs` | `Invariance`, `TypeCorrect`, `CursorCorrect`, `OrderCorrect`, `BitmapCorrect`, `HandedUsableCorrect`, `HandedDisjointCorrect`, `AllocatorRefinement`, `GrantsDisjointCorrect`, `NoRefillCorrect`, `TableCorrect`, `FiguresCorrect` | |
| | `PoolCompleteCorrect`, `StashCorrect`, `FailureCorrect` | `RamIsApart`, `AddressesFitInt` |
| `VmCreateProofs` (of `PageTable`) | `PageTypeCorrect`, `TreeShapeCorrect`, `LookupAgreesCorrect`, `ImplementsAddressMapCorrect` | |
| (of `VmCreate`) | `ConfinedCorrect`, `IntactCorrect`, `OwnedOnceCorrect`, `FailsOnlyWithoutRoomCorrect`, `VmTypeCorrect` | `MachineIsLargeEnough` |
| | `MemoryMappedCorrect`, `GuestStartsCorrect` | also `GuestFitsInt` |
| `BootPathProofs` | `PathIsSetup` | |
| | `HandoverCorrect`, `ModuleSurvivesCorrect`, `VmmKeptCorrect` | `RamIsApart`, `AddressesFitInt`, `RamIsPhysical`, `ProgramFits`, `MachineIsLargeEnough` |
| | `ModuleBecomesGuestCorrect` | also `GuestFitsInt` |
| `VmcbProofs` | `LaunchedCorrect`, `RefusedCorrect`, `CreatedCorrect` | `PgeOnlyWithPae`, `ReservedBitsFit`; none for `CreatedCorrect` |
| `SvmLaunchProofs` | `VmrunIsLegalCorrect`, `CalleeSavedCorrect`, `RefusalsCorrect` | |
| `StringsProofs` | `StringsTypeOK`, `MemmoveCorrect`, `CompareCorrect`, `FillAndCopyCorrect` | |
| `ConsoleProofs` | `StaysInBufferCorrect`, `ScreenShowsTextCorrect` | |

The arguments.  None of these properties is inductive.

*The boot entry.*  The page directory is what the macro `identmap` writes, which halves its count until it
is 1.  `MacroMeetsDefinition` gives the recursive definition a value, the runs of pages; since a count is a
power of 2 and no more than 512, nine applications of `Doubling` then determine the directory, without an
induction (`DirectoryIsIdentity`).  `IInv` says what each place in the code may take for set: PAE before the
tables, both before paging, the 64-bit descriptor before 64-bit code, and EFER bit by bit.  `FaultInv` adds
where the descriptors are read from; with it every instruction finds what it needs (`NoFaultCorrect`), so that of
`VmrunReached` in the entry code only the progress itself is left to TLC.

*The allocator.*  That the bitmap is not overrun rests on `max_page` being above the end of every
RAM entry, which is established one entry at a time by `get_max_pfn`, two functions before the
bitmap exists; `SetupOrder` carries that fact from the scan to the dimensioning and to each
`map_free`.  The longword of padding is what makes the word behind the last run exist.  With the
domain of the bitmap fixed, the lemmas on `map_alloc` and `map_free` turn each operation into the
addition or removal of a run of frames, and the usability of each free frame follows entry
by entry from the skips over the heap and the image.  The refinement maps the pool to the free
bits below the last frame; a step of `init_alloc_bitmap` is a donation, one of
`alloc_boot_pages` a grant of the lowest run.  What `FrameAllocator` promises, disjoint grants and
a pool that is never refilled, is proved of it and so holds of the code.

*The memory map.*  `TableIsTheArea` tells which record an entry is by counting the records before it, so its proof
needs no induction over the loader's area.  Records are packed, so the pointer that passes a record adds exactly that one to those read, and the last entry
is the one that the step has written.  For `FiguresFitTheMap` the frames of the first entries are counted one
entry at a time: an entry has no more whole frames than it adds pages, whatever entries overlap it,
and the frame below `max_page` is the last one of some RAM entry.

*Completeness of the pool.*  `CompleteInv` adds to that invariant that the RAM entries of the table
are apart from each other and from the records still to be read, that the stash is the start
of what one entry has above the heap, and that each entry opened so far has all its usable frames
free.  `RamIsApart` is needed because `init_alloc_bitmap` skips from an entry's start to the stash's end,
which loses frames of an entry that overlaps the one with the stash.

*The trees of tables.*  `PageInv` gives every table a level: roots have the highest, a link goes down one
level, and no table is linked twice.  So an entry lies on the way of one page of one space
(`WaysApart`), which is why writing it changes one translation (`EntryWritten`), and why a new table, being
nobody's and empty, changes none (`LinkedTables`).  `mmap` therefore implements `AddressMap`: `pml4_table_create`
is `Create`, the write of the last entry is `Map`, and the allocations and the failures between
are stutters.  `LookupAgrees` follows because an address below
2^31 passes through an `int` unchanged (`ThroughIntSame`), whatever else is mapped.

*Confinement.*  `VmInv` has four parts.  `OwnedInv`: each frame is the pool's, the stash's, or one
owner's.  `TablesInv`: the tree of `PageInv`, and what a nested table translates to is the guest's memory
or the first 2 MB; a frame that becomes a table was nobody's, so the lemmas on trees apply to the
allocations and to the walks of `vm_create` as they do to those of `PageTable`.  `ProgressInv`: which fields are set
when.  `VmmIntact` itself: the loader writes inside the guest's memory because the segments are well
formed, the first page table because 4 MB are more than 2 MB and six frames
(`MachineIsLargeEnough`), and the guest because of the tables.  That the first 2 MB are given to the
guest is harmless because the heap, and so every frame of the pool, lies above them.

*Giving up.*  A request that fails, or is answered with frames behind the mapping, had no room below: a grant is the
lowest run that fits, so a lower one would have been taken (`RequestFailsWithoutRoom`).  The guest's memory is written
only later, when the pool has fewer frames; `RoomInv` keeps that it is still the lowest run among
its own frames and the rest of the pool, since frames only leave it.

*The guest's memory and its start.*  `MappedInv`: at step `i` of the loop there is one nested table,
it maps the pages below `i` to their frames (below `i - 1` while an `mmap` is under way, which maps
`i - 1`), and nothing above.  `GuestFitsInt` is needed because `vm_paddr` is an `int` when
it is shifted to a page.  With the map complete, the frames that the loader writes are the ones the
guest reads (`HostFramesAre`).  `LoadedInv`: the segments of the headers below `i` are in place; a later
segment has other targets, and the first page table is written last, behind every segment.  `TypeOK`
rests on the two intercept tables: five frames above 2 MB, they make CR3's frame one of the machine's.  The
entry point alone has no bound, because nobody looks at `e_entry`.

*The whole boot path.*  `BootPathProofs` joins the two halves by instantiating the proofs themselves:
`VMP` is `VmCreateProofs` above the variables of `BootPath`, so its lemmas on one step may be cited.
`PathIsSetup`: the composition is a behaviour of `SetupArch`, whence `IInv` and `CompleteInv` hold on it.  From them
follows where the pool and the stash lie (`PlacedInv`).  `BeforeInv` says what memory holds until the bitmap is open:
the module first where the loader put it and then in the stash, since the copy reads each frame before
it is overwritten; the program; then the bitmap behind it.  With the last step of `setup_arch` these two are
exactly what `VmCreateProofs` calls a fresh start (`HandoverFresh`), from there on each step is one of `VmCreate`
(`AfterSteps`), and `VmInv`, `MappedInv` and `LoadedInv` are kept by the lemmas of `VmCreateProofs`.  `HandoverAsAssumed`
is thereby no assumption any more: what `VmCreate` asks of its pool and its stash is proved of
`setup_arch`.  The hypotheses name what the code takes on trust: the RAM the loader reports exists
(`RamIsPhysical`), its entries are apart and below 2 GB, the program ends below the end of its
heap (`ProgramFits`; otherwise the copy of the module could meet the program before `NoHeapSpace` stops the boot), and the
guest's memory is larger than its first page table's place.  The machines of `MCBootPath` satisfy all of them.

*The switch.*  EFER holds NX or not, as the loader left it, and `LaunchInv` says nothing of that bit.
It carries from `cpu.c` what has been asked and answered, from `enable_svm` that
SVME and the save area are set, and through `svm_launch` which words the stack holds at each instruction.

*`memmove`.*  While a forward move runs, what lies behind the pointers is the old source
because the destination is below it or apart; `ForwardInv` and `BackwardInv` say which part has been copied
at each of the string instructions, and the remainders of the length by 4 and 2 add up.

*The checks.*  `ChecksInv`: all checks before the loop's index have passed.  The two hypotheses are
the two places where a check and its message differ.

*The console.*  `ScreenShowsText` compares the screen with `LinesOf(asked)`, which is a recursion over
the whole text, as are the length of a number (`Hex`) and the text of a format (`FlattenSeq`).  The proof therefore
begins with induction and recursion in the form of sets (`SetInduction`, `RecursionExists`, `RecursionUnique`), which
give each of these functions its equations: the text of a format is that of its first item and the rest
(`TextOfHead`), the lines of a text and one more character are `NextLines` of its lines (`LinesOfAppend`), and the
digits that `number` writes backwards are those of `Hex` (`HexIs`).  `PrintedInv` then says at each place which
part of `asked` is where: what is on the screen (`OnScreen`), what lies formatted in the buffer, and what is still to be
formatted or put.  The heart is `PutCharacter`: a character put at the cursor, with its wrap and its scroll, is
`NextLines` of what the screen showed; the cases are a new line, the last column, and the last line.  `fits` is
a condition of the property itself, since a longer text is cut off; there is none on the cursor,
the screen at the start or the sizes.  `StaysInBuffer` needs only `TypeInv` and that
`number` counts as many characters as the text of the number has (`ItemTextType`).

The theorems on the parts of `ProcessorPath` are about the specifications of those parts
(`EntrySpec`, `CheckSpec`, `LaunchSpec`), whose actions its steps are.

Only model-checked: liveness (`SetupEnds`, `MmapEnds`, `BootEnds` and `VmrunReached`), which rests on
fairness and ENABLED, and that the parts of `ProcessorPath` fit together.

## 6. Not modelled

* Output no decision depends on and no property is about: the report of `handle_vmexit` with `vmexit.c`, `vmcb_dump`, `print_pg_table`,
  `e820_print_map`, `display_cacheinfo`, the wording of messages.
* The colour bytes of the video memory, which nothing sets; the upper half of a `%x` argument that
  the caller passed as an `int`.
* Model numbers, names and cache sizes of processors; the bytes of the vendor's name, of which one bit
  matters (`vendor_bit`).
* The build: Makefiles, the linker script and `mkelf32`.  The symbols they define are constants
  (`KernelEnd`, `PageOf`).
* The sample guest's own code: `GuestWrites` is any guest.  Its layout is the image `Sos`.
* A guest's other ways to memory.  `vm.c:57` intercepts VMRUN alone; VMSAVE, which takes a physical
  address, and the other instructions of SVM are not intercepted, nor is a guest's shutdown, and what the
  processor then does is outside the model.  `VmmIntact`, `VmmKept`, `ModuleSurvives` and their theorems
  speak of stores that go through the nested tables.
* Crashes and restarts, lost messages and timeouts: nothing is persisted, nothing is sent, and
  nobody waits.
* Images are well formed and fit into guest memory (`WellFormed`), and memory maps are
  packed: the code takes both on trust.
* The values in segment registers and other VMCB fields that no check reads.

## 7. Plan

Done: every part of the inventory that decides something, the two refinements, the composition of the boot
path, and the proofs of 5.

Left: proofs of liveness, which need proof rules that the installed provers do not have; weaker
hypotheses where 5. names one (memory maps whose RAM entries overlap, addresses from 2 GB on), for which the code would
first have to change; and the parts listed in 6.
