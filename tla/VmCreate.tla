------------------------------- MODULE VmCreate -------------------------------
(***************************************************************************)
(* kernel/vm.c with kernel/elf.c and the host save area of kernel/svm.c:   *)
(* from the pool that setup_arch leaves to the guest's last instruction.   *)
(* The machine that is built consists of a VMCB, two intercept tables, the *)
(* guest's memory, the nested page tables over it, the guest's image and a *)
(* page table for the guest to start on.                                   *)
(*                                                                         *)
(* The unit of addresses and sizes is the 4-Kbyte frame, SuperPageSize is  *)
(* the number of frames in 2 Mbytes, IntRange and LongRange count frames   *)
(* too, and segments are whole frames.  mem gives what each physical frame *)
(* holds; the entries of the nested tables are in PageTable's tables, and  *)
(* their frames hold <<"table">> as long as nobody writes over them.       *)
(***************************************************************************)
EXTENDS PageTable

CONSTANTS
  PmemSize,     \* opt.vm_pmem_size
  HeapEnd,      \* vmm_heap_end: the program and the heap lie below it
  TopFrame,     \* the last frame of physical memory
  Handovers,    \* what setup_arch may leave: a pool, the stash and its ELF image,
                \* and below the heap's end the frames of program and bitmap (vmm)
  GuestFrames   \* the guest-physical frames the guest may access

Segment ==
  [p_type : {"PT_LOAD", "PT_NOTE"}, p_flags : SUBSET {"PF_R", "PF_W", "PF_X"},
   p_offset : Nat, p_paddr : Nat, p_filesz : Nat, p_memsz : Nat]

is_loadable_phdr(ph) == ph.p_type = "PT_LOAD" /\ ph.p_flags \cap {"PF_W", "PF_X"} # {}

FramesOf(first, nr) == first .. first + nr - 1
Target(ph) == FramesOf(ph.p_paddr, ph.p_memsz)

(* An ELF file as its linker makes it for this much guest memory. *)
WellFormed(image) ==
  /\ image.e_phdrs \in Seq(Segment)
  /\ image.e_entry \in Nat
  /\ \A k \in DOMAIN image.e_phdrs :
       LET ph == image.e_phdrs[k] IN
       /\ ph.p_filesz <= ph.p_memsz
       /\ ph.p_offset + ph.p_filesz <= image.size
       /\ ph.p_paddr + ph.p_memsz <= PmemSize
       /\ \A j \in 1 .. k - 1 : Target(ph) \cap Target(image.e_phdrs[j]) = {}

Stash(h) == FramesOf(h.stash, h.image.size)

(* SetupArch's HandedUsable and StashElsewhere, and a heap above 2 Mbytes. *)
ASSUME VmCreateAssumption ==
  /\ PmemSize \in Nat /\ PmemSize % SuperPageSize = 0
  /\ PmemSize <= SuperPageSize * TableSize * TableSize * TableSize
  /\ HeapEnd \in Nat /\ HeapEnd >= SuperPageSize
  /\ TopFrame \in Nat
  /\ GuestFrames \subseteq Nat
  /\ \A h \in Handovers :
       /\ h.pool \in Pools
       /\ h.pool \cup Stash(h) \subseteq HeapEnd .. TopFrame
       /\ h.pool \cap Stash(h) = {}
       /\ h.stash \in Nat
       /\ DOMAIN h.vmm \subseteq SuperPageSize .. HeapEnd - 1
       /\ h.image.size \in Nat
       /\ WellFormed(h.image)

VARIABLES
  pc,        \* the function that is running
  handover,  \* the member of Handovers of this boot, never written
  i,         \* the loop index of the running loop
  vm,        \* struct vm and the fields of its VMCB that vm_create computes
  mem        \* physical frame -> what it holds

vmVars == <<pc, handover, i, vm, mem>>
vars == <<pageVars, vmVars>>

(* start_vmm's struct vm before vm_create computes a field; 0 is "not yet". *)
NewVm == [hsa |-> 0, vmcb |-> 0, iopm |-> 0, msrpm |-> 0, pmem |-> 0,
          h_cr3 |-> 0, cr3 |-> 0, rip |-> 0]

Init ==
  /\ PageInit
  /\ handover \in Handovers
  /\ pool = handover.pool
  /\ pc = "alloc_host_save_area"
  /\ i = 0
  /\ vm = NewVm
  /\ mem = [f \in 0 .. TopFrame |->
              IF f \in Stash(handover) THEN <<"file", f - handover.stash>>
              ELSE IF f \in DOMAIN handover.vmm THEN handover.vmm[f]
              ELSE <<"other">>]

------------------------------------------------------------------------------
(* memset: nr frames from first on get one content. *)
Filled(first, nr, content) ==
  [f \in DOMAIN mem |-> IF f \in FramesOf(first, nr) THEN content ELSE mem[f]]

(* The callers of alloc_pages outside page.c: how many frames each asks for, at
   which alignment, the field that keeps the answer, what the frames are filled
   with, and what comes next. *)
alloc_host_save_area ==
  [nr |-> 1, align |-> 1, to |-> "hsa", fill |-> {<<"hsa">>}, next |-> "alloc_vmcb"]

alloc_vmcb ==
  [nr |-> 1, align |-> 1, to |-> "vmcb", fill |-> {<<"vmcb">>}, next |-> "set_iopm"]

PAGE_SIZE == 4096

\* Faulty form: a page short.
create_intercept_table_short(size, to, next) ==
  [nr |-> (size - 1) \div PAGE_SIZE, align |-> 1, to |-> to, fill |-> {<<"intercepts">>},
   next |-> next]

(* The size is in bytes. *)
create_intercept_table(size, to, next) ==
  [nr |-> size \div PAGE_SIZE, align |-> 1, to |-> to, fill |-> {<<"intercepts">>},
   next |-> next]

set_iopm == create_intercept_table(12 * 1024, "iopm", "set_msrpm")
set_msrpm == create_intercept_table(8 * 1024, "msrpm", "set_state_save_area")

(* It fills nothing. *)
alloc_vm_pmem ==
  [nr |-> PmemSize, align |-> SuperPageSize, to |-> "pmem", fill |-> {},
   next |-> "pml4_table_create"]

Callers ==
  [alloc_host_save_area |-> alloc_host_save_area, alloc_vmcb |-> alloc_vmcb,
   set_iopm |-> set_iopm, set_msrpm |-> set_msrpm, alloc_vm_pmem |-> alloc_vm_pmem]

(* The memset of the frames through VIRT. *)
Faults(c, f) == c.fill # {} /\ f + c.nr > MappedFrames

Allocate ==
  /\ pc \in DOMAIN Callers
  /\ LET c == Callers[pc] IN
     \E f \in pool :
       /\ Allocator!GrantRun(f, c.nr, c.align)
       /\ ~ Faults(c, f)
       /\ vm' = [vm EXCEPT ![c.to] = f]
       /\ IF c.fill = {} THEN UNCHANGED mem
          ELSE \E content \in c.fill : mem' = Filled(f, c.nr, content)
       /\ pc' = c.next
  /\ UNCHANGED <<tables, pml4s, mode, walk, handover, i>>

AllocationFails ==
  /\ pc \in DOMAIN Callers
  /\ LET c == Callers[pc] IN
     \/ Allocator!Exhausted(c.nr, c.align) /\ UNCHANGED <<pool, grants>>
     \/ \E f \in pool : Allocator!GrantRun(f, c.nr, c.align) /\ Faults(c, f)
  /\ pc' = "dead"
  /\ UNCHANGED <<tables, pml4s, mode, walk, handover, i, vm, mem>>

\* Faulty form: a byte address.
set_state_save_area_bytes ==
  /\ pc = "set_state_save_area"
  /\ vm' = [vm EXCEPT !.cr3 = (SuperPageSize + 3) * SuperPageSize]
  /\ pc' = "alloc_vm_pmem"
  /\ UNCHANGED <<pageVars, handover, i, mem>>

(* CR3 of the guest: 0x200000 + PAGE_SIZE * 3. *)
set_state_save_area ==
  /\ pc = "set_state_save_area"
  /\ vm' = [vm EXCEPT !.cr3 = SuperPageSize + 3]
  /\ pc' = "alloc_vm_pmem"
  /\ UNCHANGED <<pageVars, handover, i, mem>>

------------------------------------------------------------------------------
(* The frames of new tables are cleared, and hold a table from then on. *)
TablesInMem ==
  mem' = [f \in DOMAIN mem |->
            IF f \in DOMAIN tables' \ DOMAIN tables THEN <<"table">> ELSE mem[f]]

\* Faulty form: one page short.
PFN_UP_2MB_short(x) == (x - 1) \div SuperPageSize
PFN_UP_2MB(x) == (x + SuperPageSize - 1) \div SuperPageSize
PFN_DOWN_2MB(x) == x \div SuperPageSize
\* Faulty form: two pages of the machine.
is_reserved_upto_one(pfn) == pfn <= 1
is_reserved_pmem(pfn) == pfn = 0

CreateNestedRoot ==
  /\ pc = "pml4_table_create"
  /\ pml4_table_create
  /\ TablesInMem
  /\ pc' = "create_vm_pmem_mapping_table"
  /\ i' = 0
  /\ UNCHANGED <<handover, vm>>

(* The PML4 table create_vm_pmem_mapping_table works on: the only one. *)
NestedRoot == CHOOSE f \in pml4s : TRUE

\* Faulty form: the index does not advance.
create_vm_pmem_mapping_stuck ==
  /\ pc = "create_vm_pmem_mapping_table"
  /\ i < PFN_UP_2MB(PmemSize)
  /\ mmap(NestedRoot, i * SuperPageSize, i * SuperPageSize, TRUE)
  /\ UNCHANGED <<pc, handover, i, vm, mem>>

(* vm_paddr is shifted as an int. *)
create_vm_pmem_mapping_table ==
  /\ pc = "create_vm_pmem_mapping_table"
  /\ i < PFN_UP_2MB(PmemSize)
  /\ LET pm_pfn == i + (IF is_reserved_pmem(i) THEN 0 ELSE PFN_DOWN_2MB(vm.pmem))
     IN mmap(NestedRoot, ThroughInt(i * SuperPageSize), pm_pfn * SuperPageSize, TRUE)
  /\ i' = i + 1
  /\ UNCHANGED <<pc, handover, vm, mem>>

RunMmap ==
  /\ pc = "create_vm_pmem_mapping_table"
  /\ PageStep
  /\ TablesInMem
  /\ UNCHANGED <<pc, handover, i, vm>>

MappingTableFails ==
  /\ \/ pc = "pml4_table_create"
     \/ pc = "create_vm_pmem_mapping_table" /\ mode = "mmap"
  /\ OutOfFrames \/ TableFaults
  /\ pc' = "dead"
  /\ UNCHANGED <<handover, i, vm, mem>>

MappingTableDone ==
  /\ pc = "create_vm_pmem_mapping_table"
  /\ mode = "idle"
  /\ i >= PFN_UP_2MB(PmemSize)
  /\ vm' = [vm EXCEPT !.h_cr3 = NestedRoot]
  /\ pc' = "load_elf_image"
  /\ i' = 1
  /\ UNCHANGED <<pageVars, handover, mem>>

------------------------------------------------------------------------------
Phdrs == handover.image.e_phdrs

(* Writing nr frames of guest memory from first on: VIRT may not reach them. *)
PmemFaults(first, nr) == nr > 0 /\ vm.pmem + first + nr > MappedFrames

\* Faulty form: clears without copying.
SegmentCleared(ph, to) ==
  [f \in DOMAIN mem |-> IF f \in FramesOf(to, ph.p_memsz) THEN <<"zero">> ELSE mem[f]]

(* memmove of p_filesz from the file, memset of the rest of p_memsz. *)
SegmentLoaded(ph, to) ==
  [f \in DOMAIN mem |->
     IF f \in FramesOf(to, ph.p_filesz) THEN mem[handover.stash + ph.p_offset + (f - to)]
     ELSE IF f \in FramesOf(to, ph.p_memsz) THEN <<"zero">>
     ELSE mem[f]]

(* One program header.  A fault may come after a part of the segment. *)
load_elf_image ==
  /\ pc = "load_elf_image"
  /\ i <= Len(Phdrs)
  /\ LET ph == Phdrs[i] IN
     IF ~ is_loadable_phdr(ph) THEN UNCHANGED <<mem, pc>>
     ELSE IF PmemFaults(ph.p_paddr, ph.p_memsz) THEN pc' = "dead" /\ UNCHANGED mem
     ELSE mem' = SegmentLoaded(ph, vm.pmem + ph.p_paddr) /\ UNCHANGED pc
  /\ i' = i + 1
  /\ UNCHANGED <<pageVars, handover, vm>>

(* e_entry is the guest's first instruction; init_vm_mbi writes no memory. *)
ElfImageLoaded ==
  /\ pc = "load_elf_image"
  /\ i > Len(Phdrs)
  /\ vm' = [vm EXCEPT !.rip = handover.image.e_entry]
  /\ pc' = "create_temp_page_table"
  /\ UNCHANGED <<pageVars, handover, i, mem>>

(* The tables the guest starts on: its first 4 Mbytes, virtual = physical. *)
TempTables(cr3) ==
  LET link(to) == [base |-> to, flags |-> {"PRESENT", "RW"}]
      page(n)  == [base |-> n, flags |-> {"PRESENT", "RW", "PAGE_SIZE"}]
  IN << [ClearTable EXCEPT ![0] = link(cr3 + 1)],
        [ClearTable EXCEPT ![0] = link(cr3 + 2)],
        [ClearTable EXCEPT ![0] = page(0), ![1] = page(1)] >>

\* Faulty form: the guest's address taken for the host's.
TempTableBaseInGuest == vm.cr3

(* Where the VMM writes them: guest-physical cr3 seen from the host. *)
TempTableBase == vm.pmem + vm.cr3

create_temp_page_table ==
  /\ pc = "create_temp_page_table"
  /\ IF PmemFaults(vm.cr3, 3) THEN pc' = "dead" /\ UNCHANGED mem
     ELSE /\ mem' = [f \in DOMAIN mem |->
                       IF f \in FramesOf(TempTableBase, 3)
                       THEN <<"entries", TempTables(vm.cr3)[f - TempTableBase + 1]>>
                       ELSE mem[f]]
          /\ pc' = "vm_boot"
  /\ UNCHANGED <<pageVars, handover, i, vm>>

(* vm_boot: vmcb_check_consistency passes (CreatedIsLaunched of Vmcb); then
   svm_launch: VMRUN saves the host's state and enters the guest. *)
switch_to_guest_os ==
  /\ pc = "vm_boot"
  /\ pc' = "guest"
  /\ UNCHANGED <<pageVars, handover, i, vm, mem>>

------------------------------------------------------------------------------
(* The host frames the nested tables give for guest-physical frame g: at most
   one, and none when the access ends in a nested page fault. *)
HostFrames(g) ==
  {t.frame * SuperPageSize + (g % SuperPageSize) :
     t \in {u \in Translation(vm.h_cr3, PageOf(g)) : u.user}}

(* The guest is any program that writes memory by stores: each goes through the
   nested tables, to any frame they reach. *)
GuestWrites ==
  /\ pc = "guest"
  /\ \E g \in GuestFrames : \E f \in HostFrames(g) :
       mem' = [mem EXCEPT ![f] = <<"guest">>]
  /\ UNCHANGED <<pageVars, pc, handover, i, vm>>

(* It exits by an intercepted VMRUN or by an access that is not translated. *)
GuestExits ==
  /\ pc = "guest"
  /\ pc' = "handle_vmexit"
  /\ UNCHANGED <<pageVars, handover, i, vm, mem>>

(* The exit is printed, the loop breaks, start_vmm returns to boot.S: ud2. *)
handle_vmexit ==
  /\ pc = "handle_vmexit"
  /\ pc' = "dead"
  /\ UNCHANGED <<pageVars, handover, i, vm, mem>>

BootStep ==
  \/ Allocate \/ AllocationFails
  \/ set_state_save_area
  \/ CreateNestedRoot \/ create_vm_pmem_mapping_table \/ RunMmap
  \/ MappingTableFails \/ MappingTableDone
  \/ load_elf_image \/ ElfImageLoaded
  \/ create_temp_page_table
  \/ switch_to_guest_os

Next == BootStep \/ GuestWrites \/ GuestExits \/ handle_vmexit

Spec == Init /\ [][Next]_vars

(* The processor keeps executing the boot path; the guest owes nothing. *)
FairSpec == Spec /\ WF_vars(BootStep)

------------------------------------------------------------------------------
BootPc ==
  DOMAIN Callers \cup
  {"set_state_save_area", "pml4_table_create", "create_vm_pmem_mapping_table",
   "load_elf_image", "create_temp_page_table", "vm_boot"}

(* Every variable keeps the type the code gives it; physical memory neither
   grows nor shrinks, so no step writes behind its last frame, and what vm_create
   computes are its frames.  Nobody looks at e_entry, which the guest starts at. *)
TypeOK ==
  /\ PageTypeOK
  /\ pc \in BootPc \cup {"guest", "handle_vmexit", "dead"}
  /\ handover \in Handovers
  /\ i \in Nat
  /\ DOMAIN mem = 0 .. TopFrame
  /\ DOMAIN vm = {"hsa", "vmcb", "iopm", "msrpm", "pmem", "h_cr3", "cr3", "rip"}
  /\ \A x \in DOMAIN vm \ {"rip"} : vm[x] \in 0 .. TopFrame
  /\ vm.rip \in Nat

(* The frames each part of the machine has been given. *)
Owners ==
  [hsa |-> {f \in {vm.hsa} : f # 0}, vmcb |-> {f \in {vm.vmcb} : f # 0},
   iopm |-> IF vm.iopm = 0 THEN {} ELSE FramesOf(vm.iopm, 3),
   msrpm |-> IF vm.msrpm = 0 THEN {} ELSE FramesOf(vm.msrpm, 2),
   pmem |-> IF vm.pmem = 0 THEN {} ELSE FramesOf(vm.pmem, PmemSize),
   tables |-> DOMAIN tables]

GrantedFrames == UNION {FramesOf(grants[a].first, grants[a].nr) : a \in DOMAIN grants}

(***************************************************************************)
(* Each frame that alloc_pages returned to svm.c, vm.c or page.c belongs   *)
(* to exactly one of the save area, the VMCB, the intercept tables, the    *)
(* guest's memory and the nested tables: no size or address was lost on    *)
(* the way from the allocator into the VMCB (vm.c:16-62, 122-128).         *)
(***************************************************************************)
EveryFrameOwnedOnce ==
  pc # "dead" =>
    /\ GrantedFrames = UNION {Owners[x] : x \in DOMAIN Owners}
    /\ \A x, y \in DOMAIN Owners : x # y => Owners[x] \cap Owners[y] = {}

(* Room for nr frames at a multiple of align, below the 1 GB that VIRT reaches. *)
HasRoom(frames, nr, align) ==
  \E f \in frames : f % align = 0 /\ FramesOf(f, nr) \subseteq frames /\ f + nr <= MappedFrames

(* There is no such room for what a function asks for, or writes to. *)
NoRoomLeft ==
  /\ pc \in DOMAIN Callers => ~ HasRoom(pool, Callers[pc].nr, Callers[pc].align)
  /\ pc \in {"pml4_table_create", "create_vm_pmem_mapping_table"} => ~ HasRoom(pool, 1, 1)
  /\ pc \in {"load_elf_image", "create_temp_page_table"} =>
       ~ HasRoom(pool \cup Owners.pmem, PmemSize, SuperPageSize)

(***************************************************************************)
(* The construction is abandoned, half built as it is, only for want of    *)
(* memory that the VMM can reach: the allocator knows nothing of the 1 GB  *)
(* behind VIRT, and must not answer with a frame above it, nor put the     *)
(* guest's memory there, as long as there is room below (page.c:10-13,     *)
(* vm.c:16-38, 122-128, elf.c:40-47).                                      *)
(***************************************************************************)
FailsOnlyWithoutRoom == [][(pc \in BootPc /\ pc' = "dead") => NoRoomLeft]_vars

Built == pc \in {"vm_boot", "guest", "handle_vmexit"}

(* The program and its heap, the stashed file, and what was allocated for the VMM. *)
VmmFrames ==
  (SuperPageSize .. HeapEnd - 1) \cup Stash(handover) \cup (GrantedFrames \ Owners.pmem)

(***************************************************************************)
(* No guest-physical address reaches a frame of the VMM, although the      *)
(* guest's first 2 Mbytes are the machine's own first 2 Mbytes             *)
(* (vm.c:142-168, "for VGA (too naive)").                                  *)
(***************************************************************************)
GuestIsConfined ==
  Built => \A n \in Pages, offset \in 0 .. SuperPageSize - 1 :
             HostFrames(n * SuperPageSize + offset) \cap VmmFrames = {}

(***************************************************************************)
(* The guest reaches all the memory it was promised and nothing else, and  *)
(* user mode is allowed, as a nested walk requires (vm.c:150-168).         *)
(***************************************************************************)
GuestMemoryMapped ==
  Built => \A n \in Pages :
    Translation(vm.h_cr3, n) =
      IF n * SuperPageSize >= PmemSize THEN {}
      ELSE {[frame |-> IF n = 0 THEN 0 ELSE (vm.pmem \div SuperPageSize) + n, user |-> TRUE]}

(***************************************************************************)
(* What the VMM wrote for itself stays what it was, while the image is     *)
(* loaded, the guest's tables are written and the guest stores what it     *)
(* likes through the nested tables: the save area, the VMCB, the intercept *)
(* tables, the nested tables, the program and its bitmap, and the stashed  *)
(* file (svm.c:18-31, vm.c:16-62).                                         *)
(***************************************************************************)
VmmIntact ==
  LET Holds(frames, content) == \A f \in frames : mem[f] = content IN
  /\ Holds(Owners.hsa, <<"hsa">>)
  /\ Holds(Owners.vmcb, <<"vmcb">>)
  /\ Holds(Owners.iopm \cup Owners.msrpm, <<"intercepts">>)
  /\ Holds(Owners.tables, <<"table">>)
  /\ \A f \in DOMAIN handover.vmm : mem[f] = handover.vmm[f]
  /\ \A f \in Stash(handover) : mem[f] = <<"file", f - handover.stash>>

(* What the guest reads at guest-physical frame g. *)
GuestReads(g) == {mem[f] : f \in HostFrames(g)}

(* What a segment prescribes for its guest-physical frame g. *)
Prescribed(ph, g) ==
  IF g - ph.p_paddr < ph.p_filesz THEN <<"file", ph.p_offset + (g - ph.p_paddr)>>
  ELSE <<"zero">>

AsPrescribed(frames) ==
  \A k \in DOMAIN Phdrs : is_loadable_phdr(Phdrs[k]) =>
    \A g \in Target(Phdrs[k]) \cap frames : GuestReads(g) = {Prescribed(Phdrs[k], g)}

TempTableFrames == FramesOf(vm.cr3, 3)

(* Each frame of each loadable segment, except below 2 Mbytes, which is not the
   guest's memory, and under its first page table. *)
SegmentsInPlace == AsPrescribed((SuperPageSize .. PmemSize - 1) \ TempTableFrames)

(***************************************************************************)
(* "Copy the OS image to the specified region by interpreting the ELF      *)
(* format" (vm.c:224): the same without the exception for the frames of    *)
(* the guest's first page table.                                           *)
(***************************************************************************)
ImageSurvives == pc = "vm_boot" => AsPrescribed(SuperPageSize .. PmemSize - 1)

(* The entry the guest's tables hold in frame g for virtual frame v: the frame
   is read through the nested tables. *)
GuestEntries(g, v, level) ==
  {e \in {mem[f][2][get_index(v, level)] : f \in {h \in HostFrames(g) : mem[h][1] = "entries"}} :
     entry_is_present(e)}

GuestWalk(v) ==
  LET top == GuestEntries(vm.cr3, v, PGT_LEVEL_PML4)
      mid == UNION {GuestEntries(e.base, v, PGT_LEVEL_PDP) : e \in top}
      low == UNION {GuestEntries(e.base, v, PGT_LEVEL_PD) : e \in mid}
  IN {e.base * SuperPageSize + (v % SuperPageSize) : e \in low}

(* The guest's first 4 Mbytes are mapped to themselves, and there is memory
   where it starts. *)
GuestCanStart ==
  /\ \A v \in 0 .. 2 * SuperPageSize - 1 : GuestWalk(v) = {v}
  /\ vm.rip < 2 * SuperPageSize => GuestReads(vm.rip) # {}

(***************************************************************************)
(* When the guest starts it can fetch its first instruction, and finds its *)
(* program: CR3 holds a guest-physical address at which, through the       *)
(* nested tables, lies a page table that maps its first 4 Mbytes, and each *)
(* loadable segment lies at its physical address, file contents and        *)
(* cleared tail (elf.c:20-53, vm.c:107-108, 170-233).                      *)
(***************************************************************************)
GuestStarts == pc = "vm_boot" => GuestCanStart /\ SegmentsInPlace

(* The boot path always ends: in the guest, or in fatal_failure. *)
BootEnds == <>(pc \in {"guest", "dead"})
===============================================================================
