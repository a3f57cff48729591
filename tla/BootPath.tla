------------------------------- MODULE BootPath -------------------------------
(***************************************************************************)
(* kernel/setup.c from start_vmm to the guest: setup_arch (SetupArch) and  *)
(* vm_create with vm_boot (VmCreate) on one physical memory, one bitmap    *)
(* and one image.  VmCreate alone starts from any pool and stash that its  *)
(* assumption allows; here they are what setup_arch computed from the      *)
(* boot loader's memory map and module, alloc_pages is alloc_boot_pages,   *)
(* and the image is the module wherever the loader put it, also right      *)
(* behind the program, where the bitmap will lie.                          *)
(*                                                                         *)
(* The unit is the frame in both parts: PageSize is 1.                     *)
(***************************************************************************)
EXTENDS SetupArch

CONSTANTS
  SuperPageSize, TableSize, PmemSize, TopFrame, GuestFrames,  \* as in VmCreate
  Modules       \* the <<mod_start, ELF image>> of the module a loader may load

VARIABLES
  module,   \* the member of Modules of this boot, never written
  tables, pml4s, mode, walk,   \* page.c
  vpc,      \* the function of vm_create or vm_boot that is next
  vi,       \* its loop index
  vm,       \* struct vm
  mem       \* physical frame -> what it holds

vmPathVars == <<module, tables, pml4s, mode, walk, vpc, vi, vm>>
pathVars == <<vars, vmPathVars, mem>>

ModuleStart == module[1]
Image == module[2]

(* What the frames of the program and, once it is laid out, the bitmap hold. *)
ProgramAndBitmap ==
  [f \in SuperPageSize .. heap_start - 1 |->
     IF f < KernelEnd THEN <<"program">> ELSE <<"bitmap">>]

VM == INSTANCE VmCreate
        WITH pool <- GrantableFrames, grants <- handed, pc <- vpc, i <- vi,
             handover <- [pool |-> {}, stash |-> image.start, image |-> Image, vmm |-> ProgramAndBitmap],
             Handovers <- {}, Pools <- {{}}, Mappings <- {}, MappedFrames <- MappedLimit

(* The requests are those of vm_create: its own and, frame by frame, page.c's. *)
ASSUME BootPathAssumption ==
  /\ PageSize = 1
  /\ SuperPageSize <= KernelEnd
  /\ VM!PageTableAssumption /\ VM!VmCreateAssumption
  /\ \A m \in Modules : m[1] \in Nat /\ m[2].size \in Nat /\ VM!WellFormed(m[2])
  /\ <<1, 1>> \in Requests
  /\ \A x \in DOMAIN VM!Callers : <<VM!Callers[x].nr, VM!Callers[x].align>> \in Requests

(* The loader puts the module into RAM it can reach, behind the program. *)
LoadedIn(info) ==
  /\ KernelEnd <= ModuleStart
  /\ ModuleStart + Image.size <= MappedLimit
  /\ \E o \in DOMAIN info.mmap :
       /\ IsRam(info.mmap[o])
       /\ info.mmap[o].addr <= ModuleStart
       /\ ModuleStart + Image.size <= EntryEnd(info.mmap[o])

PathInit ==
  /\ Init
  /\ module \in Modules
  /\ mbi.mod_size = Image.size
  /\ LoadedIn(mbi)
  /\ VM!PageInit
  /\ vpc = "alloc_host_save_area"
  /\ vi = 0
  /\ vm = VM!NewVm
  /\ mem = [f \in 0 .. TopFrame |->
              IF f \in VM!FramesOf(ModuleStart, Image.size) THEN <<"file", f - ModuleStart>>
              ELSE IF f \in SuperPageSize .. KernelEnd - 1 THEN <<"program">>
              ELSE <<"other">>]

------------------------------------------------------------------------------
\* Faulty form: copies the frames upwards one by one, whatever they overlap.
CopiedUpwards ==
  LET Source[k \in 0 .. Image.size - 1] ==
        LET from == ModuleStart + k
        IN IF from \in image'.start .. image'.start + k - 1 THEN Source[from - image'.start]
           ELSE mem[from]
  IN [f \in DOMAIN mem |->
        IF f \in VM!FramesOf(image'.start, Image.size) THEN Source[f - image'.start] ELSE mem[f]]

(* memmove ( VIRT ( guest_image_start ), VIRT ( mod_start ), size ) *)
ModuleCopied ==
  [f \in DOMAIN mem |->
     IF f \in VM!FramesOf(image'.start, Image.size)
     THEN mem[ModuleStart + (f - image'.start)] ELSE mem[f]]

(* The memset of naive_allocator_init. *)
BitmapWritten ==
  [f \in DOMAIN mem |->
     IF f \in alloc_bitmap_start .. alloc_bitmap_start + bitmap_size - 1
     THEN <<"bitmap">> ELSE mem[f]]

(* setup_arch, with what its two bulk writes do to memory. *)
SetupStep ==
  /\ \/ copy_guest_image /\ pc' # "dead" /\ mem' = ModuleCopied
     \/ copy_guest_image /\ pc' = "dead" /\ UNCHANGED mem
     \/ naive_allocator_init /\ mem' = BitmapWritten
     \/ /\ \/ MapNext /\ UNCHANGED allocVars
           \/ NoGuestImage \/ NoRoomForImage \/ NoHeapSpace
           \/ init_alloc_bitmap \/ InitAllocBitmapDone
        /\ UNCHANGED mem
  /\ UNCHANGED vmPathVars

(* The next thing vm_create or vm_boot does needs no frame. *)
WithoutFrames ==
  /\ pc = "ready"
  /\ UNCHANGED <<vars, module>>
  /\ \/ VM!set_state_save_area
     \/ VM!create_vm_pmem_mapping_table
     \/ VM!RunMmap
     \/ VM!MappingTableDone
     \/ VM!load_elf_image \/ VM!ElfImageLoaded
     \/ VM!create_temp_page_table
     \/ VM!switch_to_guest_os

(* It calls alloc_pages, which returns a run; the caller may fault on it. *)
WithFrames ==
  /\ UNCHANGED module
  /\ \/ /\ vpc \in DOMAIN VM!Callers
        /\ alloc_boot_pages(VM!Callers[vpc].nr, VM!Callers[vpc].align)
        /\ VM!Allocate \/ VM!AllocationFails
     \/ alloc_boot_pages(1, 1) /\ (VM!CreateNestedRoot \/ VM!RunMmap \/ VM!MappingTableFails)

(* It calls alloc_pages, which finds no run. *)
WithoutRun ==
  /\ UNCHANGED module
  /\ \/ /\ vpc \in DOMAIN VM!Callers
        /\ OutOfPages(VM!Callers[vpc].nr, VM!Callers[vpc].align)
        /\ VM!AllocationFails
     \/ OutOfPages(1, 1) /\ VM!MappingTableFails

PathStep == SetupStep \/ WithoutFrames \/ WithFrames \/ WithoutRun

(* The guest runs, exits, and the exit is printed. *)
Afterwards ==
  /\ UNCHANGED <<vars, module>>
  /\ VM!GuestWrites \/ VM!GuestExits \/ VM!handle_vmexit

PathNext == PathStep \/ Afterwards

PathSpec == PathInit /\ [][PathNext]_pathVars

------------------------------------------------------------------------------
Stashed == pc \in {"naive_allocator_init", "init_alloc_bitmap", "ready"}
StashFrames == VM!Stash([stash |-> image.start, image |-> Image])

(***************************************************************************)
(* From copy_guest_image to the end, the stash holds the module the loader *)
(* loaded, wherever the loader put it: under the future bitmap, across the *)
(* stash itself, or in frames that alloc_pages hands out later ("the page  *)
(* allocater may destroy the image", setup.c:94; alloc.c:139-164).  Of the *)
(* guest, any store that goes through the nested tables is considered.     *)
(***************************************************************************)
ModuleSurvives ==
  Stashed => \A k \in 0 .. Image.size - 1 : mem[image.start + k] = <<"file", k>>

(***************************************************************************)
(* setup_arch leaves what vm_create relies on: free frames in memory and   *)
(* above the heap, none of them under the stash, and vm_create asks for    *)
(* its first frame only then (setup.c:84-119).                             *)
(***************************************************************************)
HandoverAsAssumed ==
  IF pc = "ready"
  THEN /\ GrantableFrames \cup StashFrames \subseteq HeapEnd .. TopFrame
       /\ GrantableFrames \cap StashFrames = {}
  ELSE pc # "dead" => vpc = "alloc_host_save_area" /\ handed = << >>

(***************************************************************************)
(* The guest the loader named is the guest that starts: through the nested *)
(* tables it finds its module's segments and a page table to start on      *)
(* (setup.c:106-119, vm.c:205-233, elf.c:20-53).                           *)
(***************************************************************************)
ModuleBecomesGuest == VM!GuestStarts

(***************************************************************************)
(* While image, tables and guest memory are written and the guest stores   *)
(* what it likes through the nested tables, the program and the allocation *)
(* bitmap keep what they hold, and so do the frames given to the VMM; no   *)
(* guest address reaches any of them (alloc.c:139-164, vm.c:142-168).      *)
(***************************************************************************)
VmmKept ==
  LET bitmap_frames == alloc_bitmap_start .. heap_start - 1
      Hold(frames, content) == \A f \in frames : mem[f] = content
  IN /\ Hold(SuperPageSize .. KernelEnd - 1, <<"program">>)
     /\ LaidOut => Hold(bitmap_frames, <<"bitmap">>)
     /\ Hold(VM!Owners.hsa, <<"hsa">>) /\ Hold(VM!Owners.vmcb, <<"vmcb">>)
     /\ Hold(VM!Owners.iopm \cup VM!Owners.msrpm, <<"intercepts">>)
     /\ Hold(VM!Owners.tables, <<"table">>)
     /\ VM!GuestIsConfined
===============================================================================
