------------------------------- MODULE BootEntry -------------------------------
(***************************************************************************)
(* kernel/boot.S: from the loader's 32-bit protected mode to start_vmm in  *)
(* 64-bit mode, on the page tables the file itself contains.               *)
(*                                                                         *)
(* A virtual address is the indices that select its 2 MB page in the three *)
(* levels of tables, a physical one the number of the 2 MB page.  Places   *)
(* within a page, and the base and limit of the flat segments, are left    *)
(* out.  A register of flags is the set of its bits by name.               *)
(***************************************************************************)
EXTENDS Naturals, Sequences

CONSTANTS
  PageOf,      \* symbol -> the physical 2 MB page the loader puts it in
  Loaders      \* the states a loader may leave: eax, ebx, cr4 and efer

TableSize == 512
Symbols == {"physical_entry", "virtual_entry", "start_vmm", "multiboot_ptr", "gdt_table", "boot_stack"}

ASSUME BootEntryAssumption ==
  /\ PageOf \in [Symbols -> 0 .. TableSize - 1]
  /\ Loaders \subseteq [eax : {"MULTIBOOT_BOOTLOADER_MAGIC", "other"}, ebx : Nat,
                        cr4 : SUBSET {"PSE", "PAE", "PGE"}, efer : SUBSET {"SCE", "NX"}]

VARIABLES
  loader,         \* what the loader left
  ip,             \* the next instructions; "die", "shutdown" (a fault with no
                  \* handler) and "start_vmm" are the last
  cr0, cr3, cr4, efer,
  gdtr,           \* the virtual address the descriptor table is read at
  seg,            \* the descriptors in cs, the data segments and ss
  rsp,            \* the page of the stack's top
  rdi,            \* the argument of start_vmm
  multiboot_ptr   \* a page, stored in memory

entryVars == <<loader, ip, cr0, cr3, cr4, efer, gdtr, seg, rsp, rdi, multiboot_ptr>>

------------------------------------------------------------------------------
(* VMM_OFFSET is 0xFFFF830000000000; PHYS and VIRT add it and take it away. *)
PHYS(page) == [pml4 |-> 0, pdp |-> page \div TableSize, pd |-> page % TableSize]
VIRT(page) == [pml4 |-> 262, pdp |-> page \div TableSize, pd |-> page % TableSize]

\* Faulty form: the slot before.
vmm_pml4_table_261 == [i \in 0 .. TableSize - 1 |-> IF i \in {0, 261} THEN "vmm_pdp_table" ELSE "none"]
vmm_pml4_table == [i \in 0 .. TableSize - 1 |-> IF i \in {0, 262} THEN "vmm_pdp_table" ELSE "none"]
vmm_pdp_table == [i \in 0 .. TableSize - 1 |-> IF i = 0 THEN "vmm_pdir_table" ELSE "none"]

(* The macro halves its count, a power of 2, until it is 1. *)
Blocks ==
  {b \in (0 .. TableSize - 1) \X {1, 2, 4, 8, 16, 32, 64, 128, 256, 512} : b[1] + b[2] <= TableSize}
identmap[b \in Blocks] ==
  IF b[2] = 1 THEN <<b[1]>>
  ELSE identmap[<<b[1], b[2] \div 2>>] \o identmap[<<b[1] + b[2] \div 2, b[2] \div 2>>]
vmm_pdir_table == identmap[<<0, TableSize>>]

(* The walk of the processor: the physical page, or "fault". *)
Paging == "PG" \in cr0
Translate(va) ==
  IF ~ Paging THEN TableSize * va.pdp + va.pd
  ELSE IF cr3 = "vmm_pml4_table" /\ vmm_pml4_table[va.pml4] # "none" /\ vmm_pdp_table[va.pdp] # "none"
  THEN vmm_pdir_table[va.pd + 1] ELSE TableSize
Mapped(va) == Translate(va) # TableSize

(* The descriptors, by their number. *)
gdt_table ==
  << "code32", "code64", "data", "user code32", "user data", "user code64", "none",
     "none", "none", "none", "none" >>
VMM_CS64 == 2
VMM_DS32 == 3
VMM_DS64 == 0

(* The table read at the base lgdt was given. *)
Loadable(selector, kinds) ==
  /\ Mapped(gdtr) /\ Translate(gdtr) = PageOf["gdt_table"]
  /\ gdt_table[selector] \in kinds

LongMode == "LMA" \in efer /\ seg.cs = "code64"

EntryInit ==
  /\ loader \in Loaders
  /\ ip = "physical_entry"
  /\ cr0 = {"PE"} /\ cr3 = "loader" /\ cr4 = loader.cr4 /\ efer = loader.efer
  /\ gdtr = PHYS(TableSize)
  /\ seg = [cs |-> "code32", ds |-> "data", ss |-> "data"]
  /\ rsp = PHYS(TableSize) /\ rdi = PHYS(TableSize)
  /\ multiboot_ptr = TableSize

(* The instructions at a place, which is read at its physical address; a fault
   ends it all, since no handler is set up. *)
Execute(at, symbol, legal, next) ==
  /\ ip = at
  /\ ip' = IF Mapped(PHYS(PageOf[symbol])) /\ legal THEN next ELSE "shutdown"

------------------------------------------------------------------------------
physical_entry ==
  /\ ip = "physical_entry"
  /\ ip' = IF loader.eax = "MULTIBOOT_BOOTLOADER_MAGIC" THEN "store" ELSE "die"
  /\ UNCHANGED <<loader, cr0, cr3, cr4, efer, gdtr, seg, rsp, rdi, multiboot_ptr>>

StoreMultibootPtr ==
  /\ Execute("store", "physical_entry", TRUE, "lgdt")
  /\ multiboot_ptr' = loader.ebx
  /\ UNCHANGED <<loader, cr0, cr3, cr4, efer, gdtr, seg, rsp, rdi>>

LoadBootGdt ==
  /\ Execute("lgdt", "physical_entry", TRUE, "ds32")
  /\ gdtr' = PHYS(PageOf["gdt_table"])
  /\ UNCHANGED <<loader, cr0, cr3, cr4, efer, seg, rsp, rdi, multiboot_ptr>>

LoadDs32 ==
  /\ Execute("ds32", "physical_entry", Loadable(VMM_DS32, {"data"}), "cr4")
  /\ seg' = [cs |-> seg.cs, ds |-> gdt_table[VMM_DS32], ss |-> gdt_table[VMM_DS32]]
  /\ UNCHANGED <<loader, cr0, cr3, cr4, efer, gdtr, rsp, rdi, multiboot_ptr>>

\* Faulty form: the bit's number, not its mask.
NewCr4_number == {"PSE"}

(* 5 << 5: the bits 5 and 7. *)
NewCr4 == {"PAE", "PGE"}

EnablePae ==
  /\ Execute("cr4", "physical_entry", TRUE, "cr3")
  /\ cr4' = NewCr4
  /\ UNCHANGED <<loader, cr0, cr3, efer, gdtr, seg, rsp, rdi, multiboot_ptr>>

LoadCr3 ==
  /\ Execute("cr3", "physical_entry", TRUE, "wrmsr")
  /\ cr3' = "vmm_pml4_table"
  /\ UNCHANGED <<loader, cr0, cr4, efer, gdtr, seg, rsp, rdi, multiboot_ptr>>

SetEfer(e) == e \cup {"LME", "SCE"}

(* CPU_ID_EXT_FEATURES is 0: NX is never set here. *)
EnableLongMode ==
  /\ Execute("wrmsr", "physical_entry", TRUE, "cr0")
  /\ efer' = SetEfer(efer)
  /\ UNCHANGED <<loader, cr0, cr3, cr4, gdtr, seg, rsp, rdi, multiboot_ptr>>

(* With EFER.LME, CR0.PG needs CR4.PAE, and sets EFER.LMA. *)
EnablePaging ==
  /\ Execute("cr0", "physical_entry", "LME" \in efer => "PAE" \in cr4, "ljmp")
  /\ cr0' = {"PE", "MP", "ET", "NE", "WP", "AM", "PG"}
  /\ efer' = efer \cup {b \in {"LMA"} : "LME" \in efer}
  /\ UNCHANGED <<loader, cr3, cr4, gdtr, seg, rsp, rdi, multiboot_ptr>>

LongJump ==
  /\ Execute("ljmp", "physical_entry", Loadable(VMM_CS64, {"code32", "code64"}), "virtual_entry")
  /\ seg' = [cs |-> gdt_table[VMM_CS64], ds |-> seg.ds, ss |-> seg.ss]
  /\ UNCHANGED <<loader, cr0, cr3, cr4, efer, gdtr, rsp, rdi, multiboot_ptr>>

(* Instructions of 64-bit code mean something else in another mode. *)
virtual_entry ==
  /\ Execute("virtual_entry", "virtual_entry", LongMode, "stack")
  /\ gdtr' = VIRT(PageOf["gdt_table"])
  /\ UNCHANGED <<loader, cr0, cr3, cr4, efer, seg, rsp, rdi, multiboot_ptr>>

(* movabs, and the first push. *)
InitStack ==
  /\ rsp' = VIRT(PageOf["boot_stack"])
  /\ Execute("stack", "virtual_entry", Mapped(rsp'), "ds64")
  /\ UNCHANGED <<loader, cr0, cr3, cr4, efer, gdtr, seg, rdi, multiboot_ptr>>

(* The selector 0 names no descriptor, which 64-bit mode allows in ring 0. *)
LoadDs64 ==
  /\ Execute("ds64", "virtual_entry", VMM_DS64 = 0 \/ Loadable(VMM_DS64, {"data"}), "argument")
  /\ seg' = [cs |-> seg.cs, ds |-> "none", ss |-> "none"]
  /\ UNCHANGED <<loader, cr0, cr3, cr4, efer, gdtr, rsp, rdi, multiboot_ptr>>

\* Faulty form: passes the physical address.
Argument_phys(page) == PHYS(page)
Argument(page) == VIRT(page)

PassMultibootPtr ==
  /\ Execute("argument", "virtual_entry", Mapped(PHYS(PageOf["multiboot_ptr"])), "call")
  /\ rdi' = Argument(multiboot_ptr)
  /\ UNCHANGED <<loader, cr0, cr3, cr4, efer, gdtr, seg, rsp, multiboot_ptr>>

(* The call is relative to rip: start_vmm runs at its physical address. *)
CallStartVmm ==
  /\ Execute("call", "virtual_entry", Mapped(rsp) /\ Mapped(PHYS(PageOf["start_vmm"])), "start_vmm")
  /\ UNCHANGED <<loader, cr0, cr3, cr4, efer, gdtr, seg, rsp, rdi, multiboot_ptr>>

EntryNext ==
  \/ physical_entry \/ StoreMultibootPtr \/ LoadBootGdt \/ LoadDs32 \/ EnablePae \/ LoadCr3
  \/ EnableLongMode \/ EnablePaging \/ LongJump \/ virtual_entry \/ InitStack \/ LoadDs64
  \/ PassMultibootPtr \/ CallStartVmm

EntrySpec == EntryInit /\ [][EntryNext]_entryVars

------------------------------------------------------------------------------
(***************************************************************************)
(* From paging on, the code runs at low addresses, its stack, descriptors  *)
(* and pointers are at high ones, and both mean the same memory: each of   *)
(* the 512 pages is reached at PHYS and at VIRT of it, and no page beyond  *)
(* them is ("Maps first 1GB physical memory.", boot.S:176-201).            *)
(***************************************************************************)
EveryPageTwice ==
  Paging =>
    /\ \A page \in 0 .. TableSize - 1 : Translate(PHYS(page)) = page /\ Translate(VIRT(page)) = page
    /\ \A page \in TableSize .. TableSize + 1 : ~ Mapped(PHYS(page)) /\ ~ Mapped(VIRT(page))

(***************************************************************************)
(* What C code relies on when start_vmm begins, whatever the loader left:  *)
(* 64-bit mode, a mapped stack, PAE tables, no SVM yet, EFER as enable_svm *)
(* reads it, and a first argument through which the loader's information   *)
(* is read, if it lies in the mapped memory (boot.S:33-140).               *)
(***************************************************************************)
EntryContract ==
  ip = "start_vmm" =>
    /\ LongMode /\ Paging /\ "PAE" \in cr4
    /\ efer = loader.efer \cup {"LME", "LMA", "SCE"}
    /\ Translate(rsp) = PageOf["boot_stack"] /\ Translate(gdtr) = PageOf["gdt_table"]
    /\ rdi.pml4 = VIRT(0).pml4
    /\ loader.ebx < TableSize => Translate(rdi) = loader.ebx
===============================================================================
