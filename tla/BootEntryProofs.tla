---------------------------- MODULE BootEntryProofs ----------------------------
(***************************************************************************)
(* The boot page tables map the first 512 pages twice, and the entry code  *)
(* hands start_vmm what it relies on, for every loader and every place the *)
(* linker may give the symbols.                                            *)
(***************************************************************************)
EXTENDS BootEntry, SequenceTheorems, TLAPS

------------------------------------------------------------------------------
(* The pages from a first one on. *)
PagesFrom(from, count) == [i \in 1 .. count |-> from + i - 1]

(* One step of the macro, over any table of blocks. *)
Halved(f, b) ==
  IF b[2] = 1 THEN <<b[1]>>
  ELSE f[<<b[1], b[2] \div 2>>] \o f[<<b[1] + b[2] \div 2, b[2] \div 2>>]

(* The two halves of a block are blocks. *)
LEMMA HalvesAreBlocks ==
  ASSUME NEW b \in Blocks, b[2] # 1
  PROVE  /\ <<b[1], b[2] \div 2>> \in Blocks
         /\ <<b[1] + b[2] \div 2, b[2] \div 2>> \in Blocks
         /\ b[2] = 2 * (b[2] \div 2) /\ b[1] \in Nat /\ b[2] \div 2 \in Nat
  <1>1. /\ b[1] \in 0 .. 511 /\ b[2] \in {2, 4, 8, 16, 32, 64, 128, 256, 512}
        /\ b[1] + b[2] <= 512
    BY DEF Blocks, TableSize
  <1>2. b[2] \div 2 \in {1, 2, 4, 8, 16, 32, 64, 128, 256} /\ b[2] = 2 * (b[2] \div 2)
    BY <1>1
  <1>3. <<b[1], b[2] \div 2>> \in (0 .. 511) \X {1, 2, 4, 8, 16, 32, 64, 128, 256, 512}
    BY <1>1, <1>2
  <1>4. <<b[1] + b[2] \div 2, b[2] \div 2>> \in (0 .. 511) \X {1, 2, 4, 8, 16, 32, 64, 128, 256, 512}
    BY <1>1, <1>2
  <1> QED BY <1>1, <1>2, <1>3, <1>4 DEF Blocks, TableSize

(* Two adjacent runs of pages are one. *)
LEMMA AdjacentRuns ==
  ASSUME NEW from \in Nat, NEW n \in Nat
  PROVE  PagesFrom(from, n) \o PagesFrom(from + n, n) = PagesFrom(from, 2 * n)
  <1> DEFINE p == PagesFrom(from, n)
             q == PagesFrom(from + n, n)
             r == PagesFrom(from, 2 * n)
  <1>1. p \in Seq(Nat) /\ q \in Seq(Nat) /\ r \in Seq(Nat)
    BY DEF PagesFrom
  <1>2. Len(p) = n /\ Len(q) = n /\ Len(r) = 2 * n
    BY DEF PagesFrom
  <1>3. \A i \in 1 .. 2 * n : (p \o q)[i] = r[i]
    BY <1>1, <1>2 DEF PagesFrom
  <1> HIDE DEF p, q, r
  <1>4. p \o q \in Seq(Nat) /\ Len(p \o q) = 2 * n
    <2>1. p \o q \in Seq(Nat) /\ Len(p \o q) = Len(p) + Len(q)
      BY <1>1, ConcatProperties, Zenon
    <2> QED BY <1>2, <2>1
  <1>5. p \o q = r
    BY <1>1, <1>2, <1>3, <1>4, SeqEqual
  <1> QED BY <1>5 DEF p, q, r

(* The macro has a value for every block: its definition can be met. *)
LEMMA MacroMeetsDefinition == identmap = [b \in Blocks |-> Halved(identmap, b)]
  <1> DEFINE g == [b \in Blocks |-> PagesFrom(b[1], b[2])]
  <1>1. ASSUME NEW b \in Blocks
        PROVE  PagesFrom(b[1], b[2]) = Halved(g, b)
    <2>1. CASE b[2] = 1
      <3>1. b[1] \in Nat
        BY DEF Blocks, TableSize
      <3> QED BY <2>1, <3>1 DEF PagesFrom, Halved
    <2>2. CASE b[2] # 1
      <3> DEFINE h == b[2] \div 2
      <3>1. /\ <<b[1], h>> \in Blocks /\ <<b[1] + h, h>> \in Blocks
            /\ b[2] = 2 * h /\ b[1] \in Nat /\ h \in Nat
        BY <2>2, HalvesAreBlocks
      <3> HIDE DEF h
      <3>2. g[<<b[1], h>>] = PagesFrom(b[1], h) /\ g[<<b[1] + h, h>>] = PagesFrom(b[1] + h, h)
        BY <3>1
      <3>3. g[<<b[1], h>>] \o g[<<b[1] + h, h>>] = PagesFrom(b[1], b[2])
        BY <3>1, <3>2, AdjacentRuns
      <3> QED BY <2>2, <3>3 DEF Halved, h
    <2> QED BY <2>1, <2>2
  <1>2. g = [b \in Blocks |-> Halved(g, b)]
    BY <1>1, Zenon
  <1> HIDE DEF g
  <1>3. \E f : f = [b \in Blocks |-> Halved(f, b)]
    BY <1>2
  <1>4. identmap = CHOOSE f : f = [b \in Blocks |-> Halved(f, b)]
    BY DEF identmap, Halved
  <1> QED BY <1>3, <1>4

(* The blocks of a size are the pages they start from. *)
Written(n) ==
  \A from \in 0 .. TableSize - 1 :
    from + n <= TableSize => identmap[<<from, n>>] = PagesFrom(from, n)

(* One doubling. *)
HalfCounts == {1, 2, 4, 8, 16, 32, 64, 128, 256}

LEMMA Doubling ==
  ASSUME NEW n \in HalfCounts, Written(n)
  PROVE  Written(2 * n)
  <1> SUFFICES ASSUME NEW from \in 0 .. TableSize - 1, from + 2 * n <= TableSize
               PROVE  identmap[<<from, 2 * n>>] = PagesFrom(from, 2 * n)
    BY Zenon DEF Written
  <1>0. from \in Nat /\ n \in Nat /\ n > 0
    BY DEF HalfCounts
  <1> DEFINE b == <<from, 2 * n>>
  <1>1. b \in Blocks
    BY DEF Blocks, TableSize, HalfCounts
  <1>2. b[1] = from /\ b[2] = 2 * n /\ b[2] # 1 /\ b[2] \div 2 = n
    BY <1>0
  <1> HIDE DEF b
  <1>3. identmap[b] = Halved(identmap, b)
    BY <1>1, MacroMeetsDefinition
  <1>4. identmap[b] = identmap[<<from, n>>] \o identmap[<<from + n, n>>]
    BY <1>2, <1>3 DEF Halved
  <1>5. identmap[<<from, n>>] = PagesFrom(from, n) /\ identmap[<<from + n, n>>] = PagesFrom(from + n, n)
    <2>1. /\ from + n \in 0 .. TableSize - 1
          /\ from + n <= TableSize /\ (from + n) + n <= TableSize
      BY <1>0 DEF TableSize
    <2>2. \A f \in 0 .. TableSize - 1 :
            f + n <= TableSize => identmap[<<f, n>>] = PagesFrom(f, n)
      BY DEF Written
    <2>3. from + n <= TableSize
      BY <2>1
    <2> QED BY <2>1, <2>2, <2>3, Zenon
  <1>6. PagesFrom(from, n) \o PagesFrom(from + n, n) = PagesFrom(from, 2 * n)
    BY <1>0, AdjacentRuns
  <1> QED BY <1>4, <1>5, <1>6, Zenon DEF b

(* The page directory is an identity map. *)
LEMMA DirectoryIsIdentity ==
  \A page \in 0 .. TableSize - 1 : vmm_pdir_table[page + 1] = page
  <1>1. Written(1)
    <2> SUFFICES ASSUME NEW from \in 0 .. TableSize - 1, from + 1 <= TableSize
                 PROVE  identmap[<<from, 1>>] = PagesFrom(from, 1)
      BY Zenon DEF Written
    <2> DEFINE b == <<from, 1>>
    <2>1. b \in Blocks /\ b[1] = from /\ b[2] = 1
      BY DEF Blocks, TableSize
    <2> HIDE DEF b
    <2>2. identmap[b] = <<from>>
      BY <2>1, MacroMeetsDefinition DEF Halved
    <2>3. <<from>> = PagesFrom(from, 1)
      BY DEF PagesFrom
    <2> QED BY <2>2, <2>3 DEF b
  <1>2. Written(2)
    BY <1>1, Doubling, 2 * 1 = 2 DEF HalfCounts
  <1>3. Written(4)
    BY <1>2, Doubling, 2 * 2 = 4 DEF HalfCounts
  <1>4. Written(8)
    BY <1>3, Doubling, 2 * 4 = 8 DEF HalfCounts
  <1>5. Written(16)
    BY <1>4, Doubling, 2 * 8 = 16 DEF HalfCounts
  <1>6. Written(32)
    BY <1>5, Doubling, 2 * 16 = 32 DEF HalfCounts
  <1>7. Written(64)
    BY <1>6, Doubling, 2 * 32 = 64 DEF HalfCounts
  <1>8. Written(128)
    BY <1>7, Doubling, 2 * 64 = 128 DEF HalfCounts
  <1>9. Written(256)
    BY <1>8, Doubling, 2 * 128 = 256 DEF HalfCounts
  <1>10. Written(512)
    BY <1>9, Doubling, 2 * 256 = 512 DEF HalfCounts
  <1>11. vmm_pdir_table = PagesFrom(0, 512)
    BY <1>10 DEF Written, vmm_pdir_table, TableSize
  <1> QED BY <1>11 DEF PagesFrom, TableSize

------------------------------------------------------------------------------
(* With the boot tables in cr3 a low and a high address reach a page, and no
   address of a page beyond the 512 reaches any. *)
LEMMA BothAddressesMapped ==
  ASSUME Paging, cr3 = "vmm_pml4_table", NEW page \in 0 .. TableSize - 1
  PROVE  Translate(PHYS(page)) = page /\ Translate(VIRT(page)) = page
  <1>1. page \div 512 = 0 /\ page % 512 = page
    BY DEF TableSize
  <1>2. /\ vmm_pml4_table[0] = "vmm_pdp_table" /\ vmm_pml4_table[262] = "vmm_pdp_table"
        /\ vmm_pdp_table[0] = "vmm_pdir_table"
    BY DEF vmm_pml4_table, vmm_pdp_table, TableSize
  <1>3. /\ PHYS(page) = [pml4 |-> 0, pdp |-> 0, pd |-> page]
        /\ VIRT(page) = [pml4 |-> 262, pdp |-> 0, pd |-> page]
    BY <1>1 DEF PHYS, VIRT, TableSize
  <1>4. vmm_pdir_table[page + 1] = page
    BY DirectoryIsIdentity
  <1> QED BY <1>2, <1>3, <1>4 DEF Translate

LEMMA NothingBeyondMapped ==
  ASSUME Paging, cr3 = "vmm_pml4_table", NEW page \in TableSize .. TableSize + 1
  PROVE  ~ Mapped(PHYS(page)) /\ ~ Mapped(VIRT(page))
  <1>1. page \div 512 = 1
    BY DEF TableSize
  <1>2. PHYS(page).pdp = 1 /\ VIRT(page).pdp = 1
    BY <1>1 DEF PHYS, VIRT, TableSize
  <1>3. vmm_pdp_table[1] = "none"
    BY DEF vmm_pdp_table, TableSize
  <1> QED BY <1>2, <1>3 DEF Mapped, Translate

------------------------------------------------------------------------------
(* Where the entry code is: with a stack, in 64-bit code, with paging on, with
   the tables in cr3, with PAE. *)
Stacked == {"ds64", "argument", "call", "start_vmm"}
HighTable == Stacked \cup {"stack"}
In64 == HighTable \cup {"virtual_entry"}
Paged == In64 \cup {"ljmp"}
TablesIn == Paged \cup {"cr0", "wrmsr"}
WithPae == TablesIn \cup {"cr3"}
PtrStored == WithPae \cup {"cr4", "ds32", "lgdt"}

Registers ==
  /\ ip \in WithPae => "PAE" \in cr4
  /\ ip \in TablesIn => cr3 = "vmm_pml4_table"
  /\ Paging => cr3 = "vmm_pml4_table"
  /\ ip \in Paged => Paging
  /\ ip \in In64 => seg.cs = "code64"

(* EFER is what the loader left until the entry code adds its bits. *)
EferSoFar ==
  /\ ip \in {"physical_entry", "store", "lgdt", "ds32", "cr4", "cr3", "wrmsr"} => efer = loader.efer
  /\ ip = "cr0" => efer = loader.efer \cup {"LME", "SCE"}
  /\ ip \in Paged => efer = loader.efer \cup {"LME", "LMA", "SCE"}

Pointers ==
  /\ ip \in HighTable => gdtr = VIRT(PageOf["gdt_table"])
  /\ ip \in Stacked => rsp = VIRT(PageOf["boot_stack"])
  /\ ip \in PtrStored => multiboot_ptr = loader.ebx
  /\ ip \in {"call", "start_vmm"} => rdi = VIRT(loader.ebx)

IInv == loader \in Loaders /\ Registers /\ EferSoFar /\ Pointers

LEMMA IInvInit == EntryInit => IInv
  <1> SUFFICES ASSUME EntryInit
               PROVE  IInv
    OBVIOUS
  <1> USE DEF EntryInit, PtrStored, WithPae, TablesIn, Paged, In64, HighTable, Stacked
  <1>1. Registers
    BY DEF Registers, Paging
  <1>2. EferSoFar
    BY DEF EferSoFar
  <1>3. Pointers
    BY DEF Pointers
  <1> QED BY <1>1, <1>2, <1>3 DEF IInv

(* Each step adds what its place stands for, and keeps the rest. *)
LEMMA IInvStep == IInv /\ [EntryNext]_entryVars => IInv'
  <1> SUFFICES ASSUME IInv, [EntryNext]_entryVars
               PROVE  IInv'
    OBVIOUS
  <1> USE DEF IInv, Registers, EferSoFar, Pointers, Paging, PtrStored, WithPae, TablesIn, Paged,
              In64, HighTable, Stacked
  <1>1. CASE physical_entry
    BY <1>1 DEF physical_entry
  <1>2. CASE StoreMultibootPtr
    BY <1>2 DEF StoreMultibootPtr, Execute
  <1>3. CASE LoadBootGdt
    BY <1>3 DEF LoadBootGdt, Execute
  <1>4. CASE LoadDs32
    BY <1>4 DEF LoadDs32, Execute
  <1>5. CASE EnablePae
    BY <1>5 DEF EnablePae, Execute, NewCr4
  <1>6. CASE LoadCr3
    BY <1>6 DEF LoadCr3, Execute
  <1>7. CASE EnableLongMode
    BY <1>7 DEF EnableLongMode, Execute, SetEfer
  <1>8. CASE EnablePaging
    BY <1>8 DEF EnablePaging, Execute
  <1>9. CASE LongJump
    BY <1>9 DEF LongJump, Execute, gdt_table, VMM_CS64
  <1>10. CASE virtual_entry
    BY <1>10 DEF virtual_entry, Execute
  <1>11. CASE InitStack
    BY <1>11 DEF InitStack, Execute
  <1>12. CASE LoadDs64
    BY <1>12 DEF LoadDs64, Execute
  <1>13. CASE PassMultibootPtr
    BY <1>13 DEF PassMultibootPtr, Execute, Argument
  <1>14. CASE CallStartVmm
    BY <1>14 DEF CallStartVmm, Execute
  <1>15. CASE UNCHANGED entryVars
    BY <1>15 DEF entryVars
  <1> QED BY <1>1, <1>2, <1>3, <1>4, <1>5, <1>6, <1>7, <1>8, <1>9, <1>10, <1>11, <1>12, <1>13, <1>14, <1>15 DEF EntryNext

LEMMA EntryInvariance == EntrySpec => []IInv
  BY IInvInit, IInvStep, PTL DEF EntrySpec

(* Every page of the first 512 is reached at its low and at its high address
   while paging is on, and no page beyond them (boot.S:176-201). *)
THEOREM EveryPageTwiceCorrect == EntrySpec => []EveryPageTwice
  <1>1. IInv => EveryPageTwice
    BY BothAddressesMapped, NothingBeyondMapped DEF IInv, Registers, EveryPageTwice
  <1> QED BY <1>1, EntryInvariance, PTL

(* Whatever the loader left, start_vmm begins in 64-bit mode on its own stack
   and tables, with an argument that reaches the information (boot.S:33-140). *)
THEOREM EntryContractCorrect == EntrySpec => []EntryContract
  <1>1. ASSUME IInv, ip = "start_vmm"
        PROVE  EntryContract
    <2>1. /\ Paging /\ cr3 = "vmm_pml4_table" /\ "PAE" \in cr4 /\ seg.cs = "code64"
          /\ efer = loader.efer \cup {"LME", "LMA", "SCE"}
          /\ gdtr = VIRT(PageOf["gdt_table"]) /\ rsp = VIRT(PageOf["boot_stack"])
          /\ rdi = VIRT(loader.ebx)
      BY <1>1 DEF IInv, Registers, EferSoFar, Pointers, PtrStored, WithPae, TablesIn, Paged, In64,
                  HighTable, Stacked
    <2>2. PageOf["gdt_table"] \in 0 .. TableSize - 1 /\ PageOf["boot_stack"] \in 0 .. TableSize - 1
      BY BootEntryAssumption DEF Symbols
    <2>3. Translate(rsp) = PageOf["boot_stack"] /\ Translate(gdtr) = PageOf["gdt_table"]
      BY <2>1, <2>2, BothAddressesMapped
    <2>4. loader.ebx \in Nat
      BY <1>1, BootEntryAssumption DEF IInv
    <2>5. ASSUME loader.ebx < TableSize
          PROVE  Translate(rdi) = loader.ebx
      <3>1. loader.ebx \in 0 .. TableSize - 1
        BY <2>4, <2>5 DEF TableSize
      <3> QED BY <2>1, <3>1, BothAddressesMapped
    <2>6. rdi.pml4 = VIRT(0).pml4
      BY <2>1 DEF VIRT
    <2> QED BY <2>1, <2>3, <2>5, <2>6 DEF EntryContract, LongMode
  <1>2. IInv => EntryContract
    BY <1>1 DEF EntryContract
  <1> QED BY <1>2, EntryInvariance, PTL

------------------------------------------------------------------------------
(* The places before paging is on, and those where the descriptors are read at
   their low address. *)
Unpaged == {"physical_entry", "store", "lgdt", "ds32", "cr4", "cr3", "wrmsr", "cr0"}
LowGdt == {"ds32", "cr4", "cr3", "wrmsr", "cr0", "ljmp", "virtual_entry"}

(* What a Multiboot loader gets: no fault, and no refusal. *)
TakesNoFault ==
  /\ ip # "shutdown"
  /\ loader.eax = "MULTIBOOT_BOOTLOADER_MAGIC" => ip # "die"

FaultInv ==
  /\ TakesNoFault
  /\ ip \in Unpaged => ~ Paging
  /\ ip \in Unpaged \cup Paged \cup {"die"}
  /\ ip \in LowGdt => gdtr = PHYS(PageOf["gdt_table"])

(* A symbol is reached at its low address before and after paging, and at its
   high one after. *)
LEMMA SymbolsMapped ==
  ASSUME NEW symbol \in Symbols, Paging => cr3 = "vmm_pml4_table"
  PROVE  /\ Mapped(PHYS(PageOf[symbol])) /\ Translate(PHYS(PageOf[symbol])) = PageOf[symbol]
         /\ Paging => /\ Mapped(VIRT(PageOf[symbol]))
                      /\ Translate(VIRT(PageOf[symbol])) = PageOf[symbol]
  <1> DEFINE page == PageOf[symbol]
  <1>1. page \in 0 .. TableSize - 1
    BY BootEntryAssumption
  <1> HIDE DEF page
  <1>2. page # TableSize /\ TableSize * (page \div TableSize) + (page % TableSize) = page
    BY <1>1 DEF TableSize
  <1>3. Translate(PHYS(page)) = page
    <2>1. CASE Paging
      BY <1>1, <2>1, BothAddressesMapped
    <2>2. CASE ~ Paging
      <3>1. PHYS(page).pdp = page \div TableSize /\ PHYS(page).pd = page % TableSize
        BY DEF PHYS
      <3>2. Translate(PHYS(page)) = TableSize * PHYS(page).pdp + PHYS(page).pd
        BY <2>2 DEF Translate
      <3>3. Translate(PHYS(page)) = TableSize * (page \div TableSize) + (page % TableSize)
        BY <3>1, <3>2
      <3> QED BY <1>1, <3>3 DEF TableSize
    <2> QED BY <2>1, <2>2
  <1>4. Paging => Translate(VIRT(page)) = page
    BY <1>1, BothAddressesMapped
  <1> QED BY <1>2, <1>3, <1>4 DEF Mapped, page

LEMMA FaultInit == EntryInit => FaultInv
  BY DEF EntryInit, FaultInv, TakesNoFault, Unpaged, LowGdt, Paging

(* No instruction of the entry code meets a table, a mode or a descriptor that
   is not there yet. *)
LEMMA FaultStep == IInv /\ FaultInv /\ [EntryNext]_entryVars => FaultInv'
  <1> SUFFICES ASSUME IInv, FaultInv, [EntryNext]_entryVars
               PROVE  FaultInv'
    OBVIOUS
  <1>1. /\ Mapped(PHYS(PageOf["physical_entry"])) /\ Mapped(PHYS(PageOf["virtual_entry"]))
        /\ Mapped(PHYS(PageOf["start_vmm"])) /\ Mapped(PHYS(PageOf["multiboot_ptr"]))
        /\ Mapped(PHYS(PageOf["gdt_table"]))
        /\ Translate(PHYS(PageOf["gdt_table"])) = PageOf["gdt_table"]
        /\ Paging => Mapped(VIRT(PageOf["boot_stack"]))
    BY SymbolsMapped DEF Symbols, IInv, Registers
  <1>2. ip \in LowGdt => /\ Loadable(VMM_DS32, {"data"})
                         /\ Loadable(VMM_CS64, {"code32", "code64"})
    BY <1>1 DEF FaultInv, Loadable, gdt_table, VMM_DS32, VMM_CS64
  <1>3. ip \in In64 => LongMode
    BY DEF IInv, Registers, EferSoFar, LongMode, Paged, In64
  <1>4. ip = "cr0" => "PAE" \in cr4
    BY DEF IInv, Registers, WithPae, TablesIn
  <1>5. ip \in Paged => Paging
    BY DEF IInv, Registers
  <1> USE DEF FaultInv, TakesNoFault, Unpaged, LowGdt, Paged, In64, HighTable, Stacked, Paging
  <1>6. CASE physical_entry
    BY <1>6 DEF physical_entry
  <1>7. CASE StoreMultibootPtr
    BY <1>1, <1>7 DEF StoreMultibootPtr, Execute
  <1>8. CASE LoadBootGdt
    BY <1>1, <1>8 DEF LoadBootGdt, Execute
  <1>9. CASE LoadDs32
    BY <1>1, <1>2, <1>9 DEF LoadDs32, Execute
  <1>10. CASE EnablePae
    BY <1>1, <1>10 DEF EnablePae, Execute
  <1>11. CASE LoadCr3
    BY <1>1, <1>11 DEF LoadCr3, Execute
  <1>12. CASE EnableLongMode
    BY <1>1, <1>12 DEF EnableLongMode, Execute
  <1>13. CASE EnablePaging
    BY <1>1, <1>4, <1>13 DEF EnablePaging, Execute
  <1>14. CASE LongJump
    BY <1>1, <1>2, <1>14 DEF LongJump, Execute
  <1>15. CASE virtual_entry
    BY <1>1, <1>3, <1>15 DEF virtual_entry, Execute
  <1>16. CASE InitStack
    <2>1. Mapped(rsp')
      BY <1>1, <1>5, <1>16 DEF InitStack, Execute
    <2> QED BY <1>1, <1>16, <2>1 DEF InitStack, Execute
  <1>17. CASE LoadDs64
    BY <1>1, <1>17 DEF LoadDs64, Execute, VMM_DS64
  <1>18. CASE PassMultibootPtr
    BY <1>1, <1>18 DEF PassMultibootPtr, Execute
  <1>19. CASE CallStartVmm
    <2>1. Mapped(rsp)
      BY <1>1, <1>5, <1>19 DEF CallStartVmm, Execute, IInv, Pointers
    <2> QED BY <1>1, <1>19, <2>1 DEF CallStartVmm, Execute
  <1>20. CASE UNCHANGED entryVars
    BY <1>20 DEF entryVars
  <1> QED
    BY <1>6, <1>7, <1>8, <1>9, <1>10, <1>11, <1>12, <1>13, <1>14, <1>15, <1>16, <1>17, <1>18,
       <1>19, <1>20 DEF EntryNext

(* The entry code takes no fault, whatever the loader left, and refuses nobody
   but a loader that is not Multiboot: what VmrunReached promises, apart from
   the progress itself (boot.S:33-140). *)
THEOREM NoFaultCorrect == EntrySpec => []TakesNoFault
  <1>1. FaultInv => TakesNoFault
    BY DEF FaultInv
  <1>2. EntryInit => IInv /\ FaultInv
    BY IInvInit, FaultInit
  <1>3. IInv /\ FaultInv /\ [EntryNext]_entryVars => (IInv /\ FaultInv)'
    BY IInvStep, FaultStep
  <1> QED BY <1>1, <1>2, <1>3, PTL DEF EntrySpec
===============================================================================
