----------------------------- MODULE VmCreateProofs -----------------------------
(***************************************************************************)
(* The tables of page.c, and the machine that vm.c builds with them.       *)
(*                                                                         *)
(* The tables: what they are and what they translate, for every size of a  *)
(* table and of a page, every pool and every list of mappings.  There is a *)
(* level for each table such that links go down one level, no two links    *)
(* lead to one table and only page directories translate (Tree).  So an    *)
(* entry lies on the way to one page of one space at most: what __mmap     *)
(* writes changes that page and nothing else.  The lemmas on Tree say      *)
(* nothing about the pool or the mappings, so that the second part can use *)
(* them.                                                                   *)
(*                                                                         *)
(* The machine keeps the guest out of the VMM, for every pool that         *)
(* setup_arch may leave, every well-formed image, every number of table    *)
(* entries and whatever the guest stores.  Each frame has one owner; the   *)
(* nested tables translate to the guest's memory or to the first 2 Mbytes, *)
(* because what __mmap writes is the translation of one page; so no store  *)
(* of the loader or of the guest meets a frame of the VMM.                 *)
(***************************************************************************)
EXTENDS VmCreate, FiniteSetTheorems, TLAPS

(* The tables of page.c.                                                      *)

Levels == {PGT_LEVEL_PML4, PGT_LEVEL_PDP, PGT_LEVEL_PD}

(* Division by name: the provers use a fact about Quot and Rem where they do not
   use one about \div and %. *)
Quot(n, d) == n \div d
Rem(n, d) == n % d

NrPages == TableSize * TableSize * TableSize

(* The index of page n in a table of this level. *)
Slot(n, level) ==
  IF level = PGT_LEVEL_PML4 THEN Rem(Quot(Quot(n, TableSize), TableSize), TableSize)
  ELSE IF level = PGT_LEVEL_PDP THEN Rem(Quot(n, TableSize), TableSize)
  ELSE Rem(n, TableSize)

(* The way of page n in the space r: the entries and tables it leads through. *)
PdpLink(r, n) == tables[r][Slot(n, PGT_LEVEL_PML4)]
HasPdp(r, n) == entry_is_present(PdpLink(r, n))
PdLink(r, n) == tables[PdpLink(r, n).base][Slot(n, PGT_LEVEL_PDP)]
HasPd(r, n) == HasPdp(r, n) /\ entry_is_present(PdLink(r, n))
PageEntry(r, n) == tables[PdLink(r, n).base][Slot(n, PGT_LEVEL_PD)]
HasPage(r, n) == HasPd(r, n) /\ entry_is_present(PageEntry(r, n))

(* The page the running __mmap is to map, and the space it started from. *)
WalkPage == PageOf(walk.vaddr)
WalksFrom(r) ==
  /\ walk.level = PGT_LEVEL_PML4 => walk.base = r
  /\ walk.level = PGT_LEVEL_PDP => HasPdp(r, WalkPage) /\ walk.base = PdpLink(r, WalkPage).base
  /\ walk.level = PGT_LEVEL_PD => HasPd(r, WalkPage) /\ walk.base = PdLink(r, WalkPage).base

(* A link out of a table above a page directory. *)
IsLink(level, f, x) == level[f] # PGT_LEVEL_PD /\ entry_is_present(tables[f][x])

Tree(level) ==
  /\ \A f \in DOMAIN tables : level[f] = PGT_LEVEL_PML4 <=> f \in pml4s
  /\ \A f \in DOMAIN tables, x \in Index :
       /\ IsLink(level, f, x) =>
            tables[f][x].base \in DOMAIN tables /\ level[tables[f][x].base] = level[f] - 1
       /\ "PAGE_SIZE" \in tables[f][x].flags <=>
            level[f] = PGT_LEVEL_PD /\ entry_is_present(tables[f][x])
  /\ \A f, g \in DOMAIN tables, x, y \in Index :
       IsLink(level, f, x) /\ IsLink(level, g, y) /\ tables[f][x].base = tables[g][y].base =>
         f = g /\ x = y
  /\ \A b \in DOMAIN tables \ pml4s : \E f \in DOMAIN tables, x \in Index :
       IsLink(level, f, x) /\ tables[f][x].base = b
  /\ mode = "mmap" =>
       /\ walk.base \in DOMAIN tables /\ level[walk.base] = walk.level
       /\ \E r \in pml4s : WalksFrom(r)

WalkType ==
  [base : Nat, vaddr : Nat, paddr : Nat, is_user : BOOLEAN, level : Levels]

TreeInv ==
  /\ DOMAIN tables \subseteq Nat
  /\ IsFiniteSet(DOMAIN tables)
  /\ tables \in [DOMAIN tables -> [Index -> Entry]]
  /\ pml4s \subseteq DOMAIN tables
  /\ walk \in WalkType
  /\ \E level \in [DOMAIN tables -> Levels] : Tree(level)

------------------------------------------------------------------------------
(* Division with remainder. *)
LEMMA QuotRem ==
  ASSUME NEW n \in Nat, NEW d \in Nat \ {0}
  PROVE  Quot(n, d) \in Nat /\ Rem(n, d) \in 0 .. d - 1 /\ n = d * Quot(n, d) + Rem(n, d)
BY DEF Quot, Rem

(* To divide by a product is to divide by its factors, one after the other. *)
LEMMA DivideTwice ==
  ASSUME NEW n \in Nat, NEW a \in Nat \ {0}, NEW b \in Nat \ {0},
         NEW c \in Nat \ {0}, c = a * b
  PROVE  /\ Quot(n, c) = Quot(Quot(n, a), b)
         /\ Rem(Rem(n, c), a) = Rem(n, a)
         /\ Quot(Rem(n, c), a) = Rem(Quot(n, a), b)
<1> DEFINE q == Quot(n, a)
           r == Rem(n, a)
           p == Quot(q, b)
           s == Rem(q, b)
           t == a * s + r
<1>1. q \in Nat /\ r \in 0 .. a - 1 /\ n = a * q + r
  BY QuotRem
<1>2. p \in Nat /\ s \in 0 .. b - 1 /\ q = b * p + s
  BY <1>1, QuotRem
<1> HIDE DEF q, r, p, s
<1>3. t \in 0 .. c - 1
  <2>1. a * s \in Nat /\ a * s <= a * (b - 1) /\ a * (b - 1) = c - a
    BY <1>2
  <2> QED
    BY <1>1, <1>2, <2>1
<1>4. n = c * p + t
  BY <1>1, <1>2
<1>5. t % a = r /\ t \div a = s
  BY <1>1, <1>2
<1> HIDE DEF t
<1>6. n \div c = p /\ n % c = t
  BY <1>2, <1>3, <1>4
<1> QED
  BY <1>5, <1>6 DEF q, r, p, s, Quot, Rem

LEMMA Sizes ==
  /\ TableSize \in Nat \ {0} /\ SuperPageSize \in Nat \ {0}
  /\ TableSize * TableSize \in Nat \ {0}
  /\ TableSize * TableSize * TableSize \in Nat \ {0}
  /\ SuperPageSize * TableSize \in Nat \ {0}
  /\ SuperPageSize * TableSize * TableSize \in Nat \ {0}
<1>1. TableSize \in Nat \ {0} /\ SuperPageSize \in Nat \ {0}
  BY PageTableAssumption
<1>2. \A a, b \in Nat \ {0} : a * b \in Nat \ {0}
  OBVIOUS
<1> QED
  BY <1>1, <1>2

(* The entry that translates an address depends on the page of the address only. *)
LEMMA IndexOfPage ==
  ASSUME NEW v \in Nat, NEW level \in Levels
  PROVE  get_index(v, level) = Slot(Quot(v, SuperPageSize), level)
<1> DEFINE S == SuperPageSize
           T == TableSize
           ST == S * T
           STT == S * T * T
<1>1. S \in Nat \ {0} /\ T \in Nat \ {0} /\ ST \in Nat \ {0} /\ STT \in Nat \ {0}
  BY Sizes
<1>2. ST = S * T /\ STT = ST * T
  OBVIOUS
<1> HIDE DEF ST, STT
<1>3. Quot(v, ST) = Quot(Quot(v, S), T)
  BY <1>1, <1>2, DivideTwice
<1>4. Quot(v, STT) = Quot(Quot(Quot(v, S), T), T)
  BY <1>1, <1>2, <1>3, DivideTwice
<1>5. get_index(v, level) =
        IF level = PGT_LEVEL_PML4 THEN Rem(Quot(v, STT), T)
        ELSE IF level = PGT_LEVEL_PDP THEN Rem(Quot(v, ST), T) ELSE Rem(Quot(v, S), T)
  BY DEF get_index, Reach, Quot, Rem, ST, STT
<1> QED
  BY <1>3, <1>4, <1>5 DEF Slot

LEMMA SlotInRange ==
  ASSUME NEW n \in Nat, NEW level \in Levels
  PROVE  Slot(n, level) \in Index
<1>1. \A m \in Nat : Rem(m, TableSize) \in Index /\ Quot(m, TableSize) \in Nat
  BY Sizes, QuotRem DEF Index
<1> QED
  BY <1>1 DEF Slot

(* The bits above those that are translated select nothing. *)
LEMMA SlotOfPage ==
  ASSUME NEW n \in Nat, NEW level \in Levels
  PROVE  Rem(n, NrPages) \in Pages /\ Slot(Rem(n, NrPages), level) = Slot(n, level)
<1> DEFINE T == TableSize
           TT == T * T
           TTT == T * T * T
           m == Rem(n, TTT)
<1>1. /\ T \in Nat \ {0} /\ TT \in Nat \ {0} /\ TTT \in Nat \ {0}
      /\ TT = T * T /\ TTT = T * TT
  BY Sizes
<1>2. Pages = 0 .. TTT - 1
  BY DEF Pages
<1> HIDE DEF TT, TTT
<1>3. m \in Pages
  BY <1>1, <1>2, QuotRem
<1>4. Rem(m, T) = Rem(n, T) /\ Quot(m, T) = Rem(Quot(n, T), TT)
  BY <1>1, DivideTwice
<1>5. Quot(n, T) \in Nat
  BY <1>1, QuotRem
<1>6. /\ Rem(Quot(m, T), T) = Rem(Quot(n, T), T)
      /\ Quot(Quot(m, T), T) = Rem(Quot(Quot(n, T), T), T)
  BY <1>1, <1>4, <1>5, DivideTwice
<1>7. \A a \in Nat : Rem(Rem(a, T), T) = Rem(a, T)
  BY <1>1 DEF Rem
<1>8. Rem(Rem(Quot(Quot(n, T), T), T), T) = Rem(Quot(Quot(n, T), T), T)
  BY <1>1, <1>5, <1>7, QuotRem
<1> HIDE DEF m
<1>9. Slot(m, level) = Slot(n, level)
  BY <1>4, <1>6, <1>8 DEF Slot
<1> QED
  BY <1>3, <1>9 DEF m, TTT, NrPages

(* The three indices together tell a page from every other. *)
LEMMA SlotsTellPages ==
  ASSUME NEW n \in Pages, NEW m \in Pages,
         \A level \in Levels : Slot(n, level) = Slot(m, level)
  PROVE  n = m
<1> DEFINE T == TableSize
           TT == T * T
           TTT == T * T * T
<1>1. /\ T \in Nat \ {0} /\ TT \in Nat \ {0} /\ TTT \in Nat \ {0}
      /\ TT = T * T /\ TTT = T * TT
  BY Sizes
<1>2. Pages = 0 .. TTT - 1
  BY DEF Pages
<1> HIDE DEF TT, TTT
<1>3. /\ Rem(n, T) = Rem(m, T) /\ Rem(Quot(n, T), T) = Rem(Quot(m, T), T)
      /\ Rem(Quot(Quot(n, T), T), T) = Rem(Quot(Quot(m, T), T), T)
  BY DEF Slot, Levels, PGT_LEVEL_PML4, PGT_LEVEL_PDP, PGT_LEVEL_PD
<1>4. ASSUME NEW k \in Pages
      PROVE  /\ k = T * Quot(k, T) + Rem(k, T)
             /\ Quot(k, T) = T * Quot(Quot(k, T), T) + Rem(Quot(k, T), T)
             /\ Rem(Quot(Quot(k, T), T), T) = Quot(Quot(k, T), T)
  <2>1. k \in Nat /\ Rem(k, TTT) = k
    BY <1>1, <1>2 DEF Rem
  <2>2. Quot(k, T) = Rem(Quot(k, T), TT)
    BY <1>1, <2>1, DivideTwice
  <2>3. Quot(k, T) \in Nat
    BY <1>1, <2>1, QuotRem
  <2>4. Quot(Quot(k, T), T) = Rem(Quot(Quot(k, T), T), T)
    BY <1>1, <2>2, <2>3, DivideTwice
  <2> QED
    BY <1>1, <2>1, <2>3, <2>4, QuotRem
<1>5. Quot(Quot(n, T), T) = Quot(Quot(m, T), T)
  BY <1>3, <1>4
<1>6. Quot(n, T) = Quot(m, T)
  BY <1>3, <1>4, <1>5
<1> QED
  BY <1>3, <1>4, <1>6

------------------------------------------------------------------------------
(* Every address is translated as the page its index bits select. *)
LEMMA IndexOfAddress ==
  ASSUME NEW v \in Nat
  PROVE  /\ PageOf(v) \in Pages
         /\ \A level \in Levels : get_index(v, level) = Slot(PageOf(v), level)
<1>1. Quot(v, SuperPageSize) \in Nat
  BY Sizes, QuotRem
<1>2. PageOf(v) = Rem(Quot(v, SuperPageSize), NrPages)
  BY DEF PageOf, Quot, Rem, NrPages
<1>3. PGT_LEVEL_PD \in Levels
  BY DEF Levels
<1> QED
  BY <1>1, <1>2, <1>3, IndexOfPage, SlotOfPage

LEMMA EntriesOnTheWay ==
  ASSUME NEW r, NEW v \in Nat
  PROVE  PdEntries(r, v) = IF HasPage(r, PageOf(v)) THEN {PageEntry(r, PageOf(v))} ELSE {}
<1> DEFINE n == PageOf(v)
<1>1. /\ get_index(v, PGT_LEVEL_PML4) = Slot(n, PGT_LEVEL_PML4)
      /\ get_index(v, PGT_LEVEL_PDP) = Slot(n, PGT_LEVEL_PDP)
      /\ get_index(v, PGT_LEVEL_PD) = Slot(n, PGT_LEVEL_PD)
  BY IndexOfAddress DEF Levels
<1> HIDE DEF n
<1>2. NextTable(r, v, PGT_LEVEL_PML4) = IF HasPdp(r, n) THEN {PdpLink(r, n).base} ELSE {}
  BY <1>1 DEF NextTable, get_entry, HasPdp, PdpLink
<1>3. NextTable(PdpLink(r, n).base, v, PGT_LEVEL_PDP) =
        IF entry_is_present(PdLink(r, n)) THEN {PdLink(r, n).base} ELSE {}
  BY <1>1 DEF NextTable, get_entry, PdLink
<1>4. get_entry(PdLink(r, n).base, v, PGT_LEVEL_PD) = PageEntry(r, n)
  BY <1>1 DEF get_entry, PageEntry
<1> QED
  BY <1>2, <1>3, <1>4 DEF PdEntries, HasPd, HasPage, n

Translated(e) == [frame |-> e.base, user |-> "US" \in e.flags]

OnTheWay(r, n) == IF HasPage(r, n) THEN {Translated(PageEntry(r, n))} ELSE {}

LEMMA TranslationOnTheWay == \A r : \A n \in Pages : Translation(r, n) = OnTheWay(r, n)
<1> SUFFICES ASSUME NEW r, NEW n \in Pages
             PROVE  Translation(r, n) = OnTheWay(r, n)
  OBVIOUS
<1>1. n * SuperPageSize \in Nat
  BY Sizes DEF Pages
<1>2. PageOf(n * SuperPageSize) = n
  <2>1. (n * SuperPageSize) \div SuperPageSize = n
    BY Sizes DEF Pages
  <2>2. n % (TableSize * TableSize * TableSize) = n
    BY Sizes DEF Pages
  <2> QED
    BY <2>1, <2>2 DEF PageOf
<1> QED
  BY <1>1, <1>2, EntriesOnTheWay DEF Translation, Translated, OnTheWay

LEMMA TranslationsStay ==
  (\A r : \A n \in Pages : Translation(r, n) = OnTheWay(r, n))'
BY TranslationOnTheWay, PTL

------------------------------------------------------------------------------
(* The tables the walk to a page leads through, by level. *)
LEMMA WayByLevel ==
  ASSUME TreeInv, NEW level \in [DOMAIN tables -> Levels], Tree(level),
         NEW r \in pml4s, NEW n \in Nat
  PROVE  /\ r \in DOMAIN tables /\ level[r] = PGT_LEVEL_PML4
         /\ HasPdp(r, n) =>
              PdpLink(r, n).base \in DOMAIN tables /\ level[PdpLink(r, n).base] = PGT_LEVEL_PDP
         /\ HasPd(r, n) =>
              PdLink(r, n).base \in DOMAIN tables /\ level[PdLink(r, n).base] = PGT_LEVEL_PD
<1>1. r \in DOMAIN tables /\ level[r] = PGT_LEVEL_PML4
  BY DEF TreeInv, Tree
<1>2. \A l \in Levels : Slot(n, l) \in Index
  BY SlotInRange
<1>3. HasPdp(r, n) =>
        PdpLink(r, n).base \in DOMAIN tables /\ level[PdpLink(r, n).base] = PGT_LEVEL_PDP
  BY <1>1, <1>2 DEF Tree, IsLink, HasPdp, PdpLink, Levels, PGT_LEVEL_PML4, PGT_LEVEL_PDP, PGT_LEVEL_PD
<1>4. HasPd(r, n) =>
        PdLink(r, n).base \in DOMAIN tables /\ level[PdLink(r, n).base] = PGT_LEVEL_PD
  BY <1>2, <1>3 DEF Tree, IsLink, HasPd, PdLink, Levels, PGT_LEVEL_PML4, PGT_LEVEL_PDP, PGT_LEVEL_PD
<1> QED
  BY <1>1, <1>3, <1>4

(* Two ways that lead to one page directory are the ways of one space, through
   the same two entries. *)
LEMMA WaysApart ==
  ASSUME TreeInv, NEW level \in [DOMAIN tables -> Levels], Tree(level),
         NEW r \in pml4s, NEW q \in pml4s, NEW n \in Nat, NEW m \in Nat,
         HasPd(r, n), HasPd(q, m), PdLink(r, n).base = PdLink(q, m).base
  PROVE  /\ r = q
         /\ Slot(n, PGT_LEVEL_PML4) = Slot(m, PGT_LEVEL_PML4)
         /\ Slot(n, PGT_LEVEL_PDP) = Slot(m, PGT_LEVEL_PDP)
<1>1. \A l \in Levels : Slot(n, l) \in Index /\ Slot(m, l) \in Index
  BY SlotInRange
<1> DEFINE s == PdpLink(r, n).base
           t == PdpLink(q, m).base
<1>2. /\ r \in DOMAIN tables /\ level[r] = PGT_LEVEL_PML4
      /\ q \in DOMAIN tables /\ level[q] = PGT_LEVEL_PML4
      /\ s \in DOMAIN tables /\ level[s] = PGT_LEVEL_PDP
      /\ t \in DOMAIN tables /\ level[t] = PGT_LEVEL_PDP
  BY WayByLevel DEF HasPd
<1> HIDE DEF s, t
<1>3. s = t /\ Slot(n, PGT_LEVEL_PDP) = Slot(m, PGT_LEVEL_PDP)
  <2>1. /\ IsLink(level, s, Slot(n, PGT_LEVEL_PDP)) /\ IsLink(level, t, Slot(m, PGT_LEVEL_PDP))
        /\ tables[s][Slot(n, PGT_LEVEL_PDP)].base = tables[t][Slot(m, PGT_LEVEL_PDP)].base
    BY <1>2 DEF IsLink, HasPd, PdLink, s, t, PGT_LEVEL_PD, PGT_LEVEL_PDP
  <2> QED
    BY <1>1, <1>2, <2>1 DEF Tree, Levels
<1>4. r = q /\ Slot(n, PGT_LEVEL_PML4) = Slot(m, PGT_LEVEL_PML4)
  <2>1. /\ IsLink(level, r, Slot(n, PGT_LEVEL_PML4)) /\ IsLink(level, q, Slot(m, PGT_LEVEL_PML4))
        /\ tables[r][Slot(n, PGT_LEVEL_PML4)].base = tables[q][Slot(m, PGT_LEVEL_PML4)].base
    BY <1>2, <1>3 DEF IsLink, HasPd, HasPdp, PdpLink, s, t, PGT_LEVEL_PD, PGT_LEVEL_PML4
  <2> QED
    BY <1>1, <1>2, <2>1 DEF Tree, Levels
<1> QED
  BY <1>3, <1>4

(* The running __mmap looks at an entry of its table. *)
LEMMA WalkTyped ==
  ASSUME walk \in WalkType
  PROVE  /\ WalkIndex = Slot(WalkPage, walk.level) /\ WalkIndex \in Index
         /\ WalkPage \in Pages /\ WalkPage \in Nat
         /\ WalkEntry = tables[walk.base][WalkIndex]
<1>1. walk.vaddr \in Nat /\ walk.level \in Levels
  BY DEF WalkType
<1>2. WalkPage \in Pages /\ WalkPage \in Nat
  BY <1>1, IndexOfAddress DEF WalkPage, Pages
<1> QED
  BY <1>1, <1>2, IndexOfAddress, SlotInRange DEF WalkIndex, WalkPage, WalkEntry, get_entry

------------------------------------------------------------------------------
(* A page is translated as before when the entries on its way are as before. *)
LEMMA SameWay ==
  ASSUME NEW r, NEW n,
         PdpLink(r, n)' = PdpLink(r, n),
         HasPdp(r, n) => PdLink(r, n)' = PdLink(r, n),
         HasPd(r, n) => PageEntry(r, n)' = PageEntry(r, n)
  PROVE  /\ HasPdp(r, n)' <=> HasPdp(r, n)
         /\ HasPd(r, n)' <=> HasPd(r, n)
         /\ OnTheWay(r, n)' = OnTheWay(r, n)
BY DEF HasPdp, HasPd, HasPage, OnTheWay, entry_is_present, Translated

(* What the tables are once a cleared one is among them. *)
LEMMA ClearedTables ==
  ASSUME TreeInv, NEW f \in Nat, f \notin DOMAIN tables
  PROVE  /\ Cleared(f) \in [DOMAIN tables \cup {f} -> [Index -> Entry]]
         /\ DOMAIN Cleared(f) = DOMAIN tables \cup {f}
         /\ \A g \in DOMAIN tables \cup {f}, x \in Index :
              Cleared(f)[g][x] = IF g = f THEN ClearEntry ELSE tables[g][x]
         /\ IsFiniteSet(DOMAIN tables \cup {f})
         /\ ~ entry_is_present(ClearEntry) /\ "PAGE_SIZE" \notin ClearEntry.flags
<1>1. ClearTable \in [Index -> Entry]
  BY DEF ClearTable, ClearEntry, Entry
<1>2. /\ Cleared(f) \in [DOMAIN tables \cup {f} -> [Index -> Entry]]
      /\ DOMAIN Cleared(f) = DOMAIN tables \cup {f}
  BY <1>1 DEF Cleared, TreeInv
<1>3. \A g \in DOMAIN tables \cup {f}, x \in Index :
        Cleared(f)[g][x] = IF g = f THEN ClearEntry ELSE tables[g][x]
  BY DEF Cleared, ClearTable
<1>4. IsFiniteSet(DOMAIN tables \cup {f})
  BY FS_AddElement DEF TreeInv
<1> QED
  BY <1>2, <1>3, <1>4 DEF ClearEntry, entry_is_present

(* pml4_table_create: a new root that translates nothing. *)
LEMMA RootAdded ==
  ASSUME TreeInv, mode = "idle", NEW f \in Nat, f \notin DOMAIN tables,
         tables' = Cleared(f), pml4s' = pml4s \cup {f}, UNCHANGED <<mode, walk>>
  PROVE  /\ TreeInv'
         /\ \A n \in Pages : Translation(f, n)' = {}
         /\ \A r \in pml4s, n \in Pages : Translation(r, n)' = Translation(r, n)
<1>1. PICK level \in [DOMAIN tables -> Levels] : Tree(level)
  BY DEF TreeInv
<1> DEFINE D == DOMAIN tables \cup {f}
<1>2. /\ tables' \in [D -> [Index -> Entry]] /\ DOMAIN tables' = D /\ D \subseteq Nat
      /\ \A g \in D, x \in Index :
           tables'[g][x] = IF g = f THEN ClearEntry ELSE tables[g][x]
      /\ IsFiniteSet(D)
      /\ ~ entry_is_present(ClearEntry) /\ "PAGE_SIZE" \notin ClearEntry.flags
      /\ pml4s' \subseteq D /\ walk' \in WalkType /\ mode' = "idle"
  <2>1. DOMAIN tables \subseteq Nat /\ pml4s \subseteq DOMAIN tables /\ walk \in WalkType
    BY DEF TreeInv
  <2> QED
    <3>1. /\ Cleared(f) \in [D -> [Index -> Entry]] /\ DOMAIN Cleared(f) = D /\ IsFiniteSet(D)
          /\ \A g \in D, x \in Index :
               Cleared(f)[g][x] = IF g = f THEN ClearEntry ELSE tables[g][x]
          /\ ~ entry_is_present(ClearEntry) /\ "PAGE_SIZE" \notin ClearEntry.flags
      BY ClearedTables
    <3>2. tables' = Cleared(f) /\ pml4s' = pml4s \cup {f} /\ walk' = walk /\ mode' = "idle"
      OBVIOUS
    <3>3. D \subseteq Nat /\ pml4s' \subseteq D /\ walk' \in WalkType
      BY <2>1, <3>2
    <3> HIDE DEF D
    <3> QED
      BY <3>1, <3>2, <3>3
<1>3. PICK new \in [D -> Levels] :
        \A g \in D : new[g] = IF g = f THEN PGT_LEVEL_PML4 ELSE level[g]
  <2>1. [g \in D |-> IF g = f THEN PGT_LEVEL_PML4 ELSE level[g]] \in [D -> Levels]
    BY DEF Levels
  <2> QED
    BY <2>1
<1> HIDE DEF D
<1>4. D = DOMAIN tables \cup {f}
  BY DEF D
<1>5. \A g \in D, x \in Index :
        IsLink(new, g, x)' <=> g \in DOMAIN tables /\ IsLink(level, g, x)
  BY <1>2, <1>3, <1>4 DEF IsLink, entry_is_present
<1>6. \A g \in DOMAIN tables, x \in Index : tables'[g][x] = tables[g][x] /\ new[g] = level[g]
  BY <1>2, <1>3, <1>4
<1>7. Tree(new)'
  <2>1. \A g \in D : new[g] = PGT_LEVEL_PML4 <=> g \in pml4s'
    BY <1>1, <1>3, <1>4 DEF Tree
  <2>2. ASSUME NEW g \in D, NEW x \in Index
        PROVE  /\ IsLink(new, g, x)' =>
                    tables'[g][x].base \in D /\ new[tables'[g][x].base] = new[g] - 1
               /\ "PAGE_SIZE" \in tables'[g][x].flags <=>
                    new[g] = PGT_LEVEL_PD /\ entry_is_present(tables'[g][x])
    <3>1. CASE g = f
      BY <1>2, <1>4, <1>5, <3>1
    <3>2. CASE g # f
      BY <1>1, <1>4, <1>5, <1>6, <3>2 DEF Tree
    <3> QED
      BY <3>1, <3>2
  <2>3. \A g, h \in D, x, y \in Index :
          IsLink(new, g, x)' /\ IsLink(new, h, y)' /\ tables'[g][x].base = tables'[h][y].base =>
            g = h /\ x = y
    BY <1>1, <1>5, <1>6 DEF Tree
  <2>4. \A b \in D \ pml4s' : \E g \in D, x \in Index :
          IsLink(new, g, x)' /\ tables'[g][x].base = b
    BY <1>1, <1>4, <1>5, <1>6 DEF Tree
  <2> QED
    BY <1>2, <2>1, <2>2, <2>3, <2>4 DEF Tree
<1>8. TreeInv'
  BY <1>2, <1>3, <1>7 DEF TreeInv
<1>9. /\ \A r : \A n \in Pages : Translation(r, n) = OnTheWay(r, n)
      /\ (\A r : \A n \in Pages : Translation(r, n) = OnTheWay(r, n))'
      /\ Pages \subseteq Nat
  BY TranslationOnTheWay, TranslationsStay DEF Pages
<1>10. ASSUME NEW n \in Pages
       PROVE  Translation(f, n)' = {}
  <2>1. Slot(n, PGT_LEVEL_PML4) \in Index
    BY <1>9, SlotInRange DEF Levels
  <2>2. ~ HasPdp(f, n)'
    BY <1>2, <1>4, <2>1 DEF HasPdp, PdpLink, entry_is_present
  <2> QED
    BY <1>9, <2>2 DEF OnTheWay, HasPage, HasPd
<1>11. ASSUME NEW r \in pml4s, NEW n \in Pages
       PROVE  Translation(r, n)' = Translation(r, n)
  <2>1. \A l \in Levels : Slot(n, l) \in Index
    BY <1>9, SlotInRange
  <2>2. /\ r \in DOMAIN tables
        /\ HasPdp(r, n) => PdpLink(r, n).base \in DOMAIN tables
        /\ HasPd(r, n) => PdLink(r, n).base \in DOMAIN tables
    BY <1>1, <1>9, WayByLevel
  <2>3. PdpLink(r, n)' = PdpLink(r, n)
    BY <1>6, <2>1, <2>2 DEF PdpLink, Levels
  <2>4. HasPdp(r, n) => PdLink(r, n)' = PdLink(r, n)
    BY <1>6, <2>1, <2>2, <2>3 DEF PdLink, Levels
  <2>5. HasPd(r, n) => PageEntry(r, n)' = PageEntry(r, n)
    BY <1>6, <2>1, <2>2, <2>4 DEF PageEntry, Levels, HasPd
  <2> QED
    BY <1>9, <2>3, <2>4, <2>5, SameWay
<1> QED
  BY <1>8, <1>10, <1>11

(* One entry of one table is written. *)
LEMMA EntryWritten ==
  ASSUME NEW D, NEW t \in [D -> [Index -> Entry]], NEW b \in D, NEW x \in Index, NEW e \in Entry
  PROVE  /\ [t EXCEPT ![b][x] = e] \in [D -> [Index -> Entry]]
         /\ DOMAIN [t EXCEPT ![b][x] = e] = D
         /\ \A g \in D, y \in Index :
              [t EXCEPT ![b][x] = e][g][y] = IF g = b /\ y = x THEN e ELSE t[g][y]
OBVIOUS

(* The next invocation of __mmap works one level below. *)
LEMMA WalkDown ==
  ASSUME walk \in WalkType, walk.level # PGT_LEVEL_PD, NEW f \in Nat,
         walk' = [walk EXCEPT !.base = f, !.level = walk.level - 1]
  PROVE  /\ walk' \in WalkType
         /\ walk'.base = f /\ walk'.level = walk.level - 1
         /\ walk'.vaddr = walk.vaddr /\ walk'.paddr = walk.paddr /\ walk'.is_user = walk.is_user
<1>1. walk.level - 1 \in Levels
  BY DEF WalkType, Levels, PGT_LEVEL_PML4, PGT_LEVEL_PDP, PGT_LEVEL_PD
<1> QED
  BY <1>1 DEF WalkType

(* The tables after a new one is cleared and linked into an entry of an old one. *)
LEMMA LinkedTables ==
  ASSUME TreeInv, NEW f \in Nat, f \notin DOMAIN tables,
         NEW b \in DOMAIN tables, NEW w \in Index, NEW link \in Entry,
         tables' = [Cleared(f) EXCEPT ![b][w] = link]
  PROVE  /\ tables' \in [DOMAIN tables \cup {f} -> [Index -> Entry]]
         /\ \A g \in DOMAIN tables \cup {f}, x \in Index :
              tables'[g][x] = IF g = b /\ x = w THEN link
                              ELSE IF g = f THEN ClearEntry ELSE tables[g][x]
<1> DEFINE D == DOMAIN tables \cup {f}
           C == Cleared(f)
           T == [C EXCEPT ![b][w] = link]
<1>1. /\ C \in [D -> [Index -> Entry]]
      /\ \A g \in D, x \in Index : C[g][x] = IF g = f THEN ClearEntry ELSE tables[g][x]
      /\ b \in D
  BY ClearedTables
<1> HIDE DEF C, D
<1>2. /\ T \in [D -> [Index -> Entry]]
      /\ \A g \in D, x \in Index : T[g][x] = IF g = b /\ x = w THEN link ELSE C[g][x]
  BY <1>1, EntryWritten
<1> HIDE DEF T
<1>3. \A g \in D, x \in Index :
        T[g][x] = IF g = b /\ x = w THEN link ELSE IF g = f THEN ClearEntry ELSE tables[g][x]
  BY <1>1, <1>2
<1> QED
  BY <1>2, <1>3 DEF D, T, C

(* __mmap above a page directory: the new table is linked where nothing was. *)
LEMMA TableAdded ==
  ASSUME TreeInv, mode = "mmap", walk.level # PGT_LEVEL_PD, ~ entry_is_present(WalkEntry),
         NEW f \in Nat, f \notin DOMAIN tables, NEW link \in Entry,
         link.base = f, entry_is_present(link), "PAGE_SIZE" \notin link.flags,
         tables' \in [DOMAIN tables \cup {f} -> [Index -> Entry]],
         \A g \in DOMAIN tables \cup {f}, x \in Index :
           tables'[g][x] = IF g = walk.base /\ x = WalkIndex THEN link
                           ELSE IF g = f THEN ClearEntry ELSE tables[g][x],
         walk' \in WalkType, walk'.base = f, walk'.level = walk.level - 1,
         walk'.vaddr = walk.vaddr, UNCHANGED <<pml4s, mode>>
  PROVE  /\ TreeInv'
         /\ \A r \in pml4s, n \in Pages : Translation(r, n)' = Translation(r, n)
<1>1. PICK level \in [DOMAIN tables -> Levels] : Tree(level)
  BY DEF TreeInv
<1> DEFINE D == DOMAIN tables \cup {f}
           B == walk.base
           w == WalkIndex
<1>2. /\ walk \in WalkType /\ w \in Index /\ WalkPage \in Nat /\ WalkPage \in Pages
      /\ w = Slot(WalkPage, walk.level)
      /\ B \in DOMAIN tables /\ level[B] = walk.level /\ ~ entry_is_present(tables[B][w])
      /\ DOMAIN tables \subseteq Nat /\ pml4s \subseteq DOMAIN tables
  BY <1>1, WalkTyped DEF Tree, TreeInv
<1>3. link \in Entry /\ entry_is_present(link) /\ "PAGE_SIZE" \notin link.flags /\ link.base = f
  OBVIOUS
<1> HIDE DEF w
<1>4. /\ tables' \in [D -> [Index -> Entry]] /\ DOMAIN tables' = D /\ D \subseteq Nat
      /\ \A g \in D, x \in Index :
           tables'[g][x] = IF g = B /\ x = w THEN link
                           ELSE IF g = f THEN ClearEntry ELSE tables[g][x]
      /\ IsFiniteSet(D)
      /\ ~ entry_is_present(ClearEntry) /\ "PAGE_SIZE" \notin ClearEntry.flags
  BY <1>2, ClearedTables DEF w
<1>5. /\ walk.level \in Levels /\ walk.level - 1 \in Levels
      /\ walk' \in WalkType /\ walk'.base = f /\ walk'.level = walk.level - 1
      /\ walk'.vaddr = walk.vaddr
  BY <1>2 DEF WalkType, Levels, PGT_LEVEL_PML4, PGT_LEVEL_PDP, PGT_LEVEL_PD
<1>6. PICK new \in [D -> Levels] :
        \A g \in D : new[g] = IF g = f THEN walk.level - 1 ELSE level[g]
  <2>1. [g \in D |-> IF g = f THEN walk.level - 1 ELSE level[g]] \in [D -> Levels]
    BY <1>5
  <2> QED
    BY <2>1
<1>7. D = DOMAIN tables \cup {f} /\ B # f
  BY <1>2
<1> HIDE DEF D
<1>8. \A g \in D, x \in Index :
        IsLink(new, g, x)' <=>
          \/ g \in DOMAIN tables /\ IsLink(level, g, x)
          \/ g = B /\ x = w
  BY <1>2, <1>3, <1>4, <1>6, <1>7 DEF IsLink, entry_is_present
<1>9. /\ \A g \in DOMAIN tables, x \in Index :
           ~ (g = B /\ x = w) => tables'[g][x] = tables[g][x]
      /\ \A g \in DOMAIN tables : new[g] = level[g]
      /\ tables'[B][w] = link /\ new[f] = walk.level - 1
      /\ ~ IsLink(level, B, w)
  <2>1. \A g \in DOMAIN tables : g \in D /\ g # f
    BY <1>7
  <2>2. \A g \in DOMAIN tables, x \in Index :
          ~ (g = B /\ x = w) => tables'[g][x] = tables[g][x]
    <3> SUFFICES ASSUME NEW g \in DOMAIN tables, NEW x \in Index, ~ (g = B /\ x = w)
                 PROVE  tables'[g][x] = tables[g][x]
      OBVIOUS
    <3>1. tables'[g][x] = IF g = B /\ x = w THEN link
                          ELSE IF g = f THEN ClearEntry ELSE tables[g][x]
      BY <1>4, <2>1
    <3> QED
      BY <2>1, <3>1
  <2>3. tables'[B][w] = link
    BY <1>2, <1>4, <2>1
  <2>4. f \in D
    BY <1>7
  <2> QED
    BY <1>2, <1>6, <2>1, <2>2, <2>3, <2>4 DEF IsLink
<1>10. \A g \in DOMAIN tables, x \in Index : IsLink(level, g, x) => tables[g][x].base # f
  BY <1>1 DEF Tree
<1>11. WalkPage' = WalkPage
  BY <1>5 DEF WalkPage, PageOf
<1>12. PICK r0 \in pml4s : WalksFrom(r0)
  BY <1>1 DEF Tree
<1>13. WalksFrom(r0)'
  <2>1. /\ r0 \in DOMAIN tables /\ level[r0] = PGT_LEVEL_PML4
        /\ HasPdp(r0, WalkPage) => PdpLink(r0, WalkPage).base \in DOMAIN tables
    BY <1>1, <1>2, WayByLevel
  <2>2. \A l \in Levels : Slot(WalkPage, l) \in Index
    BY <1>2, SlotInRange
  <2>3. CASE walk.level = PGT_LEVEL_PML4
    <3>1. B = r0 /\ w = Slot(WalkPage, PGT_LEVEL_PML4)
      BY <1>2, <1>12, <2>3 DEF WalksFrom
    <3>2. PdpLink(r0, WalkPage)' = link
      BY <1>9, <1>11, <3>1 DEF PdpLink
    <3> QED
      BY <1>3, <1>5, <1>11, <2>3, <3>2
      DEF WalksFrom, HasPdp, entry_is_present, PGT_LEVEL_PML4, PGT_LEVEL_PDP, PGT_LEVEL_PD
  <2>4. CASE walk.level = PGT_LEVEL_PDP
    <3>1. /\ HasPdp(r0, WalkPage) /\ B = PdpLink(r0, WalkPage).base
          /\ w = Slot(WalkPage, PGT_LEVEL_PDP)
      BY <1>2, <1>12, <2>4 DEF WalksFrom
    <3>2. B # r0
      BY <1>2, <2>1, <2>4 DEF PGT_LEVEL_PML4, PGT_LEVEL_PDP
    <3>3. PdpLink(r0, WalkPage)' = PdpLink(r0, WalkPage)
      BY <1>9, <1>11, <2>1, <2>2, <3>2 DEF PdpLink, Levels
    <3>4. PdLink(r0, WalkPage)' = link
      BY <1>9, <1>11, <3>1, <3>3 DEF PdLink
    <3> QED
      BY <1>3, <1>5, <1>11, <2>4, <3>1, <3>3, <3>4
      DEF WalksFrom, HasPdp, HasPd, entry_is_present, PGT_LEVEL_PML4, PGT_LEVEL_PDP, PGT_LEVEL_PD
  <2> QED
    BY <1>5, <2>3, <2>4 DEF Levels
<1>14. Tree(new)'
  <2>1. \A g \in D : new[g] = PGT_LEVEL_PML4 <=> g \in pml4s'
    <3>1. walk.level - 1 # PGT_LEVEL_PML4 /\ f \notin pml4s
      BY <1>2, <1>5 DEF Levels, PGT_LEVEL_PML4, PGT_LEVEL_PDP, PGT_LEVEL_PD
    <3> QED
      BY <1>1, <1>7, <1>9, <3>1 DEF Tree
  <2>2. ASSUME NEW g \in D, NEW x \in Index
        PROVE  /\ IsLink(new, g, x)' =>
                    tables'[g][x].base \in D /\ new[tables'[g][x].base] = new[g] - 1
               /\ "PAGE_SIZE" \in tables'[g][x].flags <=>
                    new[g] = PGT_LEVEL_PD /\ entry_is_present(tables'[g][x])
    <3>1. CASE g = f
      BY <1>4, <1>7, <1>8, <3>1
    <3>2. CASE g = B /\ x = w
      BY <1>2, <1>3, <1>7, <1>9, <3>2
    <3>3. CASE g # f /\ ~ (g = B /\ x = w)
      <4>1. g \in DOMAIN tables /\ tables'[g][x] = tables[g][x] /\ new[g] = level[g]
        BY <1>7, <1>9, <3>3
      <4> QED
        BY <1>1, <1>7, <1>8, <1>9, <3>3, <4>1 DEF Tree
    <3> QED
      BY <3>1, <3>2, <3>3
  <2>3. ASSUME NEW g \in D, NEW h \in D, NEW x \in Index, NEW y \in Index,
               IsLink(new, g, x)', IsLink(new, h, y)', tables'[g][x].base = tables'[h][y].base
        PROVE  g = h /\ x = y
    <3>1. /\ (g \in DOMAIN tables /\ IsLink(level, g, x)) \/ (g = B /\ x = w)
          /\ (h \in DOMAIN tables /\ IsLink(level, h, y)) \/ (h = B /\ y = w)
      BY <1>8, <2>3
    <3>2. CASE g = B /\ x = w /\ h = B /\ y = w
      BY <3>2
    <3>3. CASE ~ (g = B /\ x = w) /\ ~ (h = B /\ y = w)
      <4>1. /\ g \in DOMAIN tables /\ IsLink(level, g, x)
            /\ h \in DOMAIN tables /\ IsLink(level, h, y)
            /\ tables[g][x].base = tables[h][y].base
        BY <1>9, <2>3, <3>1, <3>3
      <4> QED
        BY <1>1, <4>1 DEF Tree
    <3>4. CASE g = B /\ x = w /\ ~ (h = B /\ y = w)
      <4>1. /\ h \in DOMAIN tables /\ IsLink(level, h, y)
            /\ tables'[h][y] = tables[h][y] /\ tables'[g][x] = link
        BY <1>9, <3>1, <3>4
      <4> QED
        BY <1>3, <1>10, <2>3, <4>1
    <3>5. CASE ~ (g = B /\ x = w) /\ h = B /\ y = w
      <4>1. /\ g \in DOMAIN tables /\ IsLink(level, g, x)
            /\ tables'[g][x] = tables[g][x] /\ tables'[h][y] = link
        BY <1>9, <3>1, <3>5
      <4> QED
        BY <1>3, <1>10, <2>3, <4>1
    <3> QED
      BY <3>2, <3>3, <3>4, <3>5
  <2>4. ASSUME NEW b \in D \ pml4s'
        PROVE  \E g \in D, x \in Index : IsLink(new, g, x)' /\ tables'[g][x].base = b
    <3>1. CASE b = f
      BY <1>2, <1>3, <1>7, <1>8, <1>9, <3>1
    <3>2. CASE b # f
      BY SMTT(30), <1>1, <1>7, <1>8, <1>9, <3>2 DEF Tree
    <3> QED
      BY <3>1, <3>2
  <2>5. walk'.base \in D /\ new[walk'.base] = walk'.level
    BY <1>5, <1>7, <1>9
  <2>6. DOMAIN tables' = D /\ \E r \in pml4s' : WalksFrom(r)'
    BY <1>4, <1>12, <1>13
  <2>7. \A g, h \in D, x, y \in Index :
          IsLink(new, g, x)' /\ IsLink(new, h, y)' /\ tables'[g][x].base = tables'[h][y].base =>
            g = h /\ x = y
    BY <2>3
  <2>8. \A b \in D \ pml4s' : \E g \in D, x \in Index :
          IsLink(new, g, x)' /\ tables'[g][x].base = b
    BY <2>4
  <2> QED
    BY <2>1, <2>2, <2>5, <2>6, <2>7, <2>8 DEF Tree
<1>15. TreeInv'
  <2>1. pml4s' \subseteq D
    BY <1>2, <1>7
  <2> QED
    BY <1>4, <1>5, <1>6, <1>14, <2>1 DEF TreeInv
<1>16. ASSUME NEW r \in pml4s, NEW n \in Pages
       PROVE  Translation(r, n)' = Translation(r, n)
  <2>1. /\ Translation(r, n) = OnTheWay(r, n) /\ Translation(r, n)' = OnTheWay(r, n)'
        /\ n \in Nat
    BY TranslationOnTheWay, TranslationsStay DEF Pages
  <2>2. \A l \in Levels : Slot(n, l) \in Index
    BY <2>1, SlotInRange
  <2>3. /\ r \in DOMAIN tables /\ level[r] = PGT_LEVEL_PML4
        /\ HasPdp(r, n) =>
             PdpLink(r, n).base \in DOMAIN tables /\ level[PdpLink(r, n).base] = PGT_LEVEL_PDP
        /\ HasPd(r, n) =>
             PdLink(r, n).base \in DOMAIN tables /\ level[PdLink(r, n).base] = PGT_LEVEL_PD
    BY <1>1, <2>1, WayByLevel
  <2>4. \A x \in Index : ~ entry_is_present(tables'[f][x])
    BY <1>4, <1>7
  <2>5. CASE r = B /\ Slot(n, PGT_LEVEL_PML4) = w
    <3>1. ~ HasPdp(r, n)
      BY <1>2, <2>5 DEF HasPdp, PdpLink
    <3>2. PdpLink(r, n)' = link
      BY <1>9, <2>5 DEF PdpLink
    <3>3. ~ HasPd(r, n)'
      BY <1>3, <2>2, <2>4, <3>2 DEF HasPd, PdLink, entry_is_present, Levels
    <3> QED
      BY <2>1, <3>1, <3>3 DEF OnTheWay, HasPage, HasPd
  <2>6. CASE ~ (r = B /\ Slot(n, PGT_LEVEL_PML4) = w)
    <3>1. PdpLink(r, n)' = PdpLink(r, n)
      BY <1>9, <2>2, <2>3, <2>6 DEF PdpLink, Levels
    <3>2. CASE HasPdp(r, n) /\ PdpLink(r, n).base = B /\ Slot(n, PGT_LEVEL_PDP) = w
      <4>1. ~ HasPd(r, n)
        BY <1>2, <3>2 DEF HasPd, PdLink
      <4>2. PdLink(r, n)' = link
        BY <1>9, <3>1, <3>2 DEF PdLink
      <4>3. ~ HasPage(r, n)'
        BY <1>3, <2>2, <2>4, <4>2 DEF HasPage, PageEntry, entry_is_present, Levels
      <4> QED
        BY <2>1, <4>1, <4>3 DEF OnTheWay, HasPage
    <3>3. CASE ~ (HasPdp(r, n) /\ PdpLink(r, n).base = B /\ Slot(n, PGT_LEVEL_PDP) = w)
      <4>1. HasPdp(r, n) => PdLink(r, n)' = PdLink(r, n)
        <5> DEFINE s == PdpLink(r, n).base
                   x == Slot(n, PGT_LEVEL_PDP)
        <5>1. x \in Index
          BY <2>2 DEF Levels
        <5>2. HasPdp(r, n) => tables'[s][x] = tables[s][x]
          BY <1>9, <2>3, <3>3, <5>1
        <5> QED
          BY <3>1, <5>2 DEF PdLink
      <4>2. HasPd(r, n) => PdLink(r, n).base # B
        BY <1>2, <2>3
      <4>3. HasPd(r, n) => PageEntry(r, n)' = PageEntry(r, n)
        BY <1>9, <2>2, <2>3, <4>1, <4>2 DEF PageEntry, Levels, HasPd
      <4> QED
        BY <2>1, <3>1, <4>1, <4>3, SameWay
    <3> QED
      BY <3>2, <3>3
  <2> QED
    BY <2>5, <2>6
<1> QED
  BY <1>15, <1>16

(* __mmap at a page directory: the page of the walk, in the space the walk started
   from, is translated to the new entry, and every other page as before. *)
LEMMA PageMapped ==
  ASSUME TreeInv, mode = "mmap", walk.level = PGT_LEVEL_PD, NEW e \in Entry,
         entry_is_present(e), "PAGE_SIZE" \in e.flags,
         tables' \in [DOMAIN tables -> [Index -> Entry]],
         \A g \in DOMAIN tables, x \in Index :
           tables'[g][x] = IF g = walk.base /\ x = WalkIndex THEN e ELSE tables[g][x],
         mode' # "mmap", UNCHANGED <<pml4s, walk>>
  PROVE  /\ TreeInv'
         /\ \E r0 \in pml4s : \A r \in pml4s, n \in Pages :
              Translation(r, n)' =
                IF r = r0 /\ n = WalkPage THEN {Translated(e)} ELSE Translation(r, n)
<1>1. PICK level \in [DOMAIN tables -> Levels] : Tree(level)
  BY DEF TreeInv
<1> DEFINE D == DOMAIN tables
           B == walk.base
           w == WalkIndex
<1>2. /\ walk \in WalkType /\ w \in Index /\ WalkPage \in Nat /\ WalkPage \in Pages
      /\ w = Slot(WalkPage, PGT_LEVEL_PD)
      /\ B \in D /\ level[B] = PGT_LEVEL_PD
      /\ D \subseteq Nat /\ pml4s \subseteq D /\ IsFiniteSet(D)
  BY <1>1, WalkTyped DEF Tree, TreeInv
<1> HIDE DEF w
<1>3. /\ DOMAIN tables' = D
      /\ \A g \in D, x \in Index : ~ (g = B /\ x = w) => tables'[g][x] = tables[g][x]
      /\ tables'[B][w] = e
  BY <1>2 DEF w
<1>4. \A g \in D, x \in Index :
        /\ IsLink(level, g, x)' <=> IsLink(level, g, x)
        /\ IsLink(level, g, x) => tables'[g][x] = tables[g][x]
  BY <1>2, <1>3 DEF IsLink
<1>5. Tree(level)'
  <2>1. \A g \in D : level[g] = PGT_LEVEL_PML4 <=> g \in pml4s'
    BY <1>1 DEF Tree
  <2>2. ASSUME NEW g \in D, NEW x \in Index
        PROVE  /\ IsLink(level, g, x)' =>
                    tables'[g][x].base \in D /\ level[tables'[g][x].base] = level[g] - 1
               /\ "PAGE_SIZE" \in tables'[g][x].flags <=>
                    level[g] = PGT_LEVEL_PD /\ entry_is_present(tables'[g][x])
    <3>1. CASE g = B /\ x = w
      BY <1>2, <1>3, <3>1 DEF IsLink
    <3>2. CASE ~ (g = B /\ x = w)
      BY <1>1, <1>3, <1>4, <3>2 DEF Tree
    <3> QED
      BY <3>1, <3>2
  <2>3. ASSUME NEW g \in D, NEW h \in D, NEW x \in Index, NEW y \in Index,
               IsLink(level, g, x)', IsLink(level, h, y)', tables'[g][x].base = tables'[h][y].base
        PROVE  g = h /\ x = y
    <3>1. /\ IsLink(level, g, x) /\ IsLink(level, h, y)
          /\ tables[g][x].base = tables[h][y].base
      BY <1>4, <2>3
    <3> QED
      BY <1>1, <3>1 DEF Tree
  <2>4. \A b \in D \ pml4s' : \E g \in D, x \in Index :
          IsLink(level, g, x)' /\ tables'[g][x].base = b
    BY SMTT(30), <1>1, <1>4 DEF Tree
  <2> QED
    BY <1>3, <2>1, <2>2, <2>3, <2>4 DEF Tree
<1>6. TreeInv'
  BY <1>2, <1>3, <1>5 DEF TreeInv
<1>7. PICK r0 \in pml4s : HasPd(r0, WalkPage) /\ B = PdLink(r0, WalkPage).base
  BY <1>1 DEF Tree, WalksFrom
<1>8. ASSUME NEW r \in pml4s, NEW n \in Pages
      PROVE  Translation(r, n)' =
               IF r = r0 /\ n = WalkPage THEN {Translated(e)} ELSE Translation(r, n)
  <2>1. /\ Translation(r, n) = OnTheWay(r, n) /\ Translation(r, n)' = OnTheWay(r, n)'
        /\ n \in Nat
    BY TranslationOnTheWay, TranslationsStay DEF Pages
  <2>2. \A l \in Levels : Slot(n, l) \in Index
    BY <2>1, SlotInRange
  <2>3. /\ r \in D /\ level[r] = PGT_LEVEL_PML4
        /\ HasPdp(r, n) => PdpLink(r, n).base \in D /\ level[PdpLink(r, n).base] = PGT_LEVEL_PDP
        /\ HasPd(r, n) => PdLink(r, n).base \in D /\ level[PdLink(r, n).base] = PGT_LEVEL_PD
    BY <1>1, <2>1, WayByLevel
  <2>4. PdpLink(r, n)' = PdpLink(r, n)
    BY <1>2, <1>3, <2>2, <2>3 DEF PdpLink, Levels, PGT_LEVEL_PML4, PGT_LEVEL_PD
  <2>5. HasPdp(r, n) => PdLink(r, n)' = PdLink(r, n)
    <3> DEFINE s == PdpLink(r, n).base
               x == Slot(n, PGT_LEVEL_PDP)
    <3>1. x \in Index
      BY <2>2 DEF Levels
    <3>2. HasPdp(r, n) => tables'[s][x] = tables[s][x]
      BY <1>2, <1>3, <2>3, <3>1 DEF PGT_LEVEL_PDP, PGT_LEVEL_PD
    <3> QED
      BY <2>4, <3>2 DEF PdLink
  <2>6. CASE r = r0 /\ n = WalkPage
    <3>1. HasPd(r, n)'
      BY <1>7, <2>4, <2>5, <2>6 DEF HasPd, HasPdp
    <3>2. PageEntry(r, n)' = e
      BY <1>2, <1>3, <1>7, <2>5, <2>6 DEF PageEntry, HasPd
    <3> QED
      BY <2>1, <2>6, <3>1, <3>2 DEF OnTheWay, HasPage
  <2>7. CASE ~ (r = r0 /\ n = WalkPage)
    <3>1. HasPd(r, n) => ~ (PdLink(r, n).base = B /\ Slot(n, PGT_LEVEL_PD) = w)
      <4> SUFFICES ASSUME HasPd(r, n), PdLink(r, n).base = B, Slot(n, PGT_LEVEL_PD) = w
                   PROVE  r = r0 /\ n = WalkPage
        BY <2>7
      <4>1. /\ r = r0
            /\ Slot(n, PGT_LEVEL_PML4) = Slot(WalkPage, PGT_LEVEL_PML4)
            /\ Slot(n, PGT_LEVEL_PDP) = Slot(WalkPage, PGT_LEVEL_PDP)
        BY <1>1, <1>2, <1>7, <2>1, WaysApart
      <4>2. \A l \in Levels : Slot(n, l) = Slot(WalkPage, l)
        BY <1>2, <4>1 DEF Levels
      <4> QED
        BY <1>2, <4>1, <4>2, SlotsTellPages
    <3>2. HasPd(r, n) => PageEntry(r, n)' = PageEntry(r, n)
      <4> DEFINE p == PdLink(r, n).base
                 x == Slot(n, PGT_LEVEL_PD)
      <4>1. x \in Index
        BY <2>2 DEF Levels
      <4>2. HasPd(r, n) => tables'[p][x] = tables[p][x]
        BY <1>3, <2>3, <3>1, <4>1
      <4> QED
        BY <2>5, <4>2 DEF PageEntry, HasPd
    <3> QED
      BY <2>1, <2>4, <2>5, <2>7, <3>2, SameWay
  <2> QED
    BY <2>6, <2>7
<1> QED
  BY <1>6, <1>8

(* Where no entry is written, no page is translated otherwise. *)
LEMMA SameTables ==
  ASSUME UNCHANGED tables
  PROVE  \A r : \A n \in Pages : Translation(r, n)' = Translation(r, n)
BY DEF Translation, PdEntries, NextTable, get_entry

(* A walk starts at the PML4 table of its space. *)
LEMMA WalkStarts ==
  ASSUME TreeInv, NEW r \in pml4s, walk' \in WalkType, walk'.base = r,
         walk'.level = PGT_LEVEL_PML4, UNCHANGED <<tables, pml4s>>
  PROVE  TreeInv'
<1>1. PICK level \in [DOMAIN tables -> Levels] : Tree(level)
  BY DEF TreeInv
<1>2. WalksFrom(r)'
  BY DEF WalksFrom, PGT_LEVEL_PML4, PGT_LEVEL_PDP, PGT_LEVEL_PD
<1>3. r \in DOMAIN tables /\ level[r] = PGT_LEVEL_PML4
  BY <1>1 DEF Tree, TreeInv
<1>4. \A f, x : IsLink(level, f, x)' <=> IsLink(level, f, x)
  BY DEF IsLink
<1>5. Tree(level)'
  BY <1>1, <1>2, <1>3, <1>4 DEF Tree
<1> QED
  BY <1>1, <1>5 DEF TreeInv

(* A walk goes down a link that is there. *)
LEMMA WalkDescends ==
  ASSUME TreeInv, mode = "mmap", walk.level # PGT_LEVEL_PD, entry_is_present(WalkEntry),
         walk' \in WalkType, walk'.base = WalkEntry.base, walk'.level = walk.level - 1,
         walk'.vaddr = walk.vaddr, UNCHANGED <<tables, pml4s>>
  PROVE  TreeInv'
<1>1. PICK level \in [DOMAIN tables -> Levels] : Tree(level)
  BY DEF TreeInv
<1> DEFINE B == walk.base
           w == WalkIndex
<1>2. /\ walk \in WalkType /\ w \in Index /\ walk.level \in Levels
      /\ w = Slot(WalkPage, walk.level) /\ WalkEntry = tables[B][w]
      /\ B \in DOMAIN tables /\ level[B] = walk.level
  BY <1>1, WalkTyped DEF Tree, TreeInv, WalkType
<1>3. WalkPage' = WalkPage
  BY DEF WalkPage
<1> HIDE DEF w
<1>4. IsLink(level, B, w)
  BY <1>2 DEF IsLink
<1>5. walk'.base \in DOMAIN tables /\ level[walk'.base] = walk'.level
  BY <1>1, <1>2, <1>4 DEF Tree
<1>6. PICK r \in pml4s : WalksFrom(r)
  BY <1>1 DEF Tree
<1>7. WalksFrom(r)'
  <2>1. CASE walk.level = PGT_LEVEL_PML4
    <3>1. HasPdp(r, WalkPage) /\ walk'.base = PdpLink(r, WalkPage).base
      BY <1>2, <1>6, <2>1 DEF WalksFrom, HasPdp, PdpLink
    <3> QED
      BY <1>3, <2>1, <3>1
      DEF WalksFrom, HasPdp, PdpLink, PGT_LEVEL_PML4, PGT_LEVEL_PDP, PGT_LEVEL_PD
  <2>2. CASE walk.level = PGT_LEVEL_PDP
    <3>1. HasPd(r, WalkPage) /\ walk'.base = PdLink(r, WalkPage).base
      BY <1>2, <1>6, <2>2 DEF WalksFrom, HasPd, PdLink
    <3> QED
      BY <1>3, <2>2, <3>1
      DEF WalksFrom, HasPd, PdLink, HasPdp, PdpLink, PGT_LEVEL_PML4, PGT_LEVEL_PDP, PGT_LEVEL_PD
  <2> QED
    BY <1>2, <2>1, <2>2 DEF Levels
<1>8. \A f, x : IsLink(level, f, x)' <=> IsLink(level, f, x)
  BY DEF IsLink
<1>9. Tree(level)'
  BY <1>1, <1>5, <1>6, <1>7, <1>8 DEF Tree
<1> QED
  BY <1>1, <1>9 DEF TreeInv

(* A walk ends, or was none. *)
LEMMA WalkStops ==
  ASSUME TreeInv, mode' # "mmap" \/ UNCHANGED mode, UNCHANGED <<tables, pml4s, walk>>
  PROVE  TreeInv'
<1>1. PICK level \in [DOMAIN tables -> Levels] : Tree(level)
  BY DEF TreeInv
<1>2. \A f, x : IsLink(level, f, x)' <=> IsLink(level, f, x)
  BY DEF IsLink
<1>3. \A r : WalksFrom(r)' <=> WalksFrom(r)
  BY DEF WalksFrom, WalkPage, HasPdp, HasPd, PdpLink, PdLink
<1>4. Tree(level)'
  BY <1>1, <1>2, <1>3 DEF Tree
<1> QED
  BY <1>1, <1>4 DEF TreeInv

------------------------------------------------------------------------------
(***************************************************************************)
(* What each action of page.c does to the trees, whoever asked for it.     *)
(***************************************************************************)
LEMMA MmapInTree ==
  ASSUME TreeInv, NEW r \in pml4s, NEW v \in Nat, NEW p \in Nat, NEW u \in BOOLEAN,
         mmap(r, v, p, u)
  PROVE  TreeInv' /\ walk'.vaddr = v /\ walk'.paddr = p /\ walk'.is_user = u
<1>1. r \in Nat
  BY DEF TreeInv
<1>2. /\ walk' \in WalkType /\ walk'.base = r /\ walk'.level = PGT_LEVEL_PML4
      /\ walk'.vaddr = v /\ walk'.paddr = p /\ walk'.is_user = u
  BY <1>1 DEF mmap, WalkType, Levels
<1>3. UNCHANGED <<tables, pml4s>>
  BY DEF mmap
<1> QED
  BY <1>2, <1>3, WalkStarts

LEMMA DescendInTree ==
  ASSUME TreeInv, Descend
  PROVE  /\ TreeInv' /\ walk'.vaddr = walk.vaddr /\ walk'.paddr = walk.paddr
         /\ walk'.is_user = walk.is_user
<1>1. /\ mode = "mmap" /\ walk.level # PGT_LEVEL_PD /\ entry_is_present(WalkEntry)
      /\ walk' = [walk EXCEPT !.base = WalkEntry.base, !.level = walk.level - 1]
      /\ UNCHANGED <<tables, pml4s, mode>> /\ walk \in WalkType
  BY DEF Descend, TreeInv
<1>2. WalkEntry.base \in Nat
  <2>1. walk.base \in DOMAIN tables
    BY <1>1 DEF TreeInv, Tree
  <2>2. tables[walk.base][WalkIndex] \in Entry
    BY <1>1, <2>1, WalkTyped DEF TreeInv
  <2> QED
    BY <1>1, <2>2, WalkTyped DEF Entry
<1>3. /\ walk' \in WalkType
      /\ walk'.base = WalkEntry.base /\ walk'.level = walk.level - 1
      /\ walk'.vaddr = walk.vaddr /\ walk'.paddr = walk.paddr /\ walk'.is_user = walk.is_user
  BY <1>1, <1>2, WalkDown
<1> QED
  BY <1>1, <1>3, WalkDescends

LEMMA AddTableInTree ==
  ASSUME TreeInv, AddTable, pool \subseteq Nat, pool \cap DOMAIN tables = {}
  PROVE  \E f \in pool :
           /\ Granted(f) /\ TreeInv'
           /\ \A r \in pml4s, n \in Pages : Translation(r, n)' = Translation(r, n)
           /\ DOMAIN tables' = DOMAIN tables \cup {f}
           /\ \A g \in DOMAIN tables \cup {f}, x \in Index :
                "PAGE_SIZE" \in tables'[g][x].flags =>
                  g \in DOMAIN tables /\ tables'[g][x] = tables[g][x]
           /\ walk'.vaddr = walk.vaddr /\ walk'.paddr = walk.paddr /\ walk'.is_user = walk.is_user
<1>0. PICK f \in pool :
        /\ Granted(f)
        /\ tables' = [Cleared(f) EXCEPT ![walk.base][WalkIndex] =
                         [base |-> f, flags |-> {"PRESENT", "RW", "US"}]]
        /\ walk' = [walk EXCEPT !.base = f, !.level = walk.level - 1]
  BY DEF AddTable
<1> DEFINE link == [base |-> f, flags |-> {"PRESENT", "RW", "US"}]
           b == walk.base
           w == WalkIndex
<1>1. /\ mode = "mmap" /\ walk.level # PGT_LEVEL_PD /\ ~ entry_is_present(WalkEntry)
      /\ UNCHANGED <<pml4s, mode>> /\ walk \in WalkType
      /\ f \in Nat /\ f \notin DOMAIN tables
  BY DEF AddTable, TreeInv
<1>2. /\ walk' \in WalkType /\ walk'.base = f /\ walk'.level = walk.level - 1
      /\ walk'.vaddr = walk.vaddr /\ walk'.paddr = walk.paddr /\ walk'.is_user = walk.is_user
  BY <1>0, <1>1, WalkDown
<1>3. /\ link \in Entry /\ link.base = f /\ entry_is_present(link)
      /\ "PAGE_SIZE" \notin link.flags
  BY <1>1 DEF Entry, Flags, entry_is_present
<1>4. b \in DOMAIN tables /\ w \in Index
  BY <1>1, WalkTyped DEF TreeInv, Tree
<1>5. tables' = [Cleared(f) EXCEPT ![b][w] = link]
  BY <1>0
<1> HIDE DEF link, b, w
<1>6. /\ tables' \in [DOMAIN tables \cup {f} -> [Index -> Entry]]
      /\ \A g \in DOMAIN tables \cup {f}, x \in Index :
           tables'[g][x] = IF g = b /\ x = w THEN link
                           ELSE IF g = f THEN ClearEntry ELSE tables[g][x]
  <2>1. f \in Nat /\ f \notin DOMAIN tables /\ link \in Entry
    BY <1>1, <1>3
  <2> QED
    BY <2>1, <1>4, <1>5, LinkedTables
<1>7. \A g \in DOMAIN tables \cup {f}, x \in Index :
        tables'[g][x] = IF g = walk.base /\ x = WalkIndex THEN link
                        ELSE IF g = f THEN ClearEntry ELSE tables[g][x]
  BY <1>6 DEF b, w
<1>8. /\ TreeInv'
      /\ \A r \in pml4s, n \in Pages : Translation(r, n)' = Translation(r, n)
  BY <1>1, <1>2, <1>3, <1>6, <1>7, TableAdded
<1>9. \A g \in DOMAIN tables \cup {f}, x \in Index :
        "PAGE_SIZE" \in tables'[g][x].flags =>
          g \in DOMAIN tables /\ tables'[g][x] = tables[g][x]
  <2>1. "PAGE_SIZE" \notin ClearEntry.flags
    BY DEF ClearEntry
  <2> QED
    BY <1>3, <1>6, <2>1
<1> QED
  BY <1>0, <1>2, <1>6, <1>8, <1>9

LEMMA MapPageInTree ==
  ASSUME TreeInv, MapPage
  PROVE  /\ TreeInv' /\ DOMAIN tables' = DOMAIN tables
         /\ walk.paddr \div SuperPageSize \in Nat
         /\ \A g \in DOMAIN tables, x \in Index :
              tables'[g][x] = tables[g][x] \/ tables'[g][x].base = walk.paddr \div SuperPageSize
         /\ \E r0 \in pml4s : \A r \in pml4s, n \in Pages :
              Translation(r, n)' =
                IF r = r0 /\ n = WalkPage
                THEN {[frame |-> walk.paddr \div SuperPageSize, user |-> walk.is_user]}
                ELSE Translation(r, n)
<1> DEFINE e == [base  |-> walk.paddr \div SuperPageSize,
                 flags |-> {"PRESENT", "RW", "PAGE_SIZE"} \cup
                           (IF walk.is_user THEN {"US"} ELSE {})]
<1>1. /\ mode = "mmap" /\ walk.level = PGT_LEVEL_PD
      /\ tables' = [tables EXCEPT ![walk.base][WalkIndex] = e]
      /\ mode' = "idle" /\ UNCHANGED <<pml4s, walk>>
      /\ walk \in WalkType /\ tables \in [DOMAIN tables -> [Index -> Entry]]
  BY DEF MapPage, TreeInv
<1>2. walk.paddr \div SuperPageSize \in Nat /\ walk.is_user \in BOOLEAN
  BY <1>1, Sizes DEF WalkType
<1>3. /\ e \in Entry /\ entry_is_present(e) /\ "PAGE_SIZE" \in e.flags
      /\ e.base = walk.paddr \div SuperPageSize /\ ("US" \in e.flags) = walk.is_user
  BY <1>2 DEF Entry, Flags, entry_is_present
<1>4. Translated(e) = [frame |-> walk.paddr \div SuperPageSize, user |-> walk.is_user]
  BY <1>3 DEF Translated
<1> HIDE DEF e
<1>5. walk.base \in DOMAIN tables /\ WalkIndex \in Index
  BY <1>1, WalkTyped DEF TreeInv, Tree
<1>6. /\ tables' \in [DOMAIN tables -> [Index -> Entry]]
      /\ DOMAIN tables' = DOMAIN tables
      /\ \A g \in DOMAIN tables, x \in Index :
           tables'[g][x] = IF g = walk.base /\ x = WalkIndex THEN e ELSE tables[g][x]
  BY <1>1, <1>3, <1>5, EntryWritten
<1>7. /\ TreeInv'
      /\ \E r0 \in pml4s : \A r \in pml4s, n \in Pages :
           Translation(r, n)' =
             IF r = r0 /\ n = WalkPage THEN {Translated(e)} ELSE Translation(r, n)
  BY <1>1, <1>3, <1>6, PageMapped
<1> QED
  BY <1>2, <1>3, <1>4, <1>6, <1>7

------------------------------------------------------------------------------
(* The mapping whose page the running __mmap is to write. *)
WalkTarget ==
  \E m \in Mappings : walk.vaddr = m[1] /\ walk.paddr = m[2] /\ walk.is_user = m[3]

(* A translation leads to a frame some client asked for. *)
PagesAskedFor ==
  \A f \in DOMAIN tables, x \in Index :
    "PAGE_SIZE" \in tables[f][x].flags =>
      \E m \in Mappings : tables[f][x].base = Quot(m[2], SuperPageSize)

(* The tables are the frames granted, and those still to be granted are no tables. *)
PageInv ==
  /\ TreeInv
  /\ pool \subseteq UNION Pools
  /\ pool \cap DOMAIN tables = {}
  /\ grants \in Seq([first : Nat, nr : Nat \ {0}])
  /\ mode \in {"idle", "mmap", "dead"}
  /\ mode # "dead" => DOMAIN tables = {grants[a].first : a \in DOMAIN grants}
  /\ mode = "mmap" => WalkTarget
  /\ PagesAskedFor

(* alloc_pages grants one frame of the pool. *)
LEMMA FrameGranted ==
  ASSUME PageInv, NEW f \in pool, Granted(f)
  PROVE  /\ f \in UNION Pools /\ f \in Nat /\ f \notin DOMAIN tables
         /\ pool' \subseteq UNION Pools
         /\ pool' \cap (DOMAIN tables \cup {f}) = {}
         /\ grants' \in Seq([first : Nat, nr : Nat \ {0}])
         /\ {grants'[a].first : a \in DOMAIN grants'} =
              {grants[a].first : a \in DOMAIN grants} \cup {f}
<1>1. f \in UNION Pools /\ f \in Nat /\ f \notin DOMAIN tables
  BY PageTableAssumption DEF PageInv
<1>2. pool' = pool \ {f} /\ grants' = Append(grants, [first |-> f, nr |-> 1])
  <2>1. f .. f + 1 - 1 = {f}
    BY <1>1
  <2> QED
    BY <2>1 DEF Granted, Allocator!GrantRun
<1>3. pool' \subseteq UNION Pools /\ pool' \cap (DOMAIN tables \cup {f}) = {}
  BY <1>2 DEF PageInv
<1> DEFINE n == Len(grants)
           run == [first |-> f, nr |-> 1]
<1>4. grants \in Seq([first : Nat, nr : Nat \ {0}]) /\ run \in [first : Nat, nr : Nat \ {0}]
  BY <1>1 DEF PageInv
<1>5. /\ grants' \in Seq([first : Nat, nr : Nat \ {0}])
      /\ DOMAIN grants = 1 .. n /\ DOMAIN grants' = 1 .. n + 1 /\ n \in Nat
      /\ \A a \in 1 .. n : grants'[a] = grants[a]
      /\ grants'[n + 1] = run
  BY <1>2, <1>4
<1>6. run.first = f
  OBVIOUS
<1> HIDE DEF n, run
<1>7. {grants'[a].first : a \in DOMAIN grants'} =
        {grants[a].first : a \in DOMAIN grants} \cup {f}
  <2>1. DOMAIN grants' = DOMAIN grants \cup {n + 1}
    BY <1>5
  <2>2. \A a \in DOMAIN grants : grants'[a].first = grants[a].first
    BY <1>5
  <2>3. grants'[n + 1].first = f
    BY <1>5, <1>6
  <2> QED
    BY <2>1, <2>2, <2>3
<1> QED
  BY <1>1, <1>3, <1>5, <1>7

LEMMA InitEstablishesPageInv == PageInit => PageInv
<1> SUFFICES ASSUME PageInit PROVE PageInv
  OBVIOUS
<1>1. /\ tables \in [{} -> [Index -> Entry]] /\ DOMAIN tables = {}
      /\ pml4s = {} /\ mode = "idle" /\ grants = << >>
      /\ \E p \in Pools : pool = p
  BY DEF PageInit
<1>2. walk \in WalkType
  BY DEF PageInit, WalkType, Levels
<1>3. \E level \in [DOMAIN tables -> Levels] : Tree(level)
  <2> DEFINE level == [f \in {} |-> PGT_LEVEL_PD]
  <2>1. level \in [DOMAIN tables -> Levels]
    BY <1>1
  <2>2. Tree(level)
    BY <1>1 DEF Tree
  <2> QED
    BY <2>1, <2>2
<1>4. TreeInv
  BY <1>1, <1>2, <1>3, FS_EmptySet DEF TreeInv
<1>5. pool \subseteq UNION Pools
  BY <1>1
<1> QED
  BY <1>1, <1>4, <1>5 DEF PageInv, PagesAskedFor

LEMMA CreateKeepsPageInv ==
  ASSUME PageInv, pml4_table_create
  PROVE  /\ PageInv'
         /\ \E f \in UNION Pools :
              /\ f \notin pml4s /\ pml4s' = pml4s \cup {f}
              /\ \A n \in Pages : Translation(f, n)' = {}
              /\ \A r \in pml4s, n \in Pages : Translation(r, n)' = Translation(r, n)
<1>1. PICK f \in pool : /\ Granted(f)
                        /\ tables' = Cleared(f) /\ pml4s' = pml4s \cup {f}
  BY DEF pml4_table_create
<1>2. mode = "idle" /\ mode' = mode /\ walk' = walk /\ TreeInv /\ UNCHANGED <<mode, walk>>
  BY DEF pml4_table_create, PageInv
<1>3. /\ f \in UNION Pools /\ f \in Nat /\ f \notin DOMAIN tables
      /\ pool' \subseteq UNION Pools
      /\ pool' \cap (DOMAIN tables \cup {f}) = {}
      /\ grants' \in Seq([first : Nat, nr : Nat \ {0}])
      /\ {grants'[a].first : a \in DOMAIN grants'} =
           {grants[a].first : a \in DOMAIN grants} \cup {f}
  BY <1>1, FrameGranted
<1>4. /\ TreeInv'
      /\ \A n \in Pages : Translation(f, n)' = {}
      /\ \A r \in pml4s, n \in Pages : Translation(r, n)' = Translation(r, n)
  BY <1>1, <1>2, <1>3, RootAdded
<1>5. /\ DOMAIN tables' = DOMAIN tables \cup {f}
      /\ \A g \in DOMAIN tables', x \in Index :
           tables'[g][x] = IF g = f THEN ClearEntry ELSE tables[g][x]
      /\ "PAGE_SIZE" \notin ClearEntry.flags
  <2>1. /\ DOMAIN Cleared(f) = DOMAIN tables \cup {f}
        /\ \A g \in DOMAIN tables \cup {f}, x \in Index :
             Cleared(f)[g][x] = IF g = f THEN ClearEntry ELSE tables[g][x]
        /\ "PAGE_SIZE" \notin ClearEntry.flags
    BY <1>2, <1>3, ClearedTables
  <2>2. tables' = Cleared(f)
    BY <1>1
  <2> QED
    BY <2>1, <2>2
<1>6. PagesAskedFor'
  BY <1>5 DEF PageInv, PagesAskedFor
<1>7. DOMAIN tables' = {grants'[a].first : a \in DOMAIN grants'}
  BY <1>2, <1>3, <1>5 DEF PageInv
<1>8. PageInv'
  BY <1>2, <1>3, <1>4, <1>5, <1>6, <1>7 DEF PageInv
<1>9. f \notin pml4s
  BY <1>2, <1>3 DEF TreeInv
<1> QED
  BY <1>1, <1>3, <1>4, <1>8, <1>9

LEMMA MmapKeepsPageInv ==
  ASSUME PageInv, NEW r \in pml4s, NEW m \in Mappings, mmap(r, m[1], m[2], m[3])
  PROVE  PageInv'
<1>1. m[1] \in Nat /\ m[2] \in Nat /\ m[3] \in BOOLEAN
  BY PageTableAssumption
<1>2. TreeInv' /\ walk'.vaddr = m[1] /\ walk'.paddr = m[2] /\ walk'.is_user = m[3]
  BY <1>1, MmapInTree DEF PageInv
<1>3. UNCHANGED <<pool, grants, tables, pml4s>> /\ mode = "idle" /\ mode' = "mmap"
  BY DEF mmap
<1>4. WalkTarget' /\ PagesAskedFor'
  BY <1>2, <1>3 DEF WalkTarget, PageInv, PagesAskedFor
<1> QED
  BY <1>2, <1>3, <1>4 DEF PageInv

LEMMA DescendKeepsPageInv ==
  ASSUME PageInv, Descend
  PROVE  PageInv'
<1>1. /\ TreeInv' /\ walk'.vaddr = walk.vaddr /\ walk'.paddr = walk.paddr
      /\ walk'.is_user = walk.is_user
  BY DescendInTree DEF PageInv
<1>2. mode = "mmap" /\ UNCHANGED <<pool, grants, tables, pml4s, mode>>
  BY DEF Descend
<1>3. WalkTarget' /\ PagesAskedFor'
  BY <1>1, <1>2 DEF WalkTarget, PageInv, PagesAskedFor
<1> QED
  BY <1>1, <1>2, <1>3 DEF PageInv

LEMMA AddTableKeepsPageInv ==
  ASSUME PageInv, AddTable
  PROVE  /\ PageInv'
         /\ \A r \in pml4s, n \in Pages : Translation(r, n)' = Translation(r, n)
<1>1. PICK f \in pool :
        /\ Granted(f) /\ TreeInv'
        /\ \A r \in pml4s, n \in Pages : Translation(r, n)' = Translation(r, n)
        /\ DOMAIN tables' = DOMAIN tables \cup {f}
        /\ \A g \in DOMAIN tables \cup {f}, x \in Index :
             "PAGE_SIZE" \in tables'[g][x].flags =>
               g \in DOMAIN tables /\ tables'[g][x] = tables[g][x]
        /\ walk'.vaddr = walk.vaddr /\ walk'.paddr = walk.paddr /\ walk'.is_user = walk.is_user
  <2>1. pool \subseteq Nat /\ pool \cap DOMAIN tables = {}
    BY PageTableAssumption DEF PageInv
  <2> QED
    BY <2>1, AddTableInTree DEF PageInv
<1>2. /\ pool' \subseteq UNION Pools
      /\ pool' \cap (DOMAIN tables \cup {f}) = {}
      /\ grants' \in Seq([first : Nat, nr : Nat \ {0}])
      /\ {grants'[a].first : a \in DOMAIN grants'} =
           {grants[a].first : a \in DOMAIN grants} \cup {f}
  BY <1>1, FrameGranted
<1>4. mode = "mmap" /\ UNCHANGED <<pml4s, mode>>
  BY DEF AddTable
<1>5. PagesAskedFor'
  BY SMTT(30), <1>1 DEF PageInv, PagesAskedFor
<1>6. WalkTarget'
  BY <1>1, <1>4 DEF PageInv, WalkTarget
<1>7. DOMAIN tables' = {grants'[a].first : a \in DOMAIN grants'}
  BY <1>1, <1>2, <1>4 DEF PageInv
<1>8. PageInv'
  BY <1>1, <1>2, <1>4, <1>5, <1>6, <1>7 DEF PageInv
<1> QED
  BY <1>1, <1>8

LEMMA MapPageKeepsPageInv ==
  ASSUME PageInv, MapPage
  PROVE  /\ PageInv'
         /\ \E r0 \in pml4s, t \in MapTargets : \A r \in pml4s, n \in Pages :
              Translation(r, n)' = IF r = r0 /\ n = WalkPage THEN {t} ELSE Translation(r, n)
<1> DEFINE b == walk.paddr \div SuperPageSize
           t == [frame |-> b, user |-> walk.is_user]
<1>1. /\ TreeInv' /\ DOMAIN tables' = DOMAIN tables
      /\ \A g \in DOMAIN tables, x \in Index :
           tables'[g][x] = tables[g][x] \/ tables'[g][x].base = b
      /\ \E r0 \in pml4s : \A r \in pml4s, n \in Pages :
           Translation(r, n)' = IF r = r0 /\ n = WalkPage THEN {t} ELSE Translation(r, n)
  BY MapPageInTree DEF PageInv
<1>2. mode = "mmap" /\ mode' = "idle" /\ UNCHANGED <<pool, grants, pml4s, walk>>
  BY DEF MapPage
<1>3. PICK m \in Mappings : b = Quot(m[2], SuperPageSize) /\ walk.is_user = m[3]
  BY <1>2 DEF PageInv, WalkTarget, Quot
<1>4. t \in MapTargets
  <2>1. m[3] \in BOOLEAN /\ b \in {k[2] \div SuperPageSize : k \in Mappings}
    BY <1>3, PageTableAssumption DEF Quot
  <2> QED
    BY <1>3, <2>1 DEF MapTargets
<1> HIDE DEF b
<1>5. PagesAskedFor'
  BY <1>1, <1>3 DEF PageInv, PagesAskedFor
<1>6. PageInv'
  BY <1>1, <1>2, <1>5 DEF PageInv
<1> HIDE DEF t
<1> QED
  BY <1>1, <1>4, <1>6

LEMMA FailuresKeepPageInv ==
  ASSUME PageInv, OutOfFrames \/ TableFaults
  PROVE  PageInv'
<1>1. mode' = "dead" /\ UNCHANGED <<tables, pml4s, walk>>
  BY DEF OutOfFrames, TableFaults
<1>2. TreeInv'
  BY <1>1, WalkStops DEF PageInv
<1>3. PagesAskedFor'
  BY <1>1 DEF PageInv, PagesAskedFor
<1>4. /\ pool' \subseteq UNION Pools /\ pool' \cap DOMAIN tables = {}
      /\ grants' \in Seq([first : Nat, nr : Nat \ {0}])
  <2>1. CASE OutOfFrames
    BY <2>1 DEF OutOfFrames, PageInv
  <2>2. CASE TableFaults
    <3>1. PICK f \in pool : Granted(f)
      BY <2>2 DEF TableFaults
    <3> QED
      BY <3>1, FrameGranted
  <2> QED
    BY <2>1, <2>2
<1> QED
  BY <1>1, <1>2, <1>3, <1>4 DEF PageInv

LEMMA StepKeepsPageInv == PageInv /\ [PageNext]_pageVars => PageInv'
<1> SUFFICES ASSUME PageInv, [PageNext]_pageVars PROVE PageInv'
  OBVIOUS
<1>1. CASE PageNext
  BY <1>1, CreateKeepsPageInv, MmapKeepsPageInv, MapPageKeepsPageInv, DescendKeepsPageInv,
     AddTableKeepsPageInv, FailuresKeepPageInv DEF PageNext, PageStep
<1>2. CASE UNCHANGED pageVars
  <2>1. TreeInv'
    BY <1>2, WalkStops DEF PageInv, pageVars
  <2> QED
    BY <1>2, <2>1 DEF PageInv, PagesAskedFor, WalkTarget, pageVars
<1> QED
  BY <1>1, <1>2

LEMMA PageInvHolds == PageSpec => []PageInv
BY InitEstablishesPageInv, StepKeepsPageInv, PTL DEF PageSpec

------------------------------------------------------------------------------
(* Links above the page directories lead to as many tables as there are links. *)
LEMMA LinksLeadApart ==
  ASSUME TreeInv, NEW level \in [DOMAIN tables -> Levels], Tree(level),
         NEW S \in SUBSET DOMAIN tables, \A f \in S : level[f] # PGT_LEVEL_PD
  PROVE  Cardinality(Linked(S)) = Cardinality(Links(S))
<1> DEFINE L == Links(S)
           B == Linked(S)
           to == [l \in L |-> tables[l[1]][l[2]].base]
<1>1. IsFiniteSet(L)
  <2>1. IsFiniteSet(Index)
    BY Sizes, FS_Interval DEF Index
  <2>2. IsFiniteSet(S)
    BY FS_Subset DEF TreeInv
  <2>3. IsFiniteSet(S \X Index)
    BY <2>1, <2>2, FS_Product
  <2>4. L \in SUBSET (S \X Index)
    BY DEF Links
  <2> QED
    BY <2>3, <2>4, FS_Subset
<1>2. \A l \in L : /\ l[1] \in DOMAIN tables /\ l[2] \in Index /\ l = <<l[1], l[2]>>
                   /\ IsLink(level, l[1], l[2])
  BY DEF Links, IsLink
<1>3. to \in Surjection(L, B)
  BY DEF Surjection, Linked
<1>4. to \in Injection(L, B)
  <2>1. to \in [L -> B]
    BY <1>3 DEF Surjection
  <2>2. ASSUME NEW k \in L, NEW l \in L, to[k] = to[l]
        PROVE  k = l
    <3>1. tables[k[1]][k[2]].base = tables[l[1]][l[2]].base
      BY <2>2
    <3>2. k[1] = l[1] /\ k[2] = l[2]
      BY <1>2, <3>1 DEF Tree
    <3> QED
      BY <1>2, <3>2
  <2>3. DOMAIN to = L
    OBVIOUS
  <2> HIDE DEF to
  <2>4. IsInjective(to)
    BY <2>2, <2>3 DEF IsInjective
  <2> QED
    BY <2>1, <2>4 DEF Injection
<1> HIDE DEF to, L, B
<1>5. Cardinality(B) = Cardinality(L)
  BY <1>1, <1>3, <1>4, FS_Surjection
<1> QED
  BY <1>5 DEF B, L

(* The tables a set of tables leads to are those one level below it. *)
LEMMA LinkedByLevel ==
  ASSUME TreeInv, NEW level \in [DOMAIN tables -> Levels], Tree(level)
  PROVE  /\ PdpTables = {f \in DOMAIN tables : level[f] = PGT_LEVEL_PDP}
         /\ PdTables = {f \in DOMAIN tables : level[f] = PGT_LEVEL_PD}
<1> USE DEF PGT_LEVEL_PML4, PGT_LEVEL_PDP, PGT_LEVEL_PD
<1>1. \A f \in DOMAIN tables : level[f] \in {4, 3, 2} /\ (level[f] = 4 <=> f \in pml4s)
  BY DEF Tree, Levels
<1>2. ASSUME NEW S \in SUBSET DOMAIN tables, NEW b
      PROVE  b \in Linked(S) <=>
               \E f \in S, x \in Index : entry_is_present(tables[f][x]) /\ tables[f][x].base = b
  <2>1. ASSUME b \in Linked(S)
        PROVE  \E f \in S, x \in Index : entry_is_present(tables[f][x]) /\ tables[f][x].base = b
    <3>1. PICK l \in Links(S) : b = tables[l[1]][l[2]].base
      BY <2>1 DEF Linked
    <3>2. l[1] \in S /\ l[2] \in Index /\ entry_is_present(tables[l[1]][l[2]])
      BY DEF Links
    <3> QED
      BY <3>1, <3>2
  <2>2. ASSUME NEW f \in S, NEW x \in Index, entry_is_present(tables[f][x]),
               tables[f][x].base = b
        PROVE  b \in Linked(S)
    <3> DEFINE l == <<f, x>>
    <3>1. l \in Links(S)
      BY <2>2 DEF Links
    <3>2. b = tables[l[1]][l[2]].base
      BY <2>2
    <3> QED
      BY <3>1, <3>2 DEF Linked
  <2> QED
    BY <2>1, <2>2
<1>3. ASSUME NEW S \in SUBSET DOMAIN tables, NEW n \in {4, 3},
             \A f \in DOMAIN tables : f \in S <=> level[f] = n
      PROVE  \A b : b \in Linked(S) <=> b \in DOMAIN tables /\ level[b] = n - 1
  <2> SUFFICES ASSUME NEW b
               PROVE  b \in Linked(S) <=> b \in DOMAIN tables /\ level[b] = n - 1
    OBVIOUS
  <2>1. ASSUME b \in Linked(S)
        PROVE  b \in DOMAIN tables /\ level[b] = n - 1
    <3>1. PICK f \in S, x \in Index : entry_is_present(tables[f][x]) /\ tables[f][x].base = b
      BY <1>2, <2>1
    <3>2. f \in DOMAIN tables /\ level[f] = n /\ IsLink(level, f, x)
      BY <1>3, <3>1 DEF IsLink
    <3> QED
      BY <3>1, <3>2 DEF Tree
  <2>2. ASSUME b \in DOMAIN tables, level[b] = n - 1
        PROVE  b \in Linked(S)
    <3>1. b \in DOMAIN tables \ pml4s
      BY <1>1, <2>2
    <3>2. PICK f \in DOMAIN tables, x \in Index : IsLink(level, f, x) /\ tables[f][x].base = b
      BY <3>1 DEF Tree
    <3>3. level[b] = level[f] - 1
      BY <3>2 DEF Tree
    <3>4. f \in S
      BY <1>1, <1>3, <2>2, <3>3
    <3> QED
      BY <1>2, <3>2, <3>4 DEF IsLink
  <2> QED
    BY <2>1, <2>2
<1>4. \A b : b \in PdpTables <=> b \in DOMAIN tables /\ level[b] = 3
  <2>1. pml4s \in SUBSET DOMAIN tables
    BY DEF TreeInv
  <2> QED
    BY <1>1, <1>3, <2>1 DEF PdpTables
<1>5. \A b : b \in PdTables <=> b \in DOMAIN tables /\ level[b] = 2
  <2>1. PdpTables \in SUBSET DOMAIN tables
    BY <1>4
  <2> QED
    BY <1>3, <1>4, <2>1 DEF PdTables
<1> QED
  BY <1>4, <1>5

(* The tables of page.c are trees of depth three, and every frame that was granted
   is in one of them as long as nothing has failed. *)
THEOREM TreeShapeCorrect == PageSpec => []TreeShape
<1>1. PageInv => TreeShape
  <2> SUFFICES ASSUME PageInv PROVE TreeShape
    OBVIOUS
  <2>1. TreeInv
    BY DEF PageInv
  <2>2. PICK level \in [DOMAIN tables -> Levels] : Tree(level)
    BY <2>1 DEF TreeInv
  <2>3. /\ PdpTables = {f \in DOMAIN tables : level[f] = PGT_LEVEL_PDP}
        /\ PdTables = {f \in DOMAIN tables : level[f] = PGT_LEVEL_PD}
    BY <2>1, <2>2, LinkedByLevel
  <2>4. pml4s = {f \in DOMAIN tables : level[f] = PGT_LEVEL_PML4}
    BY <2>1, <2>2 DEF Tree, TreeInv
  <2>5. Cardinality(PdpTables) = Cardinality(Links(pml4s))
    <3>1. pml4s \in SUBSET DOMAIN tables /\ \A f \in pml4s : level[f] # PGT_LEVEL_PD
      BY <2>4 DEF PGT_LEVEL_PML4, PGT_LEVEL_PD
    <3> QED
      BY <2>1, <2>2, <3>1, LinksLeadApart DEF PdpTables
  <2>6. Cardinality(PdTables) = Cardinality(Links(PdpTables))
    <3>1. PdpTables \in SUBSET DOMAIN tables /\ \A f \in PdpTables : level[f] # PGT_LEVEL_PD
      BY <2>3 DEF PGT_LEVEL_PDP, PGT_LEVEL_PD
    <3> QED
      BY <2>1, <2>2, <3>1, LinksLeadApart DEF PdTables
  <2>7. /\ pml4s \cap PdpTables = {} /\ pml4s \cap PdTables = {} /\ PdpTables \cap PdTables = {}
        /\ DOMAIN tables = pml4s \cup PdpTables \cup PdTables
    BY <2>3, <2>4 DEF Levels, PGT_LEVEL_PML4, PGT_LEVEL_PDP, PGT_LEVEL_PD
  <2>8. \A f \in DOMAIN tables : \A x \in Index :
          "PAGE_SIZE" \in tables[f][x].flags => f \in PdTables
    BY <2>2, <2>3 DEF Tree
  <2> QED
    BY <2>5, <2>6, <2>7, <2>8 DEF TreeShape, PageInv
<1> QED
  BY <1>1, PageInvHolds, PTL

(* Every variable of PageTable keeps its type. *)
THEOREM PageTypeCorrect == PageSpec => []PageTypeOK
<1>1. PageInv => PageTypeOK
  <2> SUFFICES ASSUME PageInv PROVE PageTypeOK
    OBVIOUS
  <2>1. pool \subseteq Nat
    BY PageTableAssumption DEF PageInv
  <2> QED
    BY <2>1 DEF PageInv, TreeInv, PageTypeOK, Allocator!TypeOK, WalkType, Levels
<1> QED
  BY <1>1, PageInvHolds, PTL

(* An int below 2 GB keeps its value. *)
LEMMA ThroughIntSame ==
  ASSUME NEW x \in Nat, 2 * x < IntRange
  PROVE  ThroughInt(x) = x
<1>1. x % IntRange = x
  BY MachineWordsAssumption
<1> QED
  BY <1>1 DEF ThroughInt

(* vaddr_to_paddr answers with what the tables translate to, for every page that
   lies below 2 GB, whatever else is mapped. *)
THEOREM LookupAgreesCorrect == PageSpec => []LookupAgrees
<1>1. PageInv => LookupAgrees
  <2> SUFFICES ASSUME PageInv, NEW r \in pml4s, NEW v \in NamedAddresses,
                      \A t \in Translation(r, PageOf(v)) : FitsInt(t.frame * SuperPageSize)
               PROVE  LookupAnswers(r, v)
    BY DEF LookupAgrees
  <2> DEFINE n == PageOf(v)
             offset == v % SuperPageSize
  <2>1. SuperPageSize \in Nat \ {0}
    BY PageTableAssumption
  <2>2. v \in Nat
    <3>1. PICK m \in Mappings, x \in 0 .. SuperPageSize - 1 :
                 v = (m[1] \div SuperPageSize) * SuperPageSize + x
      BY DEF NamedAddresses
    <3>2. m[1] \in Nat
      BY PageTableAssumption
    <3>3. m[1] \div SuperPageSize \in Nat
      BY <2>1, <3>2
    <3> QED
      BY <2>1, <3>1, <3>3
  <2>3. offset \in Nat
    BY <2>1, <2>2
  <2>4. PdEntries(r, v) = IF HasPage(r, n) THEN {PageEntry(r, n)} ELSE {}
    BY <2>2, EntriesOnTheWay
  <2>5. n \in Pages
    BY <2>2, IndexOfAddress
  <2>6. Translation(r, n) = OnTheWay(r, n)
    BY <2>5, TranslationOnTheWay
  <2>7. \A t \in Translation(r, n) : FitsInt(t.frame * SuperPageSize)
    OBVIOUS
  <2> HIDE DEF n, offset
  <2>8. CASE ~ HasPage(r, n)
    BY <2>4, <2>6, <2>8 DEF OnTheWay, vaddr_to_paddr, LookupAnswers, n
  <2>9. CASE HasPage(r, n)
    <3> DEFINE e == PageEntry(r, n)
               a == e.base * SuperPageSize
    <3>1. PICK level \in [DOMAIN tables -> Levels] : Tree(level)
      BY DEF PageInv, TreeInv
    <3>2. n \in Nat
      BY <2>5 DEF Pages
    <3>3. /\ PdLink(r, n).base \in DOMAIN tables /\ level[PdLink(r, n).base] = PGT_LEVEL_PD
          /\ Slot(n, PGT_LEVEL_PD) \in Index
      BY <2>9, <3>1, <3>2, WayByLevel, SlotInRange DEF PageInv, HasPage, Levels
    <3>4. "PAGE_SIZE" \in e.flags
      BY <2>9, <3>1, <3>3 DEF Tree, HasPage, PageEntry
    <3>5. e.base \in Nat
      <4>1. tables \in [DOMAIN tables -> [Index -> Entry]]
        BY DEF PageInv, TreeInv
      <4>2. PageEntry(r, n) \in Entry
        BY <3>3, <4>1 DEF PageEntry
      <4> QED
        BY <4>2 DEF Entry
    <3>6. a \in Nat
      BY <2>1, <3>5
    <3>7. Translation(r, n) = {[frame |-> e.base, user |-> "US" \in e.flags]}
      BY <2>6, <2>9 DEF OnTheWay, Translated
    <3>8. 2 * a < IntRange
      BY <2>7, <3>7 DEF FitsInt
    <3> HIDE DEF e
    <3>9. ThroughInt(a) = a
      <4> HIDE DEF a
      <4> QED
        BY <3>6, <3>8, ThroughIntSame
    <3>10. vaddr_to_paddr(r, v) = {a + offset}
      BY <2>4, <2>9, <3>4, <3>9 DEF vaddr_to_paddr, e, offset
    <3>11. {t.frame * SuperPageSize + offset : t \in Translation(r, n)} = {a + offset}
      BY <3>7
    <3> QED
      BY <3>10, <3>11 DEF LookupAnswers, n, offset
  <2> QED
    BY <2>8, <2>9
<1> QED
  BY <1>1, PageInvHolds, PTL

------------------------------------------------------------------------------
(* The tables implement address spaces, step by step: pml4_table_create creates a
   space, MapPage maps a page, and no other step of page.c changes a translation. *)
THEOREM ImplementsAddressMapCorrect == PageSpec => ImplementsAddressMap
<1> DEFINE Space == [r \in pml4s |-> [n \in Pages |-> Translation(r, n)]]
<1>1. PageInit => AbstractMap!Init
  BY DEF PageInit, AbstractMap!Init
<1>2. PageInv /\ [PageNext]_pageVars => [AbstractMap!Next]_Space
  <2> SUFFICES ASSUME PageInv, [PageNext]_pageVars
               PROVE  AbstractMap!Next \/ UNCHANGED Space
    OBVIOUS
  <2>1. ASSUME UNCHANGED pml4s,
               \A r \in pml4s, n \in Pages : Translation(r, n)' = Translation(r, n)
        PROVE  UNCHANGED Space
    BY <2>1
  <2>2. UNCHANGED <<tables, pml4s>> => UNCHANGED Space
    BY <2>1, SameTables
  <2>3. CASE pml4_table_create
    <3>1. PICK f \in UNION Pools :
            /\ f \notin pml4s /\ pml4s' = pml4s \cup {f}
            /\ \A n \in Pages : Translation(f, n)' = {}
            /\ \A r \in pml4s, n \in Pages : Translation(r, n)' = Translation(r, n)
      BY <2>3, CreateKeepsPageInv
    <3>2. AbstractMap!Create(f)
      BY <3>1 DEF AbstractMap!Create
    <3> QED
      BY <3>2 DEF AbstractMap!Next
  <2>4. CASE MapPage
    <3>1. PICK r0 \in pml4s, t \in MapTargets : \A r \in pml4s, n \in Pages :
            Translation(r, n)' = IF r = r0 /\ n = WalkPage THEN {t} ELSE Translation(r, n)
      BY <2>4, MapPageKeepsPageInv
    <3>2. pml4s' = pml4s
      BY <2>4 DEF MapPage
    <3>3. WalkPage \in Pages
      BY WalkTyped DEF PageInv, TreeInv
    <3>4. AbstractMap!Map(r0, WalkPage, t)
      <4> DEFINE n0 == WalkPage
      <4>1. n0 \in Pages
        BY <3>3
      <4> HIDE DEF n0
      <4>2. Space' = [Space EXCEPT ![r0][n0] = {t}]
        BY <3>1, <3>2, <4>1 DEF n0
      <4> QED
        BY <4>2 DEF AbstractMap!Map, n0
    <3>5. DOMAIN Space = pml4s
      OBVIOUS
    <3> QED
      BY <3>3, <3>4 DEF AbstractMap!Next
  <2>5. CASE AddTable
    BY <2>1, <2>5, AddTableKeepsPageInv DEF AddTable
  <2>6. CASE ~ (pml4_table_create \/ MapPage \/ AddTable)
    <3>1. UNCHANGED <<tables, pml4s>>
      BY <2>6 DEF PageNext, PageStep, mmap, Descend, OutOfFrames, TableFaults, pageVars
    <3> QED
      BY <2>2, <3>1
  <2> QED
    BY <2>3, <2>4, <2>5, <2>6
<1> QED
  BY <1>1, <1>2, PageInvHolds, PTL DEF PageSpec, ImplementsAddressMap, AbstractMap!Spec

-----------------------------------------------------------------------------
(* The machine of vm.c.                                                       *)

(* The guest's first page table lies in its memory, and the heap below the end
   of physical memory: 4 Mbytes of guest memory are more than 2 and 24 Kbytes. *)
MachineIsLargeEnough ==
  /\ SuperPageSize + 6 <= PmemSize
  /\ HeapEnd <= TopFrame + 1

PhysicalFrames == 0 .. TopFrame

VmRecord ==
  [hsa : PhysicalFrames, vmcb : PhysicalFrames, iopm : PhysicalFrames, msrpm : PhysicalFrames,
   pmem : PhysicalFrames, h_cr3 : PhysicalFrames, cr3 : PhysicalFrames, rip : Nat]

(* Functions that run before the guest's memory, and before the first table. *)
BeforeMemory ==
  {"alloc_host_save_area", "alloc_vmcb", "set_iopm", "set_msrpm",
   "set_state_save_area", "alloc_vm_pmem"}
BeforeTables == BeforeMemory \cup {"pml4_table_create"}

(* What has been computed when a function runs, and what has not. *)
ProgressInv ==
  /\ handover \in Handovers
  /\ vm \in VmRecord
  /\ i \in Nat
  /\ DOMAIN mem = 0 .. TopFrame
  /\ pc = "alloc_host_save_area" => vm.hsa = 0
  /\ pc \in {"alloc_host_save_area", "alloc_vmcb"} => vm.vmcb = 0
  /\ pc \in {"alloc_host_save_area", "alloc_vmcb", "set_iopm"} => vm.iopm = 0
  /\ pc \in {"alloc_host_save_area", "alloc_vmcb", "set_iopm", "set_msrpm"} => vm.msrpm = 0
  /\ pc \in {"set_msrpm", "set_state_save_area"} => vm.iopm # 0
  /\ pc = "set_state_save_area" => vm.msrpm # 0
  /\ pc \in BeforeMemory => vm.pmem = 0
  /\ pc \in BeforeTables => DOMAIN tables = {} /\ pml4s = {} /\ mode = "idle"
  /\ pc \notin BeforeMemory \cup {"dead"} =>
       vm.pmem # 0 /\ vm.pmem % SuperPageSize = 0 /\ vm.cr3 = SuperPageSize + 3
  /\ pc = "alloc_vm_pmem" => vm.cr3 = SuperPageSize + 3
  /\ pc \notin BeforeTables \cup {"dead"} => pml4s # {}
  /\ Built => vm.h_cr3 \in pml4s
  /\ pc \in {"load_elf_image", "create_temp_page_table"} => vm.h_cr3 \in pml4s
  /\ pc = "load_elf_image" => i >= 1

(* Each frame is the pool's, the stash's, or one owner's. *)
OwnedInv ==
  pc # "dead" =>
    /\ grants \in Seq([first : Nat, nr : Nat])
    /\ pool \cup GrantedFrames \subseteq HeapEnd .. TopFrame
    /\ (pool \cup GrantedFrames) \cap Stash(handover) = {}
    /\ pool \cap GrantedFrames = {}
    /\ EveryFrameOwnedOnce

(* What the guest may be given: the machine's first 2 Mbytes and its memory. *)
GuestMemory == FramesOf(vm.pmem, PmemSize)
FitsGuest(b) ==
  b \in Nat /\ FramesOf(b * SuperPageSize, SuperPageSize) \subseteq
                 (0 .. SuperPageSize - 1) \cup GuestMemory

(* What the trees translate to, and what is being mapped, is the guest's. *)
TablesInv ==
  /\ TreeInv
  /\ \A r \in pml4s, n \in Pages : \A t \in Translation(r, n) : FitsGuest(t.frame)
  /\ mode = "mmap" => FitsGuest(walk.paddr \div SuperPageSize)

VmInv == ProgressInv /\ OwnedInv /\ TablesInv /\ VmmIntact

(* What the nested tables are to translate page n to, and the tables of a loop
   that has mapped the first k pages. *)
Promised(n) ==
  [frame |-> IF n = 0 THEN 0 ELSE PFN_DOWN_2MB(vm.pmem) + n, user |-> TRUE]
FirstPagesMapped(k) ==
  \A r \in pml4s, n \in Pages : Translation(r, n) = IF n < k THEN {Promised(n)} ELSE {}

(* The loop has one tree of tables, and maps one page after the other. *)
MappedInv ==
  /\ pc = "create_vm_pmem_mapping_table" =>
       /\ \E r \in pml4s : pml4s = {r}
       /\ i <= PFN_UP_2MB(PmemSize)
       /\ mode # "mmap" => FirstPagesMapped(i)
       /\ mode = "mmap" =>
            /\ i >= 1 /\ WalkPage = i - 1 /\ walk.is_user
            /\ walk.paddr \div SuperPageSize = Promised(i - 1).frame
            /\ FirstPagesMapped(i - 1)
  /\ pc \in {"load_elf_image", "create_temp_page_table"} \/ Built =>
       FirstPagesMapped(PFN_UP_2MB(PmemSize))

(* The program headers among ks have been loaded, except for some frames. *)
Loaded(ks, except) ==
  \A k \in DOMAIN Phdrs \cap ks : is_loadable_phdr(Phdrs[k]) =>
    \A g \in Target(Phdrs[k]) \ except : mem[vm.pmem + g] = Prescribed(Phdrs[k], g)

(* The loader goes through the headers in turn; then the guest's first page table
   is written over whatever it loaded there. *)
LoadedInv ==
  /\ pc = "load_elf_image" => Loaded(1 .. i - 1, {})
  /\ pc = "create_temp_page_table" => Loaded(DOMAIN Phdrs, {})
  /\ pc = "vm_boot" =>
       /\ Loaded(DOMAIN Phdrs, TempTableFrames)
       /\ \A j \in 0 .. 2 : mem[TempTableBase + j] = <<"entries", TempTables(vm.cr3)[j + 1]>>

------------------------------------------------------------------------------
OwnerNames == {"hsa", "vmcb", "iopm", "msrpm", "pmem", "tables"}

(* alloc_pages moves a run from the pool to the granted frames. *)
LEMMA RunGranted ==
  ASSUME OwnedInv, pc # "dead", NEW f \in pool, NEW nr \in Nat, NEW align \in Nat,
         Allocator!GrantRun(f, nr, align)
  PROVE  /\ FramesOf(f, nr) \subseteq pool
         /\ f % align = 0
         /\ pool' = pool \ FramesOf(f, nr)
         /\ grants' \in Seq([first : Nat, nr : Nat])
         /\ GrantedFrames' = GrantedFrames \cup FramesOf(f, nr)
<1>1. /\ FramesOf(f, nr) \subseteq pool
      /\ f % align = 0
      /\ pool' = pool \ FramesOf(f, nr)
      /\ grants' = Append(grants, [first |-> f, nr |-> nr])
  BY DEF Allocator!GrantRun, Allocator!Fits, FramesOf
<1>2. grants \in Seq([first : Nat, nr : Nat]) /\ f \in Nat
  BY VmCreateAssumption DEF OwnedInv
<1>3. grants' \in Seq([first : Nat, nr : Nat])
  BY <1>1, <1>2
<1> DEFINE n == Len(grants)
<1>4. /\ n \in Nat /\ DOMAIN grants = 1 .. n /\ DOMAIN grants' = 1 .. n + 1
      /\ \A a \in 1 .. n : grants'[a] = grants[a]
      /\ grants'[n + 1] = [first |-> f, nr |-> nr]
  BY <1>1, <1>2
<1>5. GrantedFrames' = GrantedFrames \cup FramesOf(f, nr)
  <2>1. GrantedFrames' = UNION {FramesOf(grants'[a].first, grants'[a].nr) : a \in 1 .. n + 1}
    BY <1>4 DEF GrantedFrames, FramesOf
  <2>2. GrantedFrames = UNION {FramesOf(grants[a].first, grants[a].nr) : a \in 1 .. n}
    BY <1>4 DEF GrantedFrames
  <2> QED
    BY <2>1, <2>2, <1>4
<1> QED
  BY <1>1, <1>3, <1>5

(* A granted run that goes to one owner leaves every frame with one owner. *)
LEMMA OwnerGrows ==
  ASSUME OwnedInv, pc # "dead", NEW R \in SUBSET pool, NEW o \in OwnerNames,
         pool' = pool \ R, GrantedFrames' = GrantedFrames \cup R,
         grants' \in Seq([first : Nat, nr : Nat]), handover' = handover,
         \A x \in OwnerNames : Owners'[x] = IF x = o THEN Owners[x] \cup R ELSE Owners[x]
  PROVE  OwnedInv'
<1>1. DOMAIN Owners = OwnerNames /\ DOMAIN Owners' = OwnerNames
  BY DEF Owners, OwnerNames
<1>2. Stash(handover)' = Stash(handover)
  BY DEF Stash, FramesOf
<1>3. /\ pool \cup GrantedFrames \subseteq HeapEnd .. TopFrame
      /\ (pool \cup GrantedFrames) \cap Stash(handover) = {}
      /\ pool \cap GrantedFrames = {}
      /\ GrantedFrames = UNION {Owners[x] : x \in OwnerNames}
      /\ \A x, y \in OwnerNames : x # y => Owners[x] \cap Owners[y] = {}
  BY <1>1 DEF OwnedInv, EveryFrameOwnedOnce
<1>4. \A x \in OwnerNames : Owners[x] \cap R = {}
  BY <1>3
<1>5. GrantedFrames' = UNION {Owners'[x] : x \in OwnerNames}
  <2> DEFINE P == Owners' O == Owners
  <2>1. \A x \in OwnerNames : P[x] = IF x = o THEN O[x] \cup R ELSE O[x]
    OBVIOUS
  <2>2. GrantedFrames' = (UNION {O[x] : x \in OwnerNames}) \cup R
    BY <1>3
  <2>3. \A x \in OwnerNames : O[x] \subseteq P[x] /\ P[x] \subseteq O[x] \cup R
    BY <2>1
  <2>4. R \subseteq P[o]
    BY <2>1
  <2> HIDE DEF P, O
  <2>5. UNION {P[x] : x \in OwnerNames} = (UNION {O[x] : x \in OwnerNames}) \cup R
    BY <2>3, <2>4
  <2> QED
    BY <2>2, <2>5 DEF P
<1>6. \A x, y \in OwnerNames : x # y => Owners'[x] \cap Owners'[y] = {}
  BY <1>3, <1>4
<1>7. EveryFrameOwnedOnce'
  BY <1>1, <1>5, <1>6 DEF EveryFrameOwnedOnce
<1> QED
  BY <1>2, <1>3, <1>7 DEF OwnedInv

(* A step that grants nothing and renames nothing leaves the owners alone. *)
LEMMA OwnersStay ==
  ASSUME OwnedInv, pc # "dead", UNCHANGED <<pool, grants, tables, handover>>,
         \A x \in {"hsa", "vmcb", "iopm", "msrpm", "pmem"} : vm'[x] = vm[x]
  PROVE  OwnedInv' /\ Owners' = Owners
<1>1. Owners' = Owners
  BY DEF Owners, FramesOf
<1>2. GrantedFrames' = GrantedFrames
  BY DEF GrantedFrames, FramesOf
<1>3. Stash(handover)' = Stash(handover)
  BY DEF Stash, FramesOf
<1> QED
  BY <1>1, <1>2, <1>3 DEF OwnedInv, EveryFrameOwnedOnce

(* Program and bitmap lie below the heap's end. *)
LEMMA VmmFramesKnown ==
  ASSUME handover \in Handovers
  PROVE  \A f \in DOMAIN handover.vmm : f \in SuperPageSize .. HeapEnd - 1
BY VmCreateAssumption

(* Writes that stay off the frames of the VMM keep what it has written. *)
LEMMA VmmUntouched ==
  ASSUME OwnedInv, pc # "dead", VmmIntact, handover \in Handovers, handover' = handover,
         Owners' = Owners,
         \A f \in VmmFrames : mem'[f] = mem[f]
  PROVE  VmmIntact'
<1>1. Owners' = Owners
  OBVIOUS
<1>2. Stash(handover)' = Stash(handover)
  BY DEF Stash, FramesOf
<1>3. \A x \in OwnerNames \ {"pmem"} : Owners[x] \subseteq VmmFrames
  <2>1. DOMAIN Owners = OwnerNames
    BY DEF Owners, OwnerNames
  <2>2. \A x \in OwnerNames : Owners[x] \subseteq GrantedFrames
    BY <2>1 DEF OwnedInv, EveryFrameOwnedOnce
  <2>3. \A x \in OwnerNames \ {"pmem"} : Owners[x] \cap Owners["pmem"] = {}
    BY <2>1 DEF OwnedInv, EveryFrameOwnedOnce, OwnerNames
  <2> QED
    BY <2>2, <2>3 DEF VmmFrames
<1>4. /\ Owners.hsa \subseteq VmmFrames /\ Owners.vmcb \subseteq VmmFrames
      /\ Owners.iopm \subseteq VmmFrames /\ Owners.msrpm \subseteq VmmFrames
      /\ Owners.tables \subseteq VmmFrames
  BY <1>3 DEF OwnerNames
<1>5. DOMAIN handover.vmm \subseteq VmmFrames /\ Stash(handover) \subseteq VmmFrames
  BY VmmFramesKnown DEF VmmFrames
<1>6. handover'.stash = handover.stash /\ handover'.vmm = handover.vmm
  OBVIOUS
<1> QED
  BY <1>1, <1>2, <1>4, <1>5, <1>6 DEF VmmIntact

(* Frame 0 is never the pool's: the heap lies above the first 2 Mbytes. *)
LEMMA PoolAboveHeap ==
  ASSUME OwnedInv, pc # "dead"
  PROVE  \A f \in pool \cup GrantedFrames : f \in Nat /\ f # 0 /\ f >= HeapEnd /\ f <= TopFrame
<1>1. HeapEnd \in Nat /\ HeapEnd >= SuperPageSize /\ SuperPageSize \in Nat \ {0} /\ TopFrame \in Nat
  BY VmCreateAssumption, PageTableAssumption
<1> QED
  BY <1>1 DEF OwnedInv

(* Physical memory holds every frame of the VMM. *)
LEMMA VmmInMemory ==
  ASSUME MachineIsLargeEnough, OwnedInv, pc # "dead", handover \in Handovers
  PROVE  /\ GrantedFrames \subseteq 0 .. TopFrame
         /\ SuperPageSize .. HeapEnd - 1 \subseteq 0 .. TopFrame
         /\ Stash(handover) \subseteq 0 .. TopFrame
         /\ \A f \in SuperPageSize .. HeapEnd - 1 : f \notin pool \cup GrantedFrames
         /\ VmmFrames \subseteq 0 .. TopFrame
<1>1. /\ HeapEnd \in Nat /\ SuperPageSize \in Nat /\ TopFrame \in Nat
      /\ Stash(handover) \subseteq HeapEnd .. TopFrame
  BY VmCreateAssumption, PageTableAssumption
<1>2. GrantedFrames \subseteq 0 .. TopFrame /\ Stash(handover) \subseteq 0 .. TopFrame
  BY <1>1, PoolAboveHeap
<1>3. SuperPageSize .. HeapEnd - 1 \subseteq 0 .. TopFrame
  BY <1>1 DEF MachineIsLargeEnough
<1>4. \A f \in SuperPageSize .. HeapEnd - 1 : f \notin pool \cup GrantedFrames
  BY <1>1, PoolAboveHeap
<1> QED
  BY <1>2, <1>3, <1>4 DEF VmmFrames

LEMMA OwnersAre ==
  /\ DOMAIN Owners = OwnerNames
  /\ Owners["hsa"] = {f \in {vm.hsa} : f # 0}
  /\ Owners["vmcb"] = {f \in {vm.vmcb} : f # 0}
  /\ Owners["iopm"] = IF vm.iopm = 0 THEN {} ELSE FramesOf(vm.iopm, 3)
  /\ Owners["msrpm"] = IF vm.msrpm = 0 THEN {} ELSE FramesOf(vm.msrpm, 2)
  /\ Owners["pmem"] = IF vm.pmem = 0 THEN {} ELSE FramesOf(vm.pmem, PmemSize)
  /\ Owners["tables"] = DOMAIN tables
BY DEF Owners, OwnerNames

LEMMA NewOwnersAre ==
  /\ Owners'["hsa"] = {f \in {vm'.hsa} : f # 0}
  /\ Owners'["vmcb"] = {f \in {vm'.vmcb} : f # 0}
  /\ Owners'["iopm"] = IF vm'.iopm = 0 THEN {} ELSE FramesOf(vm'.iopm, 3)
  /\ Owners'["msrpm"] = IF vm'.msrpm = 0 THEN {} ELSE FramesOf(vm'.msrpm, 2)
  /\ Owners'["pmem"] = IF vm'.pmem = 0 THEN {} ELSE FramesOf(vm'.pmem, PmemSize)
  /\ Owners'["tables"] = DOMAIN tables'
BY DEF Owners, OwnerNames, FramesOf

(* What the frames of each owner hold; the guest's memory is the guest's. *)
Content ==
  [hsa |-> <<"hsa">>, vmcb |-> <<"vmcb">>, iopm |-> <<"intercepts">>, msrpm |-> <<"intercepts">>]
SizeOf == [hsa |-> 1, vmcb |-> 1, iopm |-> 3, msrpm |-> 2, pmem |-> PmemSize]

(* A caller of alloc_pages outside page.c keeps its run in an empty field and
   fills it. *)
LEMMA FieldAllocated ==
  ASSUME MachineIsLargeEnough, OwnedInv, pc # "dead", VmmIntact, handover \in Handovers,
         vm \in VmRecord, DOMAIN mem = 0 .. TopFrame,
         NEW o \in {"hsa", "vmcb", "iopm", "msrpm", "pmem"}, vm[o] = 0,
         NEW f \in pool, NEW align \in Nat, Allocator!GrantRun(f, SizeOf[o], align),
         vm' = [vm EXCEPT ![o] = f], UNCHANGED <<tables, handover>>,
         mem' = IF o = "pmem" THEN mem ELSE Filled(f, SizeOf[o], Content[o])
  PROVE  OwnedInv' /\ VmmIntact'
<1> DEFINE R == FramesOf(f, SizeOf[o])
<1>0. SizeOf[o] \in Nat
  BY VmCreateAssumption DEF SizeOf
<1>1. /\ R \subseteq pool /\ pool' = pool \ R /\ GrantedFrames' = GrantedFrames \cup R
      /\ grants' \in Seq([first : Nat, nr : Nat])
  BY <1>0, RunGranted
<1>2. f \in Nat /\ f # 0
  BY PoolAboveHeap
<1>3. \A x \in {"hsa", "vmcb", "iopm", "msrpm", "pmem"} : vm'[x] = IF x = o THEN f ELSE vm[x]
  BY DEF VmRecord, PhysicalFrames
<1>4. \A x \in OwnerNames : Owners'[x] = IF x = o THEN Owners[x] \cup R ELSE Owners[x]
  <2> DEFINE Fields == {"hsa", "vmcb", "iopm", "msrpm", "pmem"}
             Given(x, v) == IF v = 0 THEN {} ELSE FramesOf(v, SizeOf[x])
  <2>0. /\ SizeOf["hsa"] = 1 /\ SizeOf["vmcb"] = 1 /\ SizeOf["iopm"] = 3
        /\ SizeOf["msrpm"] = 2 /\ SizeOf["pmem"] = PmemSize
        /\ \A v \in Nat : FramesOf(v, 1) = {v}
    BY DEF SizeOf, FramesOf
  <2>1. \A x \in Fields : Owners[x] = Given(x, vm[x])
    <3>1. \A x \in Fields : vm[x] \in Nat
      BY DEF VmRecord, PhysicalFrames
    <3>2. /\ Owners["hsa"] = Given("hsa", vm["hsa"]) /\ Owners["vmcb"] = Given("vmcb", vm["vmcb"])
      BY <2>0, <3>1, OwnersAre
    <3>3. /\ Owners["iopm"] = Given("iopm", vm["iopm"]) /\ Owners["msrpm"] = Given("msrpm", vm["msrpm"])
          /\ Owners["pmem"] = Given("pmem", vm["pmem"])
      BY <2>0, OwnersAre
    <3> HIDE DEF Given
    <3> QED
      BY <3>2, <3>3
  <2>2. \A x \in Fields : vm'[x] \in Nat
    BY <1>2, <1>3 DEF VmRecord, PhysicalFrames
  <2>3. \A x \in Fields : Owners'[x] = Given(x, vm'[x])
    <3>1. \A v \in Nat : {g \in {v} : g # 0} = IF v = 0 THEN {} ELSE {v}
      OBVIOUS
    <3>2. /\ Owners'["hsa"] = Given("hsa", vm'["hsa"]) /\ Owners'["vmcb"] = Given("vmcb", vm'["vmcb"])
      <4>1. vm'.hsa \in Nat /\ vm'.vmcb \in Nat
        BY <2>2
      <4>2. Owners'["hsa"] = Given("hsa", vm'["hsa"])
        BY <2>0, <3>1, <4>1, NewOwnersAre
      <4>3. Owners'["vmcb"] = Given("vmcb", vm'["vmcb"])
        BY <2>0, <3>1, <4>1, NewOwnersAre
      <4> QED
        BY <4>2, <4>3
    <3>3. /\ Owners'["iopm"] = Given("iopm", vm'["iopm"]) /\ Owners'["msrpm"] = Given("msrpm", vm'["msrpm"])
          /\ Owners'["pmem"] = Given("pmem", vm'["pmem"])
      BY <2>0, NewOwnersAre
    <3> HIDE DEF Given
    <3> QED
      BY <3>2, <3>3
  <2>4. Given(o, 0) = {} /\ Given(o, f) = R
    BY <1>2
  <2>5. Owners'["tables"] = Owners["tables"]
    BY OwnersAre, NewOwnersAre
  <2> HIDE DEF Given, R
  <2>6. \A x \in Fields : Owners'[x] = IF x = o THEN Owners[x] \cup R ELSE Owners[x]
    <3> SUFFICES ASSUME NEW x \in Fields
                 PROVE  Owners'[x] = IF x = o THEN Owners[x] \cup R ELSE Owners[x]
      OBVIOUS
    <3>1. Owners[x] = Given(x, vm[x]) /\ Owners'[x] = Given(x, vm'[x])
      BY <2>1, <2>3
    <3>2. CASE x = o
      <4>1. vm'[x] = f /\ vm[x] = 0
        BY <3>2, <1>3
      <4> QED
        BY <3>1, <3>2, <4>1, <2>4
    <3>3. CASE x # o
      <4>1. vm'[x] = vm[x]
        BY <3>3, <1>3
      <4> QED
        BY <3>1, <3>3, <4>1
    <3> QED
      BY <3>2, <3>3
  <2> QED
    BY <2>5, <2>6 DEF OwnerNames
<1>5. OwnedInv'
  BY <1>1, <1>4, OwnerGrows DEF OwnerNames
<1>6. \A g \in GrantedFrames \cup (SuperPageSize .. HeapEnd - 1) \cup Stash(handover) :
        mem'[g] = mem[g]
  <2>1. \A g \in GrantedFrames \cup (SuperPageSize .. HeapEnd - 1) \cup Stash(handover) :
          g \in DOMAIN mem /\ g \notin R
    BY <1>1, VmmInMemory DEF OwnedInv
  <2> QED
    BY <2>1 DEF Filled
<1>7. \A g \in R : o # "pmem" => mem'[g] = Content[o]
  <2>1. R \subseteq DOMAIN mem
    BY <1>1, PoolAboveHeap, VmCreateAssumption
  <2> QED
    BY <2>1 DEF Filled
<1>8. \A x \in OwnerNames : Owners[x] \subseteq GrantedFrames
  BY OwnersAre DEF OwnedInv, EveryFrameOwnedOnce
<1>9. \A x \in OwnerNames \ {"pmem", "tables"} :
        (\A g \in Owners[x] : mem[g] = Content[x]) => \A g \in Owners'[x] : mem'[g] = Content[x]
  <2> SUFFICES ASSUME NEW x \in OwnerNames \ {"pmem", "tables"},
                      \A g \in Owners[x] : mem[g] = Content[x], NEW g \in Owners'[x]
               PROVE  mem'[g] = Content[x]
    OBVIOUS
  <2>1. CASE g \in Owners[x]
    BY <1>6, <1>8, <2>1
  <2>2. CASE g \notin Owners[x]
    <3>1. x = o /\ g \in R
      BY <1>4, <2>2
    <3> HIDE DEF R
    <3> QED
      BY <1>7, <3>1
  <2> QED
    BY <2>1, <2>2
<1>10. VmmIntact'
  <2>1. /\ \A x \in OwnerNames \ {"pmem", "tables"} : \A g \in Owners[x] : mem[g] = Content[x]
        /\ \A g \in Owners["tables"] : mem[g] = <<"table">>
    BY DEF VmmIntact, Content, OwnerNames
  <2>2. /\ \A x \in OwnerNames \ {"pmem", "tables"} : \A g \in Owners'[x] : mem'[g] = Content[x]
        /\ \A g \in Owners'["tables"] : mem'[g] = <<"table">>
    BY <2>1, <1>4, <1>6, <1>8, <1>9 DEF OwnerNames
  <2>3. /\ \A g \in DOMAIN handover.vmm : mem'[g] = handover.vmm[g]
        /\ \A g \in Stash(handover) : mem'[g] = <<"file", g - handover.stash>>
    BY <1>6, VmmFramesKnown DEF VmmIntact
  <2>4. /\ Stash(handover)' = Stash(handover) /\ handover'.stash = handover.stash
        /\ handover'.vmm = handover.vmm
    BY DEF Stash, FramesOf
  <2> HIDE DEF R
  <2> QED
    BY <2>2, <2>3, <2>4 DEF VmmIntact, Content, OwnerNames
<1> QED
  BY <1>5, <1>10

(* page.c gets a frame for a table: it is no table yet, and is the tables' now. *)
LEMMA TableAllocated ==
  ASSUME MachineIsLargeEnough, OwnedInv, pc # "dead", VmmIntact, handover \in Handovers,
         DOMAIN mem = 0 .. TopFrame, NEW f \in pool, Allocator!GrantRun(f, 1, 1),
         DOMAIN tables' = DOMAIN tables \cup {f}, UNCHANGED <<vm, handover>>, TablesInMem
  PROVE  f \notin DOMAIN tables /\ f \in Nat /\ OwnedInv' /\ VmmIntact'
<1> DEFINE R == {f}
<1>1. f \in Nat
  BY PoolAboveHeap
<1>2. FramesOf(f, 1) = R
  BY <1>1 DEF FramesOf
<1>3. /\ pool' = pool \ R /\ GrantedFrames' = GrantedFrames \cup R
      /\ grants' \in Seq([first : Nat, nr : Nat])
  BY <1>2, RunGranted
<1>4. \A x \in OwnerNames : Owners'[x] = IF x = "tables" THEN Owners[x] \cup R ELSE Owners[x]
  BY OwnersAre, NewOwnersAre DEF OwnerNames
<1>5. \A x \in OwnerNames : Owners[x] \subseteq GrantedFrames
  BY OwnersAre DEF OwnedInv, EveryFrameOwnedOnce
<1>6. f \notin DOMAIN tables
  BY <1>5, OwnersAre DEF OwnedInv, OwnerNames
<1>7. OwnedInv'
  BY <1>3, <1>4, OwnerGrows DEF OwnerNames
<1>8. /\ \A g \in GrantedFrames \cup (SuperPageSize .. HeapEnd - 1) \cup Stash(handover) :
           mem'[g] = mem[g]
      /\ mem'[f] = <<"table">>
  <2>1. \A g \in GrantedFrames \cup (SuperPageSize .. HeapEnd - 1) \cup Stash(handover) :
          g \in DOMAIN mem /\ g # f
    BY VmmInMemory DEF OwnedInv
  <2>2. f \in DOMAIN mem
    BY PoolAboveHeap, VmCreateAssumption
  <2>3. DOMAIN tables' \ DOMAIN tables = {f}
    BY <1>6
  <2> QED
    BY <2>1, <2>2, <2>3 DEF TablesInMem
<1>9. VmmIntact'
  <2>2. /\ \A g \in Owners["hsa"] : mem'[g] = <<"hsa">>
        /\ \A g \in Owners["vmcb"] : mem'[g] = <<"vmcb">>
        /\ \A g \in Owners["iopm"] \cup Owners["msrpm"] : mem'[g] = <<"intercepts">>
        /\ \A g \in Owners["tables"] \cup {f} : mem'[g] = <<"table">>
    BY <1>5, <1>8 DEF VmmIntact, OwnerNames
  <2>3. /\ \A g \in DOMAIN handover.vmm : mem'[g] = handover.vmm[g]
        /\ \A g \in Stash(handover) : mem'[g] = <<"file", g - handover.stash>>
    BY <1>8, VmmFramesKnown DEF VmmIntact
  <2>4. /\ Stash(handover)' = Stash(handover) /\ handover'.stash = handover.stash
        /\ handover'.vmm = handover.vmm
    BY DEF Stash, FramesOf
  <2>5. /\ Owners'["hsa"] = Owners["hsa"] /\ Owners'["vmcb"] = Owners["vmcb"]
        /\ Owners'["iopm"] = Owners["iopm"] /\ Owners'["msrpm"] = Owners["msrpm"]
        /\ Owners'["tables"] = Owners["tables"] \cup {f}
    BY <1>4 DEF OwnerNames
  <2> QED
    BY <2>2, <2>3, <2>4, <2>5 DEF VmmIntact
<1> QED
  BY <1>1, <1>6, <1>7, <1>9

------------------------------------------------------------------------------
(* The same translations, and the same memory of the guest. *)
LEMMA GuestsStay ==
  ASSUME TablesInv, TreeInv', UNCHANGED <<pml4s, vm>>,
         \A r \in pml4s, n \in Pages : Translation(r, n)' = Translation(r, n),
         mode' = "mmap" => FitsGuest(walk'.paddr \div SuperPageSize)
  PROVE  TablesInv'
<1>1. \A b : FitsGuest(b)' <=> FitsGuest(b)
  BY DEF FitsGuest, GuestMemory, FramesOf
<1>2. ASSUME NEW r \in pml4s', NEW n \in Pages, NEW t \in Translation(r, n)'
      PROVE  FitsGuest(t.frame)'
  BY <1>1, <1>2 DEF TablesInv
<1>3. mode' = "mmap" => FitsGuest(walk.paddr \div SuperPageSize)'
  BY <1>1
<1> QED
  BY <1>2, <1>3 DEF TablesInv

(* The tables translate as before while nobody touches them. *)
LEMMA TablesStay ==
  ASSUME TablesInv, UNCHANGED <<tables, pml4s, walk>>, UNCHANGED mode \/ mode' = "dead",
         vm'.pmem = vm.pmem \/ (pml4s = {} /\ mode = "idle")
  PROVE  TablesInv'
<1>1. TreeInv'
  BY WalkStops DEF TablesInv
<1>2. \A r : \A n \in Pages : Translation(r, n)' = Translation(r, n)
  BY SameTables
<1>3. CASE vm'.pmem = vm.pmem
  <2>1. \A b : FitsGuest(b)' <=> FitsGuest(b)
    BY <1>3 DEF FitsGuest, GuestMemory, FramesOf
  <2>2. ASSUME NEW r \in pml4s', NEW n \in Pages, NEW t \in Translation(r, n)'
        PROVE  FitsGuest(t.frame)'
    BY <1>2, <2>1, <2>2 DEF TablesInv
  <2>3. mode' = "mmap" => FitsGuest(walk.paddr \div SuperPageSize)'
    BY <2>1 DEF TablesInv
  <2> QED
    BY <1>1, <2>2, <2>3 DEF TablesInv
<1>4. CASE pml4s = {} /\ mode = "idle"
  <2>1. pml4s' = {} /\ mode' # "mmap"
    BY <1>4
  <2> QED
    BY <1>1, <2>1 DEF TablesInv
<1> QED
  BY <1>3, <1>4

(* A new top table translates nothing. *)
LEMMA RootKeepsTables ==
  ASSUME TablesInv, mode = "idle", NEW f \in Nat, f \notin DOMAIN tables,
         tables' = Cleared(f), pml4s' = pml4s \cup {f}, UNCHANGED <<mode, walk, vm>>
  PROVE  TablesInv'
<1>1. /\ TreeInv' /\ \A n \in Pages : Translation(f, n)' = {}
      /\ \A r \in pml4s, n \in Pages : Translation(r, n)' = Translation(r, n)
  BY RootAdded DEF TablesInv
<1>2. \A b : FitsGuest(b)' <=> FitsGuest(b)
  BY DEF FitsGuest, GuestMemory, FramesOf
<1>3. ASSUME NEW r \in pml4s', NEW n \in Pages, NEW t \in Translation(r, n)'
      PROVE  FitsGuest(t.frame)'
  BY <1>1, <1>2, <1>3 DEF TablesInv
<1> QED
  BY <1>1, <1>3 DEF TablesInv

(* __mmap adds a table below the one it is at, or goes down to one: the same
   translations, the same page to map. *)
LEMMA WalkKeepsTables ==
  ASSUME TablesInv, TreeInv', UNCHANGED <<pml4s, vm>>, mode = "mmap",
         walk'.paddr = walk.paddr,
         \A r \in pml4s, n \in Pages : Translation(r, n)' = Translation(r, n)
  PROVE  TablesInv'
BY GuestsStay DEF TablesInv

(* __mmap at a page directory writes what the guest may have. *)
LEMMA MapPageKeepsTables ==
  ASSUME TablesInv, MapPage, UNCHANGED vm
  PROVE  TablesInv' /\ DOMAIN tables' = DOMAIN tables
<1> DEFINE b == walk.paddr \div SuperPageSize
<1>1. /\ TreeInv' /\ DOMAIN tables' = DOMAIN tables
      /\ \E r0 \in pml4s : \A r \in pml4s, n \in Pages :
           Translation(r, n)' = IF r = r0 /\ n = WalkPage
                                THEN {[frame |-> b, user |-> walk.is_user]}
                                ELSE Translation(r, n)
  BY MapPageInTree DEF TablesInv
<1>2. mode' = "idle" /\ pml4s' = pml4s /\ FitsGuest(b)
  BY DEF MapPage, TablesInv
<1> HIDE DEF b
<1>3. \A c : FitsGuest(c)' <=> FitsGuest(c)
  BY DEF FitsGuest, GuestMemory, FramesOf
<1>4. ASSUME NEW r \in pml4s', NEW n \in Pages, NEW t \in Translation(r, n)'
      PROVE  FitsGuest(t.frame)'
  <2>1. t \in Translation(r, n) \/ t = [frame |-> b, user |-> walk.is_user]
    BY <1>1, <1>2, <1>4
  <2>2. FitsGuest(t.frame)
    BY <1>2, <2>1 DEF TablesInv
  <2> QED
    BY <1>3, <2>2
<1> QED
  BY <1>1, <1>2, <1>4 DEF TablesInv

(* A multiple of 2 Mbytes, seen as a number of pages. *)
LEMMA SuperPages ==
  ASSUME NEW n \in Nat, NEW d \in Nat \ {0}
  PROVE  (n * d) \div d = n
OBVIOUS

(* The guest's memory is whole pages, and its tables can translate them all. *)
LEMMA GuestPages ==
  /\ SuperPageSize \in Nat \ {0} /\ PmemSize \in Nat
  /\ PFN_UP_2MB(PmemSize) \in Nat
  /\ PmemSize = SuperPageSize * PFN_UP_2MB(PmemSize)
  /\ PFN_UP_2MB(PmemSize) <= NrPages
<1> DEFINE S == SuperPageSize
           n == PmemSize \div S
           T == TableSize
           TTT == T * T * T
<1>1. /\ S \in Nat \ {0} /\ PmemSize \in Nat /\ PmemSize % S = 0 /\ T \in Nat \ {0}
      /\ PmemSize <= S * T * T * T
  BY VmCreateAssumption, PageTableAssumption
<1>2. n \in Nat /\ PmemSize = S * n
  BY <1>1
<1>3. PFN_UP_2MB(PmemSize) = n
  <2>1. \A a \in Nat, d \in Nat \ {0} : (d * a + (d - 1)) \div d = a
    OBVIOUS
  <2>2. PmemSize + S - 1 = S * n + (S - 1)
    BY <1>1, <1>2
  <2> HIDE DEF n
  <2> QED
    BY <1>1, <1>2, <2>1, <2>2 DEF PFN_UP_2MB
<1>4. n <= TTT
  <2>1. TTT \in Nat /\ S * T * T * T = S * TTT
    BY <1>1
  <2>2. \A a, b \in Nat, d \in Nat \ {0} : d * a <= d * b => a <= b
    OBVIOUS
  <2> HIDE DEF n, TTT
  <2> QED
    BY <1>1, <1>2, <2>1, <2>2
<1> HIDE DEF n
<1> QED
  BY <1>1, <1>2, <1>3, <1>4 DEF NrPages

(* pm_pfn names two Mbytes of the guest's memory, or the machine's first two. *)
LEMMA MappedPageFits ==
  ASSUME vm.pmem \in Nat, vm.pmem % SuperPageSize = 0, i \in Nat, i < PFN_UP_2MB(PmemSize)
  PROVE  /\ i = 0 => FitsGuest(0)
         /\ FitsGuest(i + PFN_DOWN_2MB(vm.pmem))
         /\ PFN_DOWN_2MB(vm.pmem) \in Nat
<1> DEFINE S == SuperPageSize
           b == vm.pmem \div S
           n == PFN_UP_2MB(PmemSize)
<1>1. SuperPageSize \in Nat \ {0} /\ PmemSize \in Nat
  BY GuestPages
<1>2. b \in Nat /\ vm.pmem = S * b
  BY <1>1
<1>3. n \in Nat /\ PmemSize = S * n /\ i < n
  BY GuestPages
<1>5. (i + b) * S = i * S + vm.pmem /\ i * S + S <= PmemSize
  <2>1. \A a, c, d \in Nat : a < c => a * d + d <= d * c
    OBVIOUS
  <2>2. \A a, c, d \in Nat : (a + c) * d = a * d + d * c
    OBVIOUS
  <2> HIDE DEF b, n
  <2> QED
    BY <1>1, <1>2, <1>3, <2>1, <2>2
<1>6. i * S \in Nat
  BY <1>1
<1>7. FramesOf((i + b) * S, S) \subseteq GuestMemory
  <2> HIDE DEF b, n
  <2> QED
    BY <1>1, <1>5, <1>6 DEF FramesOf, GuestMemory
<1>8. FitsGuest(i + b)
  BY <1>2, <1>7 DEF FitsGuest
<1>9. FitsGuest(0)
  BY <1>1 DEF FitsGuest, FramesOf
<1> QED
  BY <1>2, <1>8, <1>9 DEF PFN_DOWN_2MB

LEMMA ThroughIntNat ==
  ASSUME NEW x \in Nat
  PROVE  ThroughInt(x) \in Nat
BY MachineWordsAssumption DEF ThroughInt

(* The loop of create_vm_pmem_mapping_table passes what the guest may have. *)
LEMMA MmapKeepsTables ==
  ASSUME TablesInv, create_vm_pmem_mapping_table, vm.pmem \in Nat,
         vm.pmem % SuperPageSize = 0, i \in Nat, pml4s # {}
  PROVE  TablesInv'
<1> DEFINE pm_pfn == i + (IF is_reserved_pmem(i) THEN 0 ELSE PFN_DOWN_2MB(vm.pmem))
           v == ThroughInt(i * SuperPageSize)
           p == pm_pfn * SuperPageSize
<1>1. SuperPageSize \in Nat \ {0}
  BY PageTableAssumption
<1>2. FitsGuest(pm_pfn) /\ pm_pfn \in Nat
  BY MappedPageFits DEF is_reserved_pmem, create_vm_pmem_mapping_table
<1>3. p \div SuperPageSize = pm_pfn /\ p \in Nat
  BY <1>1, <1>2, SuperPages
<1>4. NestedRoot \in pml4s
  BY DEF NestedRoot
<1>5. v \in Nat
  <2>1. i * SuperPageSize \in Nat
    BY <1>1
  <2> QED
    BY <2>1, ThroughIntNat
<1>6. mmap(NestedRoot, v, p, TRUE) /\ UNCHANGED <<tables, pml4s, vm>>
  BY DEF create_vm_pmem_mapping_table, mmap
<1> HIDE DEF pm_pfn, v, p
<1>7. TreeInv' /\ walk'.paddr = p
  BY <1>3, <1>4, <1>5, <1>6, MmapInTree DEF TablesInv
<1>8. FitsGuest(walk'.paddr \div SuperPageSize)
  BY <1>2, <1>3, <1>7
<1>9. \A r \in pml4s, n \in Pages : Translation(r, n)' = Translation(r, n)
  BY <1>6, SameTables
<1> QED
  BY <1>6, <1>7, <1>8, <1>9, GuestsStay

------------------------------------------------------------------------------
(* The guest's memory, and the first 2 Mbytes, are none of the VMM's. *)
LEMMA GuestMemoryApart ==
  ASSUME OwnedInv, pc # "dead", handover \in Handovers, vm.pmem # 0
  PROVE  ((0 .. SuperPageSize - 1) \cup GuestMemory) \cap VmmFrames = {}
<1>1. /\ HeapEnd \in Nat /\ SuperPageSize \in Nat \ {0} /\ HeapEnd >= SuperPageSize
      /\ TopFrame \in Nat /\ Stash(handover) \subseteq HeapEnd .. TopFrame
  BY VmCreateAssumption, PageTableAssumption
<1>2. GuestMemory = Owners.pmem
  BY OwnersAre DEF GuestMemory
<1>3. Owners.pmem \subseteq GrantedFrames
  BY OwnersAre DEF OwnedInv, EveryFrameOwnedOnce, OwnerNames
<1>4. GrantedFrames \subseteq HeapEnd .. TopFrame /\ GrantedFrames \cap Stash(handover) = {}
  BY DEF OwnedInv
<1>5. GuestMemory \cap VmmFrames = {}
  BY <1>1, <1>2, <1>3, <1>4 DEF VmmFrames
<1>6. (0 .. SuperPageSize - 1) \cap VmmFrames = {}
  BY <1>1, <1>4 DEF VmmFrames
<1> QED
  BY <1>5, <1>6

(* No guest-physical frame leads to one of the VMM's. *)
LEMMA HostFramesApart ==
  ASSUME OwnedInv, TablesInv, pc # "dead", handover \in Handovers, vm.pmem # 0,
         vm.h_cr3 \in pml4s, NEW g \in Nat
  PROVE  HostFrames(g) \cap VmmFrames = {}
<1>1. SuperPageSize \in Nat \ {0}
  BY PageTableAssumption
<1> DEFINE o == g % SuperPageSize
<1>2. o \in 0 .. SuperPageSize - 1
  BY <1>1
<1>3. PageOf(g) \in Pages
  BY IndexOfAddress
<1> HIDE DEF o
<1>4. ASSUME NEW t \in Translation(vm.h_cr3, PageOf(g))
      PROVE  t.frame * SuperPageSize + o \in (0 .. SuperPageSize - 1) \cup GuestMemory
  <2>1. FitsGuest(t.frame)
    BY <1>3 DEF TablesInv
  <2>2. t.frame * SuperPageSize \in Nat
    BY <1>1, <2>1 DEF FitsGuest
  <2>3. t.frame * SuperPageSize + o \in FramesOf(t.frame * SuperPageSize, SuperPageSize)
    BY <1>1, <1>2, <2>2 DEF FramesOf
  <2> QED
    BY <2>1, <2>3 DEF FitsGuest
<1>5. \A f \in HostFrames(g) : f \in (0 .. SuperPageSize - 1) \cup GuestMemory
  BY <1>4 DEF HostFrames, o
<1> QED
  BY <1>5, GuestMemoryApart

------------------------------------------------------------------------------
(* Before the first allocation: pool, stash and heap are as setup_arch left them. *)
Fresh ==
  /\ TreeInv /\ DOMAIN tables = {} /\ pml4s = {} /\ mode = "idle" /\ grants = << >>
  /\ handover \in Handovers
  /\ pool \subseteq HeapEnd .. TopFrame /\ pool \cap Stash(handover) = {}
  /\ pc = "alloc_host_save_area" /\ i = 0 /\ vm = NewVm
  /\ DOMAIN mem = 0 .. TopFrame
  /\ \A f \in DOMAIN handover.vmm : mem[f] = handover.vmm[f]
  /\ \A f \in Stash(handover) : mem[f] = <<"file", f - handover.stash>>

LEMMA FreshVmInv ==
  ASSUME MachineIsLargeEnough, Fresh
  PROVE  VmInv
<1>1. SuperPageSize \in Nat \ {0} /\ HeapEnd \in Nat /\ TopFrame \in Nat /\ HeapEnd >= SuperPageSize
  BY VmCreateAssumption, PageTableAssumption
<1>2. vm \in VmRecord
  BY <1>1 DEF Fresh, NewVm, VmRecord, PhysicalFrames
<1>3. ProgressInv
  BY <1>2 DEF ProgressInv, Fresh, NewVm, BeforeMemory, BeforeTables, Built
<1>4. GrantedFrames = {}
  BY DEF GrantedFrames, Fresh
<1>5. \A x \in OwnerNames : Owners[x] = {}
  BY OwnersAre DEF OwnerNames, NewVm, Fresh
<1>6. OwnedInv
  <2>1. EveryFrameOwnedOnce
    BY <1>4, <1>5, OwnersAre DEF EveryFrameOwnedOnce
  <2> QED
    BY <1>4, <2>1 DEF OwnedInv, Fresh
<1>7. TablesInv
  BY DEF TablesInv, Fresh
<1>8. VmmIntact
  BY <1>5 DEF VmmIntact, OwnerNames, Fresh
<1> QED
  BY <1>3, <1>6, <1>7, <1>8 DEF VmInv

LEMMA InitVmInv ==
  ASSUME MachineIsLargeEnough, Init
  PROVE  VmInv
<1>1. /\ SuperPageSize \in Nat \ {0} /\ HeapEnd \in Nat /\ TopFrame \in Nat /\ HeapEnd >= SuperPageSize
      /\ pool \subseteq HeapEnd .. TopFrame /\ pool \cap Stash(handover) = {}
      /\ Stash(handover) \subseteq HeapEnd .. TopFrame
  BY VmCreateAssumption, PageTableAssumption DEF Init
<1>2. TreeInv
  BY InitEstablishesPageInv DEF PageInv, Init
<1>3. \A f \in Stash(handover) : mem[f] = <<"file", f - handover.stash>>
  <2>1. \A f \in Stash(handover) : f \in 0 .. TopFrame
    BY <1>1
  <2> QED
    BY <2>1 DEF Init
<1>4. \A f \in DOMAIN handover.vmm : mem[f] = handover.vmm[f]
  <2>1. \A f \in DOMAIN handover.vmm : f \in 0 .. TopFrame /\ f \notin Stash(handover)
    BY <1>1, VmmFramesKnown DEF MachineIsLargeEnough, Init
  <2> QED
    BY <2>1 DEF Init
<1>5. DOMAIN tables = {}
  BY DEF Init, PageInit
<1>6. DOMAIN mem = 0 .. TopFrame
  BY DEF Init
<1>7. Fresh
  BY <1>1, <1>2, <1>3, <1>4, <1>5, <1>6 DEF Fresh, Init, PageInit
<1> QED
  BY <1>7, FreshVmInv

(* The rows of Callers with the numbers worked out. *)
LEMMA CallerRows ==
  Callers =
    [alloc_host_save_area |->
       [nr |-> 1, align |-> 1, to |-> "hsa", fill |-> {<<"hsa">>}, next |-> "alloc_vmcb"],
     alloc_vmcb |->
       [nr |-> 1, align |-> 1, to |-> "vmcb", fill |-> {<<"vmcb">>}, next |-> "set_iopm"],
     set_iopm |->
       [nr |-> 3, align |-> 1, to |-> "iopm", fill |-> {<<"intercepts">>}, next |-> "set_msrpm"],
     set_msrpm |->
       [nr |-> 2, align |-> 1, to |-> "msrpm", fill |-> {<<"intercepts">>},
        next |-> "set_state_save_area"],
     alloc_vm_pmem |->
       [nr |-> PmemSize, align |-> SuperPageSize, to |-> "pmem", fill |-> {},
        next |-> "pml4_table_create"]]
<1>1. (12 * 1024) \div 4096 = 3 /\ (8 * 1024) \div 4096 = 2
  OBVIOUS
<1> QED
  BY <1>1 DEF Callers, alloc_host_save_area, alloc_vmcb, set_iopm, set_msrpm, alloc_vm_pmem,
     create_intercept_table, PAGE_SIZE

(* The rows of Callers agree with the owners' sizes and contents. *)
LEMMA CallersAre ==
  \A x \in DOMAIN Callers :
    /\ Callers[x].to \in {"hsa", "vmcb", "iopm", "msrpm", "pmem"}
    /\ Callers[x].nr = SizeOf[Callers[x].to]
    /\ Callers[x].align \in Nat
    /\ Callers[x].fill = IF Callers[x].to = "pmem" THEN {} ELSE {Content[Callers[x].to]}
    /\ Callers[x].next # "dead" /\ x # "dead"
<1>1. DOMAIN Callers =
        {"alloc_host_save_area", "alloc_vmcb", "set_iopm", "set_msrpm", "alloc_vm_pmem"}
  BY CallerRows
<1> SUFFICES ASSUME NEW x \in DOMAIN Callers
             PROVE  /\ Callers[x].to \in {"hsa", "vmcb", "iopm", "msrpm", "pmem"}
                    /\ Callers[x].nr = SizeOf[Callers[x].to]
                    /\ Callers[x].align \in Nat
                    /\ Callers[x].fill = IF Callers[x].to = "pmem" THEN {} ELSE {Content[Callers[x].to]}
                    /\ Callers[x].next # "dead" /\ x # "dead"
  OBVIOUS
<1>2. CASE x = "alloc_host_save_area"
  BY <1>2, CallerRows DEF SizeOf, Content
<1>3. CASE x = "alloc_vmcb"
  BY <1>3, CallerRows DEF SizeOf, Content
<1>4. CASE x = "set_iopm"
  BY <1>4, CallerRows DEF SizeOf, Content
<1>5. CASE x = "set_msrpm"
  BY <1>5, CallerRows DEF SizeOf, Content
<1>6. CASE x = "alloc_vm_pmem"
  BY <1>6, PageTableAssumption, CallerRows DEF SizeOf, Content
<1> QED
  BY <1>1, <1>2, <1>3, <1>4, <1>5, <1>6

LEMMA AllocateKeepsVmInv ==
  ASSUME MachineIsLargeEnough, VmInv, Allocate
  PROVE  VmInv'
<1> DEFINE c == Callers[pc]
<1>1. PICK f \in pool :
        /\ Allocator!GrantRun(f, c.nr, c.align)
        /\ vm' = [vm EXCEPT ![c.to] = f]
        /\ IF c.fill = {} THEN UNCHANGED mem ELSE \E content \in c.fill : mem' = Filled(f, c.nr, content)
  BY DEF Allocate
<1>2. /\ pc \in DOMAIN Callers /\ pc' = c.next
      /\ UNCHANGED <<tables, pml4s, mode, walk, handover, i>>
  BY DEF Allocate
<1>3. /\ pc # "dead" /\ pc' # "dead"
      /\ c.to \in {"hsa", "vmcb", "iopm", "msrpm", "pmem"}
      /\ c.nr = SizeOf[c.to] /\ c.align \in Nat
      /\ c.fill = IF c.to = "pmem" THEN {} ELSE {Content[c.to]}
  BY <1>2, CallersAre
<1>4. mem' = IF c.to = "pmem" THEN mem ELSE Filled(f, SizeOf[c.to], Content[c.to])
  BY <1>1, <1>3
<1>5. /\ vm \in VmRecord /\ handover \in Handovers /\ DOMAIN mem = 0 .. TopFrame /\ i \in Nat
      /\ OwnedInv /\ TablesInv /\ VmmIntact
  BY DEF VmInv, ProgressInv
<1>6. f \in Nat /\ f # 0 /\ f \in PhysicalFrames
  BY <1>3, <1>5, PoolAboveHeap DEF PhysicalFrames
<1>7. f % c.align = 0
  BY <1>1 DEF Allocator!GrantRun, Allocator!Fits
<1>8. DOMAIN mem' = 0 .. TopFrame
  BY <1>4, <1>5 DEF Filled
<1>9. vm' \in VmRecord
  BY <1>1, <1>3, <1>5, <1>6 DEF VmRecord
<1>10. vm[c.to] = 0 /\ ProgressInv' /\ DOMAIN tables = {} /\ pml4s = {} /\ mode = "idle"
  <2> USE <1>1, <1>2, <1>5, <1>6, <1>7, <1>8, <1>9
      DEF ProgressInv, VmInv, BeforeMemory, BeforeTables, Built
  <2>1. CASE pc = "alloc_host_save_area"
    BY <2>1, CallerRows DEF VmRecord, PhysicalFrames
  <2>2. CASE pc = "alloc_vmcb"
    BY <2>2, CallerRows DEF VmRecord, PhysicalFrames
  <2>3. CASE pc = "set_iopm"
    BY <2>3, CallerRows DEF VmRecord, PhysicalFrames
  <2>4. CASE pc = "set_msrpm"
    BY <2>4, CallerRows DEF VmRecord, PhysicalFrames
  <2>5. CASE pc = "alloc_vm_pmem"
    BY <2>5, CallerRows DEF VmRecord, PhysicalFrames
  <2> QED
    BY <2>1, <2>2, <2>3, <2>4, <2>5, CallerRows
<1>11. OwnedInv' /\ VmmIntact'
  BY <1>1, <1>2, <1>3, <1>4, <1>5, <1>10, FieldAllocated
<1>12. TablesInv'
  BY <1>2, <1>5, <1>10, TablesStay
<1> QED
  BY <1>10, <1>11, <1>12 DEF VmInv

(* What the VMM wrote stays as long as it writes nothing. *)
LEMMA VmmStays ==
  ASSUME VmmIntact, UNCHANGED <<mem, vm, tables, handover>>
  PROVE  VmmIntact'
<1>1. Owners' = Owners
  BY DEF Owners, FramesOf
<1>2. Stash(handover)' = Stash(handover) /\ handover'.vmm = handover.vmm
  BY DEF Stash, FramesOf
<1> QED
  BY <1>1, <1>2 DEF VmmIntact

LEMMA FailuresKeepVmInv ==
  ASSUME VmInv, AllocationFails \/ MappingTableFails \/ handle_vmexit
  PROVE  VmInv'
<1>1. /\ UNCHANGED <<mem, vm, tables, pml4s, handover, i>> /\ pc' = "dead"
      /\ UNCHANGED walk /\ (UNCHANGED mode \/ mode' = "dead")
  BY DEF AllocationFails, MappingTableFails, OutOfFrames, TableFaults, handle_vmexit, pageVars
<1>2. ProgressInv'
  BY <1>1 DEF VmInv, ProgressInv, BeforeMemory, BeforeTables, Built
<1>3. OwnedInv'
  BY <1>1 DEF OwnedInv
<1>4. TablesInv'
  BY <1>1, TablesStay DEF VmInv
<1>5. VmmIntact'
  BY <1>1, VmmStays DEF VmInv
<1> QED
  BY <1>2, <1>3, <1>4, <1>5 DEF VmInv

LEMMA CreateNestedRootKeepsVmInv ==
  ASSUME MachineIsLargeEnough, VmInv, CreateNestedRoot
  PROVE  VmInv'
<1>1. PICK f \in pool : Granted(f) /\ tables' = Cleared(f) /\ pml4s' = pml4s \cup {f}
  BY DEF CreateNestedRoot, pml4_table_create
<1>2. /\ pc = "pml4_table_create" /\ pc' = "create_vm_pmem_mapping_table" /\ i' = 0
      /\ UNCHANGED <<handover, vm, mode, walk>> /\ TablesInMem /\ mode = "idle"
  BY DEF CreateNestedRoot, pml4_table_create
<1>3. /\ vm \in VmRecord /\ handover \in Handovers /\ DOMAIN mem = 0 .. TopFrame
      /\ OwnedInv /\ TablesInv /\ VmmIntact
  BY DEF VmInv, ProgressInv
<1>4. DOMAIN tables' = DOMAIN tables \cup {f}
  BY <1>1 DEF Cleared
<1>5. f \notin DOMAIN tables /\ f \in Nat /\ OwnedInv' /\ VmmIntact'
  BY <1>1, <1>2, <1>3, <1>4, TableAllocated DEF Granted
<1>6. TablesInv'
  BY <1>1, <1>2, <1>3, <1>5, RootKeepsTables
<1>7. DOMAIN mem' = 0 .. TopFrame
  BY <1>2, <1>3 DEF TablesInMem
<1>8. ProgressInv'
  BY <1>1, <1>2, <1>3, <1>7 DEF VmInv, ProgressInv, BeforeMemory, BeforeTables, Built
<1> QED
  BY <1>5, <1>6, <1>8 DEF VmInv

LEMMA MappingKeepsVmInv ==
  ASSUME VmInv, create_vm_pmem_mapping_table
  PROVE  VmInv'
<1>1. /\ pc = "create_vm_pmem_mapping_table" /\ pc' = pc /\ i' = i + 1
      /\ UNCHANGED <<pool, grants, tables, pml4s, handover, vm, mem>>
  BY DEF create_vm_pmem_mapping_table, mmap
<1>2. /\ vm \in VmRecord /\ handover \in Handovers /\ i \in Nat
      /\ vm.pmem % SuperPageSize = 0 /\ pml4s # {}
      /\ OwnedInv /\ TablesInv /\ VmmIntact
  BY <1>1 DEF VmInv, ProgressInv, BeforeMemory, BeforeTables
<1>3. ProgressInv'
  BY <1>1, <1>2 DEF VmInv, ProgressInv, BeforeMemory, BeforeTables, Built
<1>4. TablesInv'
  BY <1>2, MmapKeepsTables DEF VmRecord, PhysicalFrames
<1> QED
  BY <1>1, <1>2, <1>3, <1>4, OwnersStay, VmmStays DEF VmInv

(* A frame that can still be granted is no table. *)
LEMMA PoolNoTables ==
  ASSUME OwnedInv, pc # "dead"
  PROVE  pool \subseteq Nat /\ pool \cap DOMAIN tables = {}
<1>1. pool \subseteq Nat
  BY PoolAboveHeap
<1>2. DOMAIN tables \subseteq GrantedFrames
  BY OwnersAre DEF OwnedInv, EveryFrameOwnedOnce, OwnerNames
<1> QED
  BY <1>1, <1>2 DEF OwnedInv

LEMMA RunMmapKeepsVmInv ==
  ASSUME MachineIsLargeEnough, VmInv, RunMmap
  PROVE  VmInv'
<1>1. /\ pc = "create_vm_pmem_mapping_table" /\ pc' = pc
      /\ UNCHANGED <<handover, i, vm, pml4s>> /\ TablesInMem
  BY DEF RunMmap, PageStep, MapPage, Descend, AddTable
<1>2. /\ vm \in VmRecord /\ handover \in Handovers /\ DOMAIN mem = 0 .. TopFrame
      /\ OwnedInv /\ TablesInv /\ VmmIntact
  BY DEF VmInv, ProgressInv
<1>3. ProgressInv'
  <2>1. DOMAIN mem' = 0 .. TopFrame
    BY <1>1, <1>2 DEF TablesInMem
  <2> QED
    BY <1>1, <2>1 DEF VmInv, ProgressInv, BeforeMemory, BeforeTables, Built
<1>4. ASSUME MapPage \/ Descend
      PROVE  OwnedInv' /\ VmmIntact' /\ TablesInv'
  <2>1. TablesInv' /\ DOMAIN tables' = DOMAIN tables
    <3>1. CASE MapPage
      BY <1>1, <1>2, <3>1, MapPageKeepsTables
    <3>2. CASE Descend
      <4>1. TreeInv' /\ walk'.paddr = walk.paddr
        BY <1>2, <3>2, DescendInTree DEF TablesInv
      <4>2. mode = "mmap" /\ tables' = tables
        BY <3>2 DEF Descend
      <4>3. \A r \in pml4s, n \in Pages : Translation(r, n)' = Translation(r, n)
        BY <4>2, SameTables
      <4> QED
        BY <1>1, <1>2, <4>1, <4>2, <4>3, WalkKeepsTables
    <3> QED
      BY <1>4, <3>1, <3>2
  <2>2. UNCHANGED <<pool, grants>>
    BY <1>4 DEF MapPage, Descend
  <2>3. \A f \in DOMAIN mem : mem'[f] = mem[f]
    BY <1>1, <2>1 DEF TablesInMem
  <2>4. Owners' = Owners
    BY <1>1, <2>1 DEF Owners, FramesOf
  <2>5. GrantedFrames' = GrantedFrames /\ Stash(handover)' = Stash(handover)
    BY <1>1, <2>2 DEF GrantedFrames, Stash, FramesOf
  <2>6. OwnedInv'
    BY <1>1, <1>2, <2>2, <2>4, <2>5 DEF OwnedInv, EveryFrameOwnedOnce
  <2>7. \A f \in VmmFrames : mem'[f] = mem[f]
    BY <1>1, <1>2, <2>3, VmmInMemory
  <2>8. VmmIntact'
    BY <1>1, <1>2, <2>4, <2>7, VmmUntouched
  <2> QED
    BY <2>1, <2>6, <2>8
<1>5. ASSUME AddTable
      PROVE  OwnedInv' /\ VmmIntact' /\ TablesInv'
  <2>1. pool \subseteq Nat /\ pool \cap DOMAIN tables = {}
    BY <1>1, <1>2, PoolNoTables
  <2>2. PICK f \in pool :
          /\ Granted(f) /\ TreeInv'
          /\ \A r \in pml4s, n \in Pages : Translation(r, n)' = Translation(r, n)
          /\ DOMAIN tables' = DOMAIN tables \cup {f} /\ walk'.paddr = walk.paddr
    BY <1>2, <1>5, <2>1, AddTableInTree DEF TablesInv
  <2>3. OwnedInv' /\ VmmIntact'
    BY <1>1, <1>2, <2>2, TableAllocated DEF Granted
  <2>4. TablesInv'
    <3>1. mode = "mmap"
      BY <1>5 DEF AddTable
    <3> QED
      BY <1>1, <1>2, <2>2, <3>1, WalkKeepsTables
  <2> QED
    BY <2>3, <2>4
<1> QED
  BY <1>3, <1>4, <1>5 DEF VmInv, RunMmap, PageStep

(* The two intercept tables together are five frames above the first 2 Mbytes:
   physical memory reaches beyond the guest's CR3, taken for a host address. *)
LEMMA Cr3InMemory ==
  ASSUME OwnedInv, pc # "dead", vm \in VmRecord, vm.iopm # 0, vm.msrpm # 0
  PROVE  SuperPageSize + 3 \in PhysicalFrames
<1>1. /\ FramesOf(vm.iopm, 3) \subseteq GrantedFrames
      /\ FramesOf(vm.msrpm, 2) \subseteq GrantedFrames
      /\ FramesOf(vm.iopm, 3) \cap FramesOf(vm.msrpm, 2) = {}
  <2>1. /\ Owners["iopm"] \subseteq GrantedFrames /\ Owners["msrpm"] \subseteq GrantedFrames
        /\ Owners["iopm"] \cap Owners["msrpm"] = {}
    BY OwnersAre DEF OwnedInv, EveryFrameOwnedOnce, OwnerNames
  <2> QED
    BY <2>1, OwnersAre
<1>2. /\ SuperPageSize \in Nat /\ TopFrame \in Nat
      /\ \A f \in GrantedFrames : f \in Nat /\ f >= SuperPageSize /\ f <= TopFrame
  BY PoolAboveHeap, VmCreateAssumption, PageTableAssumption
<1> DEFINE a == vm.iopm
           b == vm.msrpm
<1>3. a \in Nat /\ b \in Nat
  BY DEF VmRecord, PhysicalFrames
<1>4. /\ a \in FramesOf(a, 3) /\ a + 1 \in FramesOf(a, 3) /\ a + 2 \in FramesOf(a, 3)
      /\ b \in FramesOf(b, 2) /\ b + 1 \in FramesOf(b, 2)
  BY <1>3 DEF FramesOf
<1>5. /\ a >= SuperPageSize /\ a + 2 <= TopFrame /\ b >= SuperPageSize /\ b + 1 <= TopFrame
      /\ b \notin {a, a + 1, a + 2} /\ b + 1 \notin {a, a + 1, a + 2}
  BY <1>1, <1>2, <1>4
<1> HIDE DEF a, b
<1> QED
  BY <1>2, <1>3, <1>5 DEF PhysicalFrames

(* Steps that only compute a field of vm that owns no frame, or nothing. *)
LEMMA ComputedKeepsVmInv ==
  ASSUME VmInv,
         \/ set_state_save_area \/ MappingTableDone \/ ElfImageLoaded
         \/ switch_to_guest_os \/ GuestExits
  PROVE  VmInv'
<1>1. /\ UNCHANGED <<pool, grants, tables, pml4s, mode, walk, handover, mem>>
      /\ pc # "dead" /\ pc' # "dead" /\ vm \in VmRecord
  BY DEF set_state_save_area, MappingTableDone, ElfImageLoaded, switch_to_guest_os, GuestExits,
     pageVars, VmInv, ProgressInv
<1>2. \A x \in {"hsa", "vmcb", "iopm", "msrpm", "pmem"} : vm'[x] = vm[x]
  BY <1>1 DEF set_state_save_area, MappingTableDone, ElfImageLoaded, switch_to_guest_os, GuestExits, VmRecord, PhysicalFrames
<1>3. OwnedInv /\ TablesInv /\ VmmIntact /\ handover \in Handovers
  BY DEF VmInv, ProgressInv
<1>4. OwnedInv' /\ Owners' = Owners
  BY <1>1, <1>2, <1>3, OwnersStay
<1>5. VmmIntact'
  BY <1>1, <1>3, <1>4, VmmUntouched
<1>6. TablesInv'
  BY <1>1, <1>2, <1>3, TablesStay
<1>7. ProgressInv'
  <2> USE <1>1 DEF VmInv, ProgressInv, BeforeMemory, BeforeTables, Built
  <2>1. CASE set_state_save_area
    <3>1. SuperPageSize + 3 \in PhysicalFrames
      BY <1>3, <2>1, Cr3InMemory DEF set_state_save_area
    <3> QED
      BY <2>1, <3>1 DEF set_state_save_area, VmRecord, PhysicalFrames
  <2>2. CASE MappingTableDone
    <3>1. pc = "create_vm_pmem_mapping_table" /\ pml4s # {}
      BY <2>2 DEF MappingTableDone
    <3>2. NestedRoot \in pml4s
      BY <3>1 DEF NestedRoot
    <3>3. NestedRoot \in PhysicalFrames
      <4>1. NestedRoot \in DOMAIN tables
        BY <1>3, <3>2 DEF TablesInv, TreeInv
      <4>2. DOMAIN tables \subseteq GrantedFrames
        BY <1>3, OwnersAre DEF OwnedInv, EveryFrameOwnedOnce, OwnerNames
      <4> QED
        BY <1>3, <4>1, <4>2, PoolAboveHeap DEF PhysicalFrames
    <3> QED
      BY <2>2, <3>2, <3>3 DEF MappingTableDone, VmRecord, PhysicalFrames
  <2>3. CASE ElfImageLoaded
    <3>1. handover.image.e_entry \in Nat
      BY VmCreateAssumption DEF WellFormed
    <3> QED
      BY <2>3, <3>1 DEF ElfImageLoaded, VmRecord, PhysicalFrames, pageVars
  <2>4. CASE switch_to_guest_os
    BY <2>4 DEF switch_to_guest_os, pageVars
  <2>5. CASE GuestExits
    BY <2>5 DEF GuestExits, pageVars
  <2> QED
    BY <2>1, <2>2, <2>3, <2>4, <2>5
<1> QED
  BY <1>4, <1>5, <1>6, <1>7 DEF VmInv

(* Steps that write memory the guest may write anyway. *)
LEMMA GuestMemoryWritten ==
  ASSUME VmInv, pc # "dead", vm.pmem # 0, UNCHANGED <<pageVars, handover, vm>>,
         \A f \in DOMAIN mem : f \in VmmFrames => mem'[f] = mem[f],
         VmmFrames \subseteq DOMAIN mem
  PROVE  OwnedInv' /\ TablesInv' /\ VmmIntact'
<1>1. OwnedInv /\ TablesInv /\ VmmIntact /\ handover \in Handovers
  BY DEF VmInv, ProgressInv
<1>2. UNCHANGED <<pool, grants, tables, pml4s, mode, walk, handover, vm>>
  BY DEF pageVars
<1>3. OwnedInv' /\ Owners' = Owners
  BY <1>1, <1>2, OwnersStay
<1>4. VmmIntact'
  BY <1>1, <1>2, <1>3, VmmUntouched
<1> QED
  BY <1>1, <1>2, <1>3, <1>4, TablesStay

LEMMA LoaderKeepsVmInv ==
  ASSUME MachineIsLargeEnough, VmInv, load_elf_image
  PROVE  VmInv'
<1>1. /\ pc = "load_elf_image" /\ i <= Len(Phdrs) /\ i' = i + 1
      /\ UNCHANGED <<pageVars, handover, vm>> /\ pc' \in {pc, "dead"}
  BY DEF load_elf_image
<1>2. /\ vm \in VmRecord /\ handover \in Handovers /\ DOMAIN mem = 0 .. TopFrame
      /\ i \in Nat /\ i >= 1 /\ vm.pmem # 0 /\ OwnedInv
  BY <1>1 DEF VmInv, ProgressInv, BeforeMemory
<1> DEFINE ph == Phdrs[i]
           to == vm.pmem + ph.p_paddr
<1>3. WellFormed(handover.image)
  BY <1>2, VmCreateAssumption
<1>4. /\ i \in DOMAIN Phdrs /\ ph \in Segment
      /\ ph.p_filesz <= ph.p_memsz /\ ph.p_paddr + ph.p_memsz <= PmemSize
  BY <1>1, <1>2, <1>3 DEF WellFormed, Phdrs
<1>5. /\ ph.p_filesz \in Nat /\ ph.p_memsz \in Nat /\ ph.p_paddr \in Nat /\ vm.pmem \in Nat /\ PmemSize \in Nat
  BY <1>2, <1>4, VmCreateAssumption DEF Segment, VmRecord, PhysicalFrames
<1> HIDE DEF ph
<1>6. /\ FramesOf(to, ph.p_memsz) \subseteq GuestMemory
      /\ FramesOf(to, ph.p_filesz) \subseteq GuestMemory
  BY <1>4, <1>5 DEF FramesOf, GuestMemory
<1>7. GuestMemory \cap VmmFrames = {} /\ VmmFrames \subseteq DOMAIN mem
  BY <1>1, <1>2, GuestMemoryApart, VmmInMemory
<1>8. mem' = mem \/ mem' = SegmentLoaded(ph, to)
  BY DEF load_elf_image, ph
<1>9. /\ DOMAIN mem' = DOMAIN mem
      /\ \A f \in DOMAIN mem : f \in VmmFrames => mem'[f] = mem[f]
  BY <1>6, <1>7, <1>8 DEF SegmentLoaded
<1>10. OwnedInv' /\ TablesInv' /\ VmmIntact'
  BY <1>1, <1>2, <1>7, <1>9, GuestMemoryWritten
<1>11. ProgressInv'
  BY <1>1, <1>2, <1>9 DEF VmInv, ProgressInv, BeforeMemory, BeforeTables, Built, pageVars
<1> QED
  BY <1>10, <1>11 DEF VmInv

LEMMA TempTableKeepsVmInv ==
  ASSUME MachineIsLargeEnough, VmInv, create_temp_page_table
  PROVE  VmInv'
<1>1. /\ pc = "create_temp_page_table" /\ pc' \in {"vm_boot", "dead"}
      /\ UNCHANGED <<pageVars, handover, i, vm>>
  BY DEF create_temp_page_table
<1>2. /\ vm \in VmRecord /\ handover \in Handovers /\ DOMAIN mem = 0 .. TopFrame
      /\ vm.pmem # 0 /\ vm.cr3 = SuperPageSize + 3 /\ OwnedInv
  BY <1>1 DEF VmInv, ProgressInv, BeforeMemory
<1>3. FramesOf(TempTableBase, 3) \subseteq GuestMemory
  <2>1. vm.pmem \in Nat
    BY <1>2 DEF VmRecord, PhysicalFrames
  <2> QED
    BY <1>2, <2>1, VmCreateAssumption, PageTableAssumption
       DEF MachineIsLargeEnough, TempTableBase, FramesOf, GuestMemory
<1>4. GuestMemory \cap VmmFrames = {} /\ VmmFrames \subseteq DOMAIN mem
  BY <1>1, <1>2, GuestMemoryApart, VmmInMemory
<1>5. /\ DOMAIN mem' = DOMAIN mem
      /\ \A f \in DOMAIN mem : f \in VmmFrames => mem'[f] = mem[f]
  BY <1>3, <1>4 DEF create_temp_page_table
<1>6. OwnedInv' /\ TablesInv' /\ VmmIntact'
  BY <1>1, <1>2, <1>4, <1>5, GuestMemoryWritten
<1>7. ProgressInv'
  BY <1>1, <1>2, <1>5 DEF VmInv, ProgressInv, BeforeMemory, BeforeTables, Built, pageVars
<1> QED
  BY <1>6, <1>7 DEF VmInv

LEMMA GuestWritesKeepsVmInv ==
  ASSUME MachineIsLargeEnough, VmInv, GuestWrites
  PROVE  VmInv'
<1>1. pc = "guest" /\ UNCHANGED <<pageVars, pc, handover, i, vm>>
  BY DEF GuestWrites
<1>2. /\ vm \in VmRecord /\ handover \in Handovers /\ DOMAIN mem = 0 .. TopFrame
      /\ vm.pmem # 0 /\ vm.h_cr3 \in pml4s /\ OwnedInv /\ TablesInv
  BY <1>1 DEF VmInv, ProgressInv, BeforeMemory, Built
<1>3. PICK g \in GuestFrames : \E f \in HostFrames(g) : mem' = [mem EXCEPT ![f] = <<"guest">>]
  BY DEF GuestWrites
<1>4. PICK f \in HostFrames(g) : mem' = [mem EXCEPT ![f] = <<"guest">>]
  BY <1>3
<1>5. f \notin VmmFrames
  BY <1>1, <1>2, HostFramesApart, VmCreateAssumption
<1>6. VmmFrames \subseteq DOMAIN mem
  BY <1>1, <1>2, VmmInMemory
<1>7. /\ DOMAIN mem' = DOMAIN mem
      /\ \A h \in DOMAIN mem : h \in VmmFrames => mem'[h] = mem[h]
  BY <1>4, <1>5
<1>8. OwnedInv' /\ TablesInv' /\ VmmIntact'
  BY <1>1, <1>2, <1>6, <1>7, GuestMemoryWritten
<1>9. ProgressInv'
  BY <1>1, <1>2, <1>7 DEF VmInv, ProgressInv, BeforeMemory, BeforeTables, Built, pageVars
<1> QED
  BY <1>8, <1>9 DEF VmInv

LEMMA StepKeepsVmInv ==
  ASSUME MachineIsLargeEnough, VmInv, [Next]_vars
  PROVE  VmInv'
<1>1. CASE Allocate
  BY <1>1, AllocateKeepsVmInv
<1>2. CASE AllocationFails \/ MappingTableFails \/ handle_vmexit
  BY <1>2, FailuresKeepVmInv
<1>3. CASE CreateNestedRoot
  BY <1>3, CreateNestedRootKeepsVmInv
<1>4. CASE create_vm_pmem_mapping_table
  BY <1>4, MappingKeepsVmInv
<1>5. CASE RunMmap
  BY <1>5, RunMmapKeepsVmInv
<1>6. CASE \/ set_state_save_area \/ MappingTableDone \/ ElfImageLoaded
           \/ switch_to_guest_os \/ GuestExits
  BY <1>6, ComputedKeepsVmInv
<1>7. CASE load_elf_image
  BY <1>7, LoaderKeepsVmInv
<1>8. CASE create_temp_page_table
  BY <1>8, TempTableKeepsVmInv
<1>9. CASE GuestWrites
  BY <1>9, GuestWritesKeepsVmInv
<1>10. CASE UNCHANGED vars
  <2>1. UNCHANGED <<pool, grants, tables, pml4s, mode, walk, pc, handover, i, vm, mem>>
    BY <1>10 DEF vars, pageVars, vmVars
  <2>2. Owners' = Owners /\ GrantedFrames' = GrantedFrames /\ Stash(handover)' = Stash(handover)
    BY <2>1 DEF Owners, GrantedFrames, Stash, FramesOf
  <2>3. ProgressInv'
    BY <2>1 DEF VmInv, ProgressInv, BeforeMemory, BeforeTables, Built
  <2>4. OwnedInv'
    BY <2>1, <2>2 DEF VmInv, OwnedInv, EveryFrameOwnedOnce
  <2> QED
    BY <2>1, <2>3, <2>4, TablesStay, VmmStays DEF VmInv
<1> QED
  BY <1>1, <1>2, <1>3, <1>4, <1>5, <1>6, <1>7, <1>8, <1>9, <1>10 DEF Next, BootStep

LEMMA VmInvAlways ==
  ASSUME MachineIsLargeEnough
  PROVE  Spec => []VmInv
<1>1. Init => VmInv
  BY InitVmInv
<1>2. VmInv /\ [Next]_vars => VmInv'
  BY StepKeepsVmInv
<1> QED
  BY <1>1, <1>2, PTL DEF Spec

(***************************************************************************)
(* Every frame that svm.c, vm.c and page.c ask alloc_pages for has exactly *)
(* one owner, from the host save area to the last nested table             *)
(* (vm.c:16-62, 122-128).                                                  *)
(***************************************************************************)
THEOREM OwnedOnceCorrect ==
  ASSUME MachineIsLargeEnough
  PROVE  Spec => []EveryFrameOwnedOnce
<1>1. VmInv => EveryFrameOwnedOnce
  BY DEF VmInv, OwnedInv, EveryFrameOwnedOnce
<1> QED
  BY <1>1, VmInvAlways, PTL

(***************************************************************************)
(* What the VMM wrote for itself stays what it was, whatever image is      *)
(* loaded and whatever the guest stores through the nested tables          *)
(* (svm.c:18-31, vm.c:16-62, 170-203).                                     *)
(***************************************************************************)
THEOREM IntactCorrect ==
  ASSUME MachineIsLargeEnough
  PROVE  Spec => []VmmIntact
<1>1. VmInv => VmmIntact
  BY DEF VmInv
<1> QED
  BY <1>1, VmInvAlways, PTL

(* The nested tables translate to nothing of the VMM's. *)
LEMMA InvConfines ==
  ASSUME VmInv
  PROVE  GuestIsConfined
<1> SUFFICES ASSUME VmInv, Built, NEW n \in Pages, NEW offset \in 0 .. SuperPageSize - 1
             PROVE  HostFrames(n * SuperPageSize + offset) \cap VmmFrames = {}
  BY DEF GuestIsConfined
<1>1. /\ handover \in Handovers /\ vm.pmem # 0 /\ vm.h_cr3 \in pml4s /\ pc # "dead"
      /\ OwnedInv /\ TablesInv
  BY DEF VmInv, ProgressInv, BeforeMemory, Built
<1>2. n * SuperPageSize + offset \in Nat
  <2>1. n \in Nat /\ SuperPageSize \in Nat
    BY PageTableAssumption DEF Pages
  <2>2. n * SuperPageSize \in Nat
    BY <2>1
  <2> QED
    BY <2>1, <2>2
<1> QED
  BY <1>1, <1>2, HostFramesApart

(***************************************************************************)
(* No guest-physical address reaches a frame of the VMM, for any size of   *)
(* the tables, the memory and the pool (vm.c:142-168).                     *)
(***************************************************************************)
THEOREM ConfinedCorrect ==
  ASSUME MachineIsLargeEnough
  PROVE  Spec => []GuestIsConfined
<1>1. VmInv => GuestIsConfined
  BY InvConfines
<1> QED
  BY <1>1, VmInvAlways, PTL

------------------------------------------------------------------------------
(***************************************************************************)
(* The guest's memory is mapped: the loop of create_vm_pmem_mapping_table. *)
(***************************************************************************)

(* vm_paddr is shifted as an int: the address of the guest's last page fits. *)
GuestFitsInt == 2 * (PmemSize - SuperPageSize) < IntRange

AfterTables == {"load_elf_image", "create_temp_page_table", "vm_boot", "guest", "handle_vmexit"}

LEMMA PageOfPage ==
  ASSUME NEW n \in Pages
  PROVE  PageOf(n * SuperPageSize) = n
<1>1. (n * SuperPageSize) \div SuperPageSize = n
  BY Sizes DEF Pages
<1>2. n % (TableSize * TableSize * TableSize) = n
  BY Sizes DEF Pages
<1> QED
  BY <1>1, <1>2 DEF PageOf

LEMMA GuestPageIsPage ==
  ASSUME NEW n \in Nat, n < PFN_UP_2MB(PmemSize)
  PROVE  n \in Pages
<1>1. PFN_UP_2MB(PmemSize) \in Nat /\ PFN_UP_2MB(PmemSize) <= NrPages /\ NrPages \in Nat
  BY GuestPages, Sizes DEF NrPages
<1>2. Pages = 0 .. NrPages - 1
  BY DEF Pages, NrPages
<1> QED
  BY <1>1, <1>2

(* Steps that do not touch the tables. *)
LEMMA MappedStays ==
  ASSUME MappedInv, UNCHANGED <<tables, pml4s>>,
         \/ pc' \notin AfterTables \cup {"create_vm_pmem_mapping_table"}
         \/ pc \in AfterTables /\ pc' \in AfterTables /\ vm'.pmem = vm.pmem
         \/ UNCHANGED <<pc, i, mode, walk, vm>>
  PROVE  MappedInv'
<1>1. \A r : \A n \in Pages : Translation(r, n)' = Translation(r, n)
  BY SameTables
<1>2. CASE pc' \notin AfterTables \cup {"create_vm_pmem_mapping_table"}
  BY <1>2 DEF MappedInv, AfterTables, Built
<1>3. ASSUME vm'.pmem = vm.pmem, NEW k
      PROVE  FirstPagesMapped(k) => FirstPagesMapped(k)'
  BY <1>1, <1>3 DEF FirstPagesMapped, Promised
<1>4. CASE pc \in AfterTables /\ pc' \in AfterTables /\ vm'.pmem = vm.pmem
  BY <1>3, <1>4 DEF MappedInv, AfterTables, Built
<1>5. CASE UNCHANGED <<pc, i, mode, walk, vm>>
  <2>1. /\ FirstPagesMapped(i) => FirstPagesMapped(i)'
        /\ FirstPagesMapped(i - 1) => FirstPagesMapped(i - 1)'
        /\ FirstPagesMapped(PFN_UP_2MB(PmemSize)) => FirstPagesMapped(PFN_UP_2MB(PmemSize))'
    BY <1>1, <1>5 DEF FirstPagesMapped, Promised
  <2>2. Promised(i - 1)' = Promised(i - 1) /\ WalkPage' = WalkPage
    BY <1>5 DEF Promised, WalkPage
  <2> QED
    BY <1>5, <2>1, <2>2 DEF MappedInv, Built
<1> QED
  BY <1>2, <1>4, <1>5

(* The new root is the only one, and translates nothing. *)
LEMMA CreateNestedRootMapped ==
  ASSUME VmInv, CreateNestedRoot
  PROVE  MappedInv'
<1>1. PICK f \in pool : tables' = Cleared(f) /\ pml4s' = pml4s \cup {f}
  BY DEF CreateNestedRoot, pml4_table_create
<1>2. /\ pc = "pml4_table_create" /\ pc' = "create_vm_pmem_mapping_table" /\ i' = 0
      /\ UNCHANGED <<mode, walk>> /\ mode = "idle"
  BY DEF CreateNestedRoot, pml4_table_create
<1>3. f \in Nat /\ f \notin DOMAIN tables
  BY <1>2, PoolNoTables DEF VmInv
<1>4. pml4s' = {f}
  BY <1>1, <1>2 DEF VmInv, ProgressInv, BeforeTables
<1>5. \A n \in Pages : Translation(f, n)' = {}
  BY <1>1, <1>2, <1>3, RootAdded DEF VmInv, TablesInv
<1>6. FirstPagesMapped(i)'
  <2>1. \A n \in Pages : ~ (n < 0)
    BY DEF Pages
  <2> QED
    BY <1>2, <1>4, <1>5, <2>1 DEF FirstPagesMapped
<1> QED
  BY <1>2, <1>4, <1>6, GuestPages DEF MappedInv, Built

(* The next page is handed to mmap. *)
LEMMA MappingMapped ==
  ASSUME GuestFitsInt, VmInv, MappedInv, create_vm_pmem_mapping_table
  PROVE  MappedInv'
<1> DEFINE pm_pfn == i + (IF is_reserved_pmem(i) THEN 0 ELSE PFN_DOWN_2MB(vm.pmem))
           v == i * SuperPageSize
           p == pm_pfn * SuperPageSize
           N == PFN_UP_2MB(PmemSize)
<1>1. /\ pc = "create_vm_pmem_mapping_table" /\ pc' = pc /\ i' = i + 1 /\ i < N
      /\ UNCHANGED <<tables, pml4s, vm>> /\ mode = "idle" /\ mode' = "mmap"
      /\ mmap(NestedRoot, ThroughInt(v), p, TRUE)
  BY DEF create_vm_pmem_mapping_table, mmap
<1>2. /\ i \in Nat /\ vm.pmem \in Nat /\ TreeInv /\ pml4s # {} /\ N \in Nat
      /\ SuperPageSize \in Nat \ {0} /\ PmemSize = SuperPageSize * N
  BY <1>1, GuestPages
     DEF VmInv, ProgressInv, VmRecord, PhysicalFrames, TablesInv, BeforeMemory, BeforeTables
<1>3. i \in Pages
  BY <1>1, <1>2, GuestPageIsPage
<1>4. v \in Nat /\ ThroughInt(v) = v
  <2>1. v \in Nat /\ v + SuperPageSize <= PmemSize
    <3>1. \A a, c, d \in Nat : a < c => a * d + d <= d * c
      OBVIOUS
    <3> HIDE DEF N
    <3> QED
      BY <1>1, <1>2, <3>1
  <2> HIDE DEF v, N
  <2>2. 2 * v < IntRange
    BY <1>2, <2>1, MachineWordsAssumption, GuestPages DEF GuestFitsInt
  <2> QED
    BY <2>1, <2>2, ThroughIntSame
<1>5. pm_pfn \in Nat /\ pm_pfn = Promised(i).frame
  <2>1. PFN_DOWN_2MB(vm.pmem) \in Nat
    BY <1>2 DEF PFN_DOWN_2MB
  <2> QED
    BY <1>2, <2>1 DEF Promised, is_reserved_pmem
<1>6. p \in Nat /\ p \div SuperPageSize = pm_pfn
  BY <1>2, <1>5, SuperPages
<1>7. PageOf(v) = i
  BY <1>3, PageOfPage
<1> HIDE DEF pm_pfn, p, v
<1>8. walk'.vaddr = v /\ walk'.paddr = p /\ walk'.is_user = TRUE
  <2>1. NestedRoot \in pml4s
    BY <1>2 DEF NestedRoot
  <2> QED
    BY <1>1, <1>2, <1>4, <1>6, <2>1, MmapInTree
<1>9. WalkPage' = i
  BY <1>7, <1>8 DEF WalkPage
<1>10. FirstPagesMapped(i - 1)'
  <2>1. FirstPagesMapped(i)
    BY <1>1 DEF MappedInv
  <2>2. \A r : \A n \in Pages : Translation(r, n)' = Translation(r, n)
    BY <1>1, SameTables
  <2>3. i' - 1 = i
    BY <1>1, <1>2
  <2> QED
    BY <1>1, <2>1, <2>2, <2>3 DEF FirstPagesMapped, Promised
<1>11. walk'.paddr \div SuperPageSize = Promised(i - 1)'.frame
  <2>1. i' - 1 = i
    BY <1>1, <1>2
  <2>2. Promised(i - 1)' = Promised(i)
    BY <1>1, <2>1 DEF Promised
  <2> QED
    BY <1>5, <1>6, <1>8, <2>2
<1> QED
  BY <1>1, <1>2, <1>8, <1>9, <1>10, <1>11 DEF MappedInv, Built

(* One invocation of __mmap: what it maps is the page the loop is at. *)
LEMMA RunMmapMapped ==
  ASSUME VmInv, MappedInv, RunMmap
  PROVE  MappedInv'
<1>1. /\ pc = "create_vm_pmem_mapping_table" /\ pc' = pc
      /\ UNCHANGED <<i, vm, pml4s>> /\ mode = "mmap" /\ i \in Nat
  BY DEF RunMmap, PageStep, MapPage, Descend, AddTable, VmInv, ProgressInv
<1>2. /\ OwnedInv /\ TreeInv
  BY DEF VmInv, TablesInv
<1>3. PICK r \in pml4s : pml4s = {r}
  BY <1>1 DEF MappedInv
<1>4. /\ i <= PFN_UP_2MB(PmemSize) /\ i >= 1 /\ WalkPage = i - 1 /\ walk.is_user
      /\ walk.paddr \div SuperPageSize = Promised(i - 1).frame
      /\ FirstPagesMapped(i - 1)
  BY <1>1 DEF MappedInv
<1>5. \A n : Promised(n)' = Promised(n)
  BY <1>1 DEF Promised
<1>6. ASSUME UNCHANGED mode, walk'.vaddr = walk.vaddr, walk'.paddr = walk.paddr,
             walk'.is_user = walk.is_user,
             \A n \in Pages : Translation(r, n)' = Translation(r, n)
      PROVE  MappedInv'
  <2>1. WalkPage' = WalkPage
    BY <1>6 DEF WalkPage
  <2>2. FirstPagesMapped(i - 1)'
    BY <1>1, <1>3, <1>4, <1>5, <1>6 DEF FirstPagesMapped
  <2>3. Promised(i - 1)' = Promised(i - 1)
    BY <1>1 DEF Promised
  <2> QED
    BY <1>1, <1>3, <1>4, <1>6, <2>1, <2>2, <2>3 DEF MappedInv, Built
<1>7. CASE Descend
  <2>1. UNCHANGED <<tables, mode>>
    BY <1>7 DEF Descend
  <2>2. \A n \in Pages : Translation(r, n)' = Translation(r, n)
    BY <2>1, SameTables
  <2> QED
    BY <1>2, <1>6, <1>7, <2>1, <2>2, DescendInTree
<1>8. CASE AddTable
  <2>1. pool \subseteq Nat /\ pool \cap DOMAIN tables = {}
    BY <1>1, <1>2, PoolNoTables
  <2>2. UNCHANGED mode
    BY <1>8 DEF AddTable
  <2>3. /\ \A n \in Pages : Translation(r, n)' = Translation(r, n)
        /\ walk'.vaddr = walk.vaddr /\ walk'.paddr = walk.paddr /\ walk'.is_user = walk.is_user
    BY <1>2, <1>8, <2>1, AddTableInTree
  <2> QED
    BY <1>6, <2>2, <2>3
<1>9. CASE MapPage
  <2> DEFINE t == [frame |-> walk.paddr \div SuperPageSize, user |-> walk.is_user]
  <2>1. mode' = "idle"
    BY <1>9 DEF MapPage
  <2>2. \A n \in Pages : Translation(r, n)' = IF n = WalkPage THEN {t} ELSE Translation(r, n)
    <3>1. \E r0 \in pml4s : \A q \in pml4s, n \in Pages :
            Translation(q, n)' = IF q = r0 /\ n = WalkPage THEN {t} ELSE Translation(q, n)
      BY <1>2, <1>9, MapPageInTree
    <3> HIDE DEF t
    <3> QED
      BY <1>3, <3>1
  <2>3. t = Promised(i - 1)
    <3>1. walk.is_user = TRUE
      BY <1>2, <1>4 DEF TreeInv, WalkType
    <3>2. t = [frame |-> Promised(i - 1).frame, user |-> TRUE]
      BY <1>4, <3>1
    <3> QED
      BY <3>2 DEF Promised
  <2> HIDE DEF t
  <2>4. \A n \in Pages : Translation(r, n)' = IF n < i THEN {Promised(n)} ELSE {}
    <3>1. \A n \in Pages : Translation(r, n) = IF n < i - 1 THEN {Promised(n)} ELSE {}
      BY <1>4 DEF FirstPagesMapped
    <3>2. \A n \in Pages : n \in Nat
      BY DEF Pages
    <3> QED
      BY <1>1, <1>4, <2>2, <2>3, <3>1, <3>2
  <2>5. FirstPagesMapped(i)'
    BY <1>1, <1>3, <1>5, <2>4 DEF FirstPagesMapped
  <2> QED
    BY <1>1, <1>3, <1>4, <2>1, <2>5 DEF MappedInv, Built
<1> QED
  BY <1>7, <1>8, <1>9 DEF RunMmap, PageStep

(* The loop ends when every page is mapped. *)
LEMMA MappingDoneMapped ==
  ASSUME VmInv, MappedInv, MappingTableDone
  PROVE  MappedInv'
<1>1. /\ pc = "create_vm_pmem_mapping_table" /\ pc' = "load_elf_image" /\ mode = "idle"
      /\ i >= PFN_UP_2MB(PmemSize) /\ UNCHANGED <<tables, pml4s>>
      /\ vm' = [vm EXCEPT !.h_cr3 = NestedRoot] /\ vm \in VmRecord /\ i \in Nat
  BY DEF MappingTableDone, pageVars, VmInv, ProgressInv
<1>2. i <= PFN_UP_2MB(PmemSize) /\ FirstPagesMapped(i)
  BY <1>1 DEF MappedInv
<1>3. i = PFN_UP_2MB(PmemSize)
  BY <1>1, <1>2, GuestPages
<1>4. vm'.pmem = vm.pmem
  BY <1>1 DEF VmRecord
<1>5. \A r : \A n \in Pages : Translation(r, n)' = Translation(r, n)
  BY <1>1, SameTables
<1>6. FirstPagesMapped(PFN_UP_2MB(PmemSize))'
  BY <1>1, <1>2, <1>3, <1>4, <1>5 DEF FirstPagesMapped, Promised
<1> QED
  BY <1>1, <1>6 DEF MappedInv, Built

LEMMA StepKeepsMapped ==
  ASSUME GuestFitsInt, VmInv, MappedInv, [Next]_vars
  PROVE  MappedInv'
<1>1. CASE CreateNestedRoot
  BY <1>1, CreateNestedRootMapped
<1>2. CASE create_vm_pmem_mapping_table
  BY <1>2, MappingMapped
<1>3. CASE RunMmap
  BY <1>3, RunMmapMapped
<1>4. CASE MappingTableDone
  BY <1>4, MappingDoneMapped
<1>5. CASE UNCHANGED vars
  BY <1>5, MappedStays DEF vars, pageVars, vmVars
<1>6. CASE Allocate \/ set_state_save_area
  <2>1. UNCHANGED <<tables, pml4s>> /\ pc' \in BeforeTables
    <3>1. CASE Allocate
      <4>1. /\ UNCHANGED <<tables, pml4s>> /\ pc \in DOMAIN Callers
            /\ pc' = Callers[pc].next
        BY <3>1 DEF Allocate
      <4> QED
        BY <4>1, CallerRows DEF BeforeTables, BeforeMemory
    <3>2. CASE set_state_save_area
      BY <3>2 DEF set_state_save_area, pageVars, BeforeTables, BeforeMemory
    <3> QED
      BY <1>6, <3>1, <3>2
  <2> QED
    BY <2>1, MappedStays DEF BeforeTables, BeforeMemory, AfterTables
<1>7. CASE AllocationFails \/ MappingTableFails \/ handle_vmexit
  <2>1. UNCHANGED <<tables, pml4s>> /\ pc' = "dead"
    BY <1>7 DEF AllocationFails, MappingTableFails, OutOfFrames, TableFaults, handle_vmexit, pageVars
  <2> QED
    BY <2>1, MappedStays DEF AfterTables
<1>8. CASE \/ load_elf_image \/ ElfImageLoaded \/ create_temp_page_table
           \/ switch_to_guest_os \/ GuestWrites \/ GuestExits
  <2>1. vm \in VmRecord
    BY DEF VmInv, ProgressInv
  <2>2. /\ UNCHANGED <<tables, pml4s>> /\ pc \in AfterTables
        /\ pc' \in AfterTables \cup {"dead"} /\ vm'.pmem = vm.pmem
    BY <1>8, <2>1 DEF load_elf_image, ElfImageLoaded, create_temp_page_table, switch_to_guest_os,
       GuestWrites, GuestExits, pageVars, AfterTables, VmRecord
  <2> QED
    BY <2>2, MappedStays DEF AfterTables
<1> QED
  BY <1>1, <1>2, <1>3, <1>4, <1>5, <1>6, <1>7, <1>8 DEF Next, BootStep

LEMMA MappedInvAlways ==
  ASSUME MachineIsLargeEnough, GuestFitsInt
  PROVE  Spec => []MappedInv
<1>1. Init => MappedInv
  BY DEF Init, MappedInv, Built
<1>2. VmInv /\ MappedInv /\ [Next]_vars => MappedInv'
  BY StepKeepsMapped
<1> QED
  BY <1>1, <1>2, VmInvAlways, PTL DEF Spec

(***************************************************************************)
(* The guest reaches all the memory it was promised and nothing else, for  *)
(* any size of the tables, the memory and the pool (vm.c:142-168).         *)
(***************************************************************************)
THEOREM MemoryMappedCorrect ==
  ASSUME MachineIsLargeEnough, GuestFitsInt
  PROVE  Spec => []GuestMemoryMapped
<1>1. VmInv /\ MappedInv => GuestMemoryMapped
  <2> SUFFICES ASSUME VmInv, MappedInv, Built, NEW n \in Pages
               PROVE  Translation(vm.h_cr3, n) =
                        IF n * SuperPageSize >= PmemSize THEN {}
                        ELSE {[frame |-> IF n = 0 THEN 0 ELSE (vm.pmem \div SuperPageSize) + n,
                               user |-> TRUE]}
    BY DEF GuestMemoryMapped
  <2>1. vm.h_cr3 \in pml4s
    BY DEF VmInv, ProgressInv
  <2>2. Translation(vm.h_cr3, n) = IF n < PFN_UP_2MB(PmemSize) THEN {Promised(n)} ELSE {}
    BY <2>1 DEF MappedInv, FirstPagesMapped
  <2>3. n * SuperPageSize >= PmemSize <=> ~ (n < PFN_UP_2MB(PmemSize))
    <3> DEFINE N == PFN_UP_2MB(PmemSize)
    <3>1. /\ n \in Nat /\ N \in Nat /\ SuperPageSize \in Nat \ {0}
          /\ PmemSize = SuperPageSize * N
      BY GuestPages DEF Pages
    <3> HIDE DEF N
    <3>2. \A a, b \in Nat, d \in Nat \ {0} : a * d >= d * b <=> ~ (a < b)
      OBVIOUS
    <3>3. n * SuperPageSize >= PmemSize <=> ~ (n < N)
      BY <3>1, <3>2
    <3> QED
      BY <3>3 DEF N
  <2> QED
    BY <2>2, <2>3 DEF Promised, PFN_DOWN_2MB
<1> QED
  BY <1>1, VmInvAlways, MappedInvAlways, PTL

------------------------------------------------------------------------------
(***************************************************************************)
(* The guest starts: the loader, the guest's first page table, the first   *)
(* walk of the guest.                                                      *)
(***************************************************************************)

(* The host's address of a frame of the guest's memory is physical memory. *)
LEMMA GuestFrameInMemory ==
  ASSUME VmInv, pc # "dead", vm.pmem # 0, NEW g \in Nat, g < PmemSize
  PROVE  vm.pmem \in Nat /\ vm.pmem + g \in DOMAIN mem
<1>1. vm.pmem \in Nat /\ DOMAIN mem = 0 .. TopFrame /\ OwnedInv
  BY DEF VmInv, ProgressInv, VmRecord, PhysicalFrames
<1>2. PmemSize \in Nat
  BY GuestPages
<1>3. vm.pmem + g \in Owners["pmem"]
  BY <1>1, <1>2, OwnersAre DEF FramesOf
<1>4. Owners["pmem"] \subseteq GrantedFrames
  BY <1>1, OwnersAre DEF OwnedInv, EveryFrameOwnedOnce, OwnerNames
<1> QED
  BY <1>1, <1>3, <1>4, PoolAboveHeap, VmCreateAssumption

(* The image the loader reads. *)
LEMMA ImageFacts ==
  ASSUME handover \in Handovers, NEW k \in DOMAIN Phdrs
  PROVE  /\ Phdrs[k].p_paddr \in Nat /\ Phdrs[k].p_memsz \in Nat
         /\ Phdrs[k].p_filesz \in Nat /\ Phdrs[k].p_offset \in Nat
         /\ Phdrs[k].p_filesz <= Phdrs[k].p_memsz
         /\ Phdrs[k].p_offset + Phdrs[k].p_filesz <= handover.image.size
         /\ Phdrs[k].p_paddr + Phdrs[k].p_memsz <= PmemSize
         /\ \A j \in 1 .. k - 1 : Target(Phdrs[k]) \cap Target(Phdrs[j]) = {}
         /\ \A g \in Target(Phdrs[k]) : g \in Nat /\ g < PmemSize
         /\ handover.stash \in Nat /\ handover.image.size \in Nat
         /\ DOMAIN Phdrs = 1 .. Len(Phdrs) /\ Len(Phdrs) \in Nat
<1>1. WellFormed(handover.image) /\ handover.stash \in Nat /\ handover.image.size \in Nat
  BY VmCreateAssumption
<1>2. Phdrs \in Seq(Segment)
  BY <1>1 DEF WellFormed, Phdrs
<1>3. Phdrs[k] \in Segment
  BY <1>2
<1>4. /\ Phdrs[k].p_paddr \in Nat /\ Phdrs[k].p_memsz \in Nat
      /\ Phdrs[k].p_filesz \in Nat /\ Phdrs[k].p_offset \in Nat
  BY <1>3 DEF Segment
<1>5. /\ Phdrs[k].p_filesz <= Phdrs[k].p_memsz
      /\ Phdrs[k].p_offset + Phdrs[k].p_filesz <= handover.image.size
      /\ Phdrs[k].p_paddr + Phdrs[k].p_memsz <= PmemSize
      /\ \A j \in 1 .. k - 1 : Target(Phdrs[k]) \cap Target(Phdrs[j]) = {}
  BY <1>1 DEF WellFormed, Phdrs
<1>6. \A g \in Target(Phdrs[k]) : g \in Nat /\ g < PmemSize
  BY <1>4, <1>5, GuestPages DEF Target, FramesOf
<1> QED
  BY <1>1, <1>2, <1>4, <1>5, <1>6

(* What loading a header does to the guest's frame g. *)
LEMMA SegmentInPlace ==
  ASSUME VmInv, pc = "load_elf_image", NEW k \in DOMAIN Phdrs,
         NEW g \in Nat, g < PmemSize,
         mem' = SegmentLoaded(Phdrs[k], vm.pmem + Phdrs[k].p_paddr)
  PROVE  mem'[vm.pmem + g] =
           IF g \in Target(Phdrs[k]) THEN Prescribed(Phdrs[k], g) ELSE mem[vm.pmem + g]
<1> DEFINE ph == Phdrs[k]
           at == ph.p_paddr
           to == vm.pmem + at
           f == vm.pmem + g
           filesz == ph.p_filesz
           memsz == ph.p_memsz
           off == ph.p_offset
<1>1. handover \in Handovers /\ vm.pmem # 0
  BY DEF VmInv, ProgressInv, BeforeMemory
<1>2. /\ at \in Nat /\ memsz \in Nat /\ filesz \in Nat /\ off \in Nat
      /\ filesz <= memsz /\ off + filesz <= handover.image.size
      /\ handover.stash \in Nat /\ handover.image.size \in Nat
  BY <1>1, ImageFacts
<1>3. vm.pmem \in Nat /\ f \in DOMAIN mem
  BY <1>1, GuestFrameInMemory
<1>4. mem'[f] =
        IF f \in FramesOf(to, filesz) THEN mem[handover.stash + off + (f - to)]
        ELSE IF f \in FramesOf(to, memsz) THEN <<"zero">> ELSE mem[f]
  BY <1>3 DEF SegmentLoaded
<1>5. Target(ph) = FramesOf(at, memsz)
  BY DEF Target
<1> HIDE DEF ph, at, filesz, memsz, off
<1>6. /\ f - to = g - at
      /\ f \in FramesOf(to, filesz) <=> (g >= at /\ g - at < filesz)
      /\ f \in FramesOf(to, memsz) <=> g \in FramesOf(at, memsz)
      /\ g \in FramesOf(at, memsz) => g >= at
  BY <1>2, <1>3 DEF FramesOf
<1>7. ASSUME g >= at, g - at < filesz
      PROVE  mem[handover.stash + off + (g - at)] = <<"file", off + (g - at)>>
  <2> DEFINE h == handover.stash + off + (g - at)
  <2>1. g - at \in Nat
    BY <1>2, <1>7
  <2>2. h \in Stash(handover) /\ h - handover.stash = off + (g - at)
    BY <1>2, <1>7, <2>1 DEF Stash, FramesOf
  <2> HIDE DEF h
  <2>3. mem[h] = <<"file", h - handover.stash>>
    BY <2>2 DEF VmInv, VmmIntact
  <2> QED
    BY <2>2, <2>3 DEF h
<1>8. Prescribed(ph, g) =
        IF g - at < filesz THEN <<"file", off + (g - at)>> ELSE <<"zero">>
  BY DEF Prescribed, ph, at, filesz, off
<1>9. filesz <= memsz /\ (g >= at /\ g - at < filesz => g \in FramesOf(at, memsz))
  BY <1>2 DEF FramesOf
<1> HIDE DEF f, to
<1>10. mem'[f] = IF g \in FramesOf(at, memsz) THEN Prescribed(ph, g) ELSE mem[f]
  <2>1. CASE g >= at /\ g - at < filesz
    BY <1>4, <1>6, <1>7, <1>8, <1>9, <2>1
  <2>2. CASE ~ (g >= at /\ g - at < filesz) /\ g \in FramesOf(at, memsz)
    BY <1>4, <1>6, <1>8, <2>2
  <2>3. CASE g \notin FramesOf(at, memsz)
    BY <1>4, <1>6, <1>9, <2>3
  <2> QED
    BY <2>1, <2>2, <2>3
<1> QED
  BY <1>5, <1>10 DEF f, ph

LEMMA LoaderKeepsLoaded ==
  ASSUME VmInv, LoadedInv, load_elf_image
  PROVE  LoadedInv'
<1>1. /\ pc = "load_elf_image" /\ i <= Len(Phdrs) /\ i' = i + 1
      /\ UNCHANGED <<handover, vm>> /\ pc' \in {pc, "dead"}
  BY DEF load_elf_image
<1>2. /\ handover \in Handovers /\ i \in Nat /\ i >= 1 /\ vm.pmem # 0
      /\ Phdrs' = Phdrs /\ Loaded(1 .. i - 1, {})
  BY <1>1 DEF VmInv, ProgressInv, BeforeMemory, Phdrs, LoadedInv
<1>3. CASE pc' = "dead"
  BY <1>3 DEF LoadedInv
<1>4. CASE pc' = "load_elf_image"
  <2>1. i \in DOMAIN Phdrs
    <3>1. DOMAIN Phdrs = 1 .. Len(Phdrs) /\ Len(Phdrs) \in Nat
      BY <1>2, VmCreateAssumption DEF WellFormed, Phdrs
    <3> QED
      BY <1>1, <1>2, <3>1
  <2>2. ASSUME NEW k \in DOMAIN Phdrs, k \in 1 .. i, is_loadable_phdr(Phdrs[k]),
               NEW g \in Target(Phdrs[k])
        PROVE  mem'[vm.pmem + g] = Prescribed(Phdrs[k], g)
    <3>1. g \in Nat /\ g < PmemSize
      BY <1>2, ImageFacts
    <3>2. CASE k = i
      <4>1. mem' = SegmentLoaded(Phdrs[i], vm.pmem + Phdrs[i].p_paddr)
        BY <1>4, <2>2, <3>2 DEF load_elf_image
      <4> QED
        BY <1>1, <2>1, <3>1, <3>2, <4>1, SegmentInPlace
    <3>3. CASE k < i
      <4>1. k \in 1 .. i - 1
        BY <1>2, <2>2, <3>3
      <4>2. mem[vm.pmem + g] = Prescribed(Phdrs[k], g)
        BY <1>2, <2>2, <4>1 DEF Loaded
      <4>3. g \notin Target(Phdrs[i])
        BY <1>2, <2>1, <2>2, <4>1, ImageFacts
      <4>4. mem' = mem \/ mem' = SegmentLoaded(Phdrs[i], vm.pmem + Phdrs[i].p_paddr)
        BY DEF load_elf_image
      <4>5. mem'[vm.pmem + g] = mem[vm.pmem + g]
        BY <1>1, <2>1, <3>1, <4>3, <4>4, SegmentInPlace
      <4> QED
        BY <4>2, <4>5
    <3> QED
      BY <1>2, <2>2, <3>2, <3>3
  <2>3. i' - 1 = i
    BY <1>1, <1>2
  <2>4. \A ph : Target(ph)' = Target(ph)
    BY DEF Target, FramesOf
  <2>5. Loaded(1 .. i - 1, {})'
    BY <1>1, <1>2, <2>2, <2>3, <2>4 DEF Loaded, Prescribed, is_loadable_phdr
  <2> QED
    BY <1>4, <2>5 DEF LoadedInv
<1> QED
  BY <1>1, <1>3, <1>4

LEMMA TempTableKeepsLoaded ==
  ASSUME MachineIsLargeEnough, VmInv, LoadedInv, create_temp_page_table
  PROVE  LoadedInv'
<1>1. /\ pc = "create_temp_page_table" /\ UNCHANGED <<handover, vm>> /\ pc' \in {"vm_boot", "dead"}
  BY DEF create_temp_page_table
<1>2. /\ vm.pmem # 0 /\ vm.cr3 = SuperPageSize + 3 /\ Loaded(DOMAIN Phdrs, {})
      /\ handover \in Handovers /\ Phdrs' = Phdrs
  BY <1>1 DEF VmInv, ProgressInv, BeforeMemory, Phdrs, LoadedInv
<1>3. CASE pc' = "dead"
  BY <1>3 DEF LoadedInv
<1>4. CASE pc' = "vm_boot"
  <2>1. /\ SuperPageSize \in Nat /\ PmemSize \in Nat /\ SuperPageSize + 6 <= PmemSize
    BY GuestPages DEF MachineIsLargeEnough
  <2> DEFINE c == vm.cr3
             b == TempTableBase
  <2>2. vm.pmem \in Nat
    BY <1>1, <1>2, <2>1, GuestFrameInMemory
  <2>3. c \in Nat /\ b = vm.pmem + c /\ c + 3 <= PmemSize
    BY <1>2, <2>1 DEF TempTableBase
  <2>4. mem' = [f \in DOMAIN mem |->
                  IF f \in FramesOf(b, 3) THEN <<"entries", TempTables(c)[f - b + 1]>> ELSE mem[f]]
    BY <1>4 DEF create_temp_page_table
  <2> HIDE DEF c, b
  <2>5. ASSUME NEW j \in 0 .. 2
        PROVE  mem'[b + j] = <<"entries", TempTables(c)[j + 1]>>
    <3>1. c + j \in Nat /\ c + j < PmemSize /\ b + j = vm.pmem + (c + j)
      BY <2>1, <2>2, <2>3
    <3>2. b + j \in DOMAIN mem
      BY <1>1, <1>2, <3>1, GuestFrameInMemory
    <3>3. b + j \in FramesOf(b, 3) /\ (b + j) - b + 1 = j + 1
      BY <2>2, <2>3 DEF FramesOf
    <3> QED
      BY <2>4, <3>2, <3>3
  <2>6. ASSUME NEW k \in DOMAIN Phdrs, is_loadable_phdr(Phdrs[k]),
               NEW g \in Target(Phdrs[k]) \ FramesOf(c, 3)
        PROVE  mem'[vm.pmem + g] = Prescribed(Phdrs[k], g)
    <3>1. g \in Nat /\ g < PmemSize
      BY <1>2, ImageFacts
    <3>2. vm.pmem + g \in DOMAIN mem
      BY <1>1, <1>2, <3>1, GuestFrameInMemory
    <3>3. vm.pmem + g \notin FramesOf(b, 3)
      BY <2>2, <2>3, <2>6, <3>1 DEF FramesOf
    <3>4. mem[vm.pmem + g] = Prescribed(Phdrs[k], g)
      BY <1>2, <2>6 DEF Loaded
    <3> QED
      BY <2>4, <3>2, <3>3, <3>4
  <2>7. \A ph : Target(ph)' = Target(ph)
    BY DEF Target, FramesOf
  <2>8. TempTableFrames' = FramesOf(c, 3) /\ vm'.cr3 = c /\ TempTableBase' = b /\ vm'.pmem = vm.pmem
    BY <1>1 DEF TempTableFrames, TempTableBase, c, b, FramesOf
  <2>9. Loaded(DOMAIN Phdrs, TempTableFrames)'
    BY <1>1, <1>2, <2>6, <2>7, <2>8 DEF Loaded, Prescribed, is_loadable_phdr
  <2>10. \A j \in 0 .. 2 : mem'[TempTableBase' + j] = <<"entries", TempTables(vm'.cr3)[j + 1]>>
    BY <2>5, <2>8
  <2>11. \A x : TempTables(x)' = TempTables(x)
    BY DEF TempTables
  <2> QED
    BY <1>4, <2>9, <2>10, <2>11 DEF LoadedInv
<1> QED
  BY <1>1, <1>3, <1>4

LEMMA StepKeepsLoaded ==
  ASSUME MachineIsLargeEnough, VmInv, LoadedInv, [Next]_vars
  PROVE  LoadedInv'
<1>1. CASE load_elf_image
  BY <1>1, LoaderKeepsLoaded
<1>2. CASE create_temp_page_table
  BY <1>2, TempTableKeepsLoaded
<1>3. CASE MappingTableDone
  <2>1. pc' = "load_elf_image" /\ i' = 1
    BY <1>3 DEF MappingTableDone
  <2>2. Loaded(1 .. i - 1, {})'
    BY <2>1 DEF Loaded
  <2> QED
    BY <2>1, <2>2 DEF LoadedInv
<1>4. CASE ElfImageLoaded
  <2>1. /\ pc = "load_elf_image" /\ pc' = "create_temp_page_table" /\ i > Len(Phdrs)
        /\ vm' = [vm EXCEPT !.rip = handover.image.e_entry]
        /\ UNCHANGED <<pageVars, handover, i, mem>>
    BY <1>4 DEF ElfImageLoaded
  <2>2. /\ vm \in VmRecord /\ handover \in Handovers /\ i \in Nat
        /\ Loaded(1 .. i - 1, {}) /\ Phdrs' = Phdrs
    BY <2>1 DEF VmInv, ProgressInv, LoadedInv, Phdrs
  <2>3. vm'.pmem = vm.pmem
    BY <2>1, <2>2 DEF VmRecord
  <2>4. DOMAIN Phdrs \subseteq 1 .. i - 1
    <3>1. DOMAIN Phdrs = 1 .. Len(Phdrs) /\ Len(Phdrs) \in Nat
      BY <2>2, VmCreateAssumption DEF WellFormed, Phdrs
    <3> QED
      BY <2>1, <2>2, <3>1
  <2>5. \A ph : Target(ph)' = Target(ph)
    BY DEF Target, FramesOf
  <2>6. Loaded(DOMAIN Phdrs, {})'
    BY <2>1, <2>2, <2>3, <2>4, <2>5 DEF Loaded, Prescribed, is_loadable_phdr
  <2> QED
    BY <2>1, <2>6 DEF LoadedInv
<1>5. CASE UNCHANGED vars
  <2>1. UNCHANGED <<pc, handover, i, vm, mem>>
    BY <1>5 DEF vars, vmVars
  <2>2. \A ph : Target(ph)' = Target(ph)
    BY DEF Target, FramesOf
  <2>3. /\ Phdrs' = Phdrs /\ TempTableFrames' = TempTableFrames /\ TempTableBase' = TempTableBase
        /\ TempTables(vm.cr3)' = TempTables(vm.cr3)
    BY <2>1 DEF Phdrs, TempTableFrames, TempTableBase, FramesOf, TempTables
  <2> QED
    BY <2>1, <2>2, <2>3 DEF LoadedInv, Loaded, Prescribed, is_loadable_phdr
<1>6. CASE \/ Allocate \/ AllocationFails \/ set_state_save_area \/ CreateNestedRoot
           \/ create_vm_pmem_mapping_table \/ RunMmap \/ MappingTableFails
           \/ switch_to_guest_os \/ GuestWrites \/ GuestExits \/ handle_vmexit
  <2>1. pc' \notin {"load_elf_image", "create_temp_page_table", "vm_boot"}
    <3>1. CASE Allocate
      <4>1. pc \in DOMAIN Callers /\ pc' = Callers[pc].next
        BY <3>1 DEF Allocate
      <4> QED
        BY <4>1, CallerRows
    <3>2. CASE \/ AllocationFails \/ set_state_save_area \/ CreateNestedRoot
               \/ create_vm_pmem_mapping_table \/ RunMmap \/ MappingTableFails
               \/ switch_to_guest_os \/ GuestWrites \/ GuestExits \/ handle_vmexit
      BY <3>2 DEF AllocationFails, set_state_save_area, CreateNestedRoot, create_vm_pmem_mapping_table,
         RunMmap, MappingTableFails, switch_to_guest_os, GuestWrites, GuestExits, handle_vmexit
    <3> QED
      BY <1>6, <3>1, <3>2
  <2> QED
    BY <2>1 DEF LoadedInv
<1> QED
  BY <1>1, <1>2, <1>3, <1>4, <1>5, <1>6 DEF Next, BootStep

LEMMA LoadedInvAlways ==
  ASSUME MachineIsLargeEnough
  PROVE  Spec => []LoadedInv
<1>1. Init => LoadedInv
  BY DEF Init, LoadedInv
<1>2. VmInv /\ LoadedInv /\ [Next]_vars => LoadedInv'
  BY StepKeepsLoaded
<1> QED
  BY <1>1, <1>2, VmInvAlways, PTL DEF Spec

(* The guest-physical frame g, seen through the nested tables. *)
LEMMA HostFramesAre ==
  ASSUME VmInv, MappedInv, Built, NEW g \in Nat, g < PmemSize
  PROVE  HostFrames(g) = {IF g < SuperPageSize THEN g ELSE vm.pmem + g}
<1> DEFINE S == SuperPageSize
           N == PFN_UP_2MB(PmemSize)
           q == Quot(g, S)
           o == Rem(g, S)
           b == PFN_DOWN_2MB(vm.pmem)
<1>1. /\ S \in Nat \ {0} /\ N \in Nat /\ PmemSize = S * N /\ N <= NrPages /\ NrPages \in Nat \ {0}
  BY GuestPages, Sizes DEF NrPages
<1>2. /\ vm.h_cr3 \in pml4s /\ FirstPagesMapped(N)
      /\ vm.pmem \in Nat /\ vm.pmem % S = 0
  BY DEF VmInv, ProgressInv, VmRecord, PhysicalFrames, MappedInv, Built, BeforeMemory
<1>3. q \in Nat /\ o \in 0 .. S - 1 /\ g = S * q + o
  BY <1>1, QuotRem
<1>4. b \in Nat /\ vm.pmem = S * b
  BY <1>1, <1>2 DEF PFN_DOWN_2MB
<1> HIDE DEF N, q, o, b
<1>5. q < N
  <2>1. \A x, y \in Nat, d \in Nat \ {0} : d * x < d * y => x < y
    OBVIOUS
  <2>2. S * q \in Nat /\ S * q <= g
    BY <1>1, <1>3
  <2>3. S * q < S * N
    BY <1>1, <1>3, <2>2
  <2> QED
    BY <1>1, <1>3, <2>1, <2>3
<1>6. q \in Pages
  BY <1>3, <1>5, GuestPageIsPage DEF N
<1>7. PageOf(g) = q
  <2>1. PageOf(g) = q % NrPages
    BY DEF PageOf, NrPages, q, Quot
  <2> QED
    BY <1>1, <1>3, <1>5, <2>1
<1>8. Translation(vm.h_cr3, PageOf(g)) = {Promised(q)}
  BY <1>2, <1>5, <1>6, <1>7 DEF FirstPagesMapped
<1>9. HostFrames(g) = {Promised(q).frame * S + o}
  <2>1. Promised(q).user = TRUE
    BY DEF Promised
  <2>2. {t \in Translation(vm.h_cr3, PageOf(g)) : t.user} = {Promised(q)}
    BY <1>8, <2>1
  <2> QED
    BY <2>2 DEF HostFrames, o, Rem
<1>10. CASE q = 0
  <2>1. Promised(q).frame = 0
    BY <1>10 DEF Promised
  <2> QED
    BY <1>1, <1>3, <1>9, <1>10, <2>1
<1>11. CASE q # 0
  <2>1. Promised(q).frame = b + q
    BY <1>11 DEF Promised, b
  <2>2. (b + q) * S + o = vm.pmem + g
    BY <1>1, <1>3, <1>4
  <2>3. g >= S
    <3>1. S * q >= S
      BY <1>1, <1>3, <1>11
    <3> QED
      BY <1>1, <1>3, <3>1
  <2> QED
    BY <1>1, <1>9, <2>1, <2>2, <2>3
<1> QED
  BY <1>10, <1>11

(* The guest has at least two pages, and its page directories two entries. *)
LEMMA TwoPages ==
  ASSUME MachineIsLargeEnough
  PROVE  2 * SuperPageSize <= PmemSize /\ TableSize >= 2 /\ TableSize \in Nat
<1> DEFINE S == SuperPageSize
           N == PFN_UP_2MB(PmemSize)
<1>1. /\ S \in Nat \ {0} /\ N \in Nat /\ PmemSize = S * N
      /\ N <= TableSize * TableSize * TableSize /\ TableSize \in Nat \ {0}
  BY GuestPages, Sizes DEF NrPages
<1>2. S + 6 <= S * N
  BY <1>1 DEF MachineIsLargeEnough
<1> HIDE DEF N
<1>3. N # 0 /\ N # 1
  BY <1>1, <1>2
<1>4. N >= 2
  BY <1>1, <1>3
<1>5. S * 2 <= S * N
  BY <1>1, <1>4
<1>6. TableSize # 1
  BY <1>1, <1>4
<1> QED
  BY <1>1, <1>5, <1>6

(* The entries of the guest's first 4 Mbytes. *)
LEMMA GuestIndices ==
  ASSUME MachineIsLargeEnough, NEW v \in 0 .. 2 * SuperPageSize - 1
  PROVE  /\ get_index(v, PGT_LEVEL_PML4) = 0 /\ get_index(v, PGT_LEVEL_PDP) = 0
         /\ get_index(v, PGT_LEVEL_PD) \in {0, 1}
         /\ get_index(v, PGT_LEVEL_PD) * SuperPageSize + (v % SuperPageSize) = v
         /\ 0 \in Index /\ 1 \in Index
<1> DEFINE S == SuperPageSize
           T == TableSize
           q == Quot(v, S)
           o == Rem(v, S)
<1>1. S \in Nat \ {0} /\ T \in Nat /\ T >= 2
  BY Sizes, TwoPages
<1>2. v \in Nat /\ v < 2 * S
  BY <1>1
<1>3. q \in Nat /\ o \in 0 .. S - 1 /\ v = S * q + o
  BY <1>1, <1>2, QuotRem
<1> HIDE DEF q, o
<1>4. q \in {0, 1}
  <2>1. \A x \in Nat, d \in Nat \ {0} : d * x < 2 * d => x < 2
    OBVIOUS
  <2>2. S * q \in Nat /\ S * q <= v
    BY <1>1, <1>3
  <2>3. S * q < 2 * S
    BY <1>1, <1>2, <2>2
  <2>4. q < 2
    BY <1>1, <1>3, <2>1, <2>3
  <2> QED
    BY <1>3, <2>4
<1>5. /\ Quot(0, T) = 0 /\ Quot(1, T) = 0 /\ Rem(0, T) = 0 /\ Rem(1, T) = 1
  BY <1>1 DEF Quot, Rem
<1>6. \A level \in Levels : get_index(v, level) = Slot(q, level)
  BY <1>2, IndexOfPage DEF q
<1>7. /\ get_index(v, PGT_LEVEL_PML4) = Slot(q, PGT_LEVEL_PML4)
      /\ get_index(v, PGT_LEVEL_PDP) = Slot(q, PGT_LEVEL_PDP)
      /\ get_index(v, PGT_LEVEL_PD) = Slot(q, PGT_LEVEL_PD)
  BY <1>6 DEF Levels
<1>8. /\ Slot(q, PGT_LEVEL_PML4) = 0 /\ Slot(q, PGT_LEVEL_PDP) = 0 /\ Slot(q, PGT_LEVEL_PD) = q
  BY <1>4, <1>5 DEF Slot, PGT_LEVEL_PML4, PGT_LEVEL_PDP, PGT_LEVEL_PD
<1>9. q * S + (v % S) = v
  BY <1>1, <1>3 DEF o, Rem
<1> QED
  BY <1>1, <1>4, <1>7, <1>8, <1>9 DEF Index

(* The guest's first page table, read through the nested tables. *)
LEMMA GuestEntriesAre ==
  ASSUME MachineIsLargeEnough, VmInv, MappedInv, LoadedInv, pc = "vm_boot", NEW j \in 0 .. 2,
         NEW v, NEW level
  PROVE  GuestEntries(vm.cr3 + j, v, level) =
           {e \in {TempTables(vm.cr3)[j + 1][get_index(v, level)]} : entry_is_present(e)}
<1> DEFINE g == vm.cr3 + j
           x == <<"entries", TempTables(vm.cr3)[j + 1]>>
<1>1. Built /\ vm.cr3 = SuperPageSize + 3 /\ vm.pmem \in Nat /\ vm.cr3 \in Nat
  BY DEF Built, VmInv, ProgressInv, BeforeMemory, VmRecord, PhysicalFrames
<1>2. SuperPageSize \in Nat /\ PmemSize \in Nat /\ SuperPageSize + 6 <= PmemSize
  BY GuestPages DEF MachineIsLargeEnough
<1>3. g \in Nat /\ g < PmemSize /\ g >= SuperPageSize
  BY <1>1, <1>2
<1>4. HostFrames(g) = {vm.pmem + g}
  BY <1>1, <1>2, <1>3, HostFramesAre
<1>5. mem[vm.pmem + g] = x
  <2>1. mem[TempTableBase + j] = x
    BY DEF LoadedInv
  <2>2. TempTableBase + j = vm.pmem + g
    BY <1>1 DEF TempTableBase
  <2> QED
    BY <2>1, <2>2
<1>6. x[1] = "entries" /\ x[2] = TempTables(vm.cr3)[j + 1]
  OBVIOUS
<1> HIDE DEF x
<1>7. {h \in HostFrames(g) : mem[h][1] = "entries"} = {vm.pmem + g}
  BY <1>4, <1>5, <1>6
<1>8. {mem[f][2][get_index(v, level)] : f \in {h \in HostFrames(g) : mem[h][1] = "entries"}} =
        {TempTables(vm.cr3)[j + 1][get_index(v, level)]}
  BY <1>5, <1>6, <1>7
<1> QED
  BY <1>8 DEF GuestEntries

(* The guest's first walks lead where they should. *)
LEMMA GuestWalksStraight ==
  ASSUME MachineIsLargeEnough, VmInv, MappedInv, LoadedInv, pc = "vm_boot",
         NEW v \in 0 .. 2 * SuperPageSize - 1
  PROVE  GuestWalk(v) = {v}
<1> DEFINE c == vm.cr3
           link(to) == [base |-> to, flags |-> {"PRESENT", "RW"}]
           page(n) == [base |-> n, flags |-> {"PRESENT", "RW", "PAGE_SIZE"}]
           q == get_index(v, PGT_LEVEL_PD)
<1>1. /\ get_index(v, PGT_LEVEL_PML4) = 0 /\ get_index(v, PGT_LEVEL_PDP) = 0
      /\ q \in {0, 1} /\ q * SuperPageSize + (v % SuperPageSize) = v
      /\ 0 \in Index /\ 1 \in Index
  BY GuestIndices
<1>2. /\ TempTables(c)[1] = [ClearTable EXCEPT ![0] = link(c + 1)]
      /\ TempTables(c)[2] = [ClearTable EXCEPT ![0] = link(c + 2)]
      /\ TempTables(c)[3] = [ClearTable EXCEPT ![0] = page(0), ![1] = page(1)]
  BY DEF TempTables
<1>3. DOMAIN ClearTable = Index
  BY DEF ClearTable
<1>4. /\ \A n : entry_is_present(link(n)) /\ link(n).base = n
      /\ \A n : entry_is_present(page(n)) /\ page(n).base = n
  BY DEF entry_is_present
<1> HIDE DEF link, page
<1>5. /\ TempTables(c)[1][0] = link(c + 1) /\ TempTables(c)[2][0] = link(c + 2)
      /\ TempTables(c)[3][0] = page(0) /\ TempTables(c)[3][1] = page(1)
  BY <1>1, <1>2, <1>3
<1>6. TempTables(c)[3][q] = page(q)
  BY <1>1, <1>5
<1>7. c \in Nat
  BY DEF VmInv, ProgressInv, VmRecord, PhysicalFrames
<1> HIDE DEF c, q
<1>8. GuestEntries(c, v, PGT_LEVEL_PML4) = {link(c + 1)}
  <2>1. GuestEntries(c + 0, v, PGT_LEVEL_PML4) = {e \in {TempTables(c)[0 + 1][0]} : entry_is_present(e)}
    BY <1>1, GuestEntriesAre DEF c
  <2> QED
    BY <1>4, <1>5, <1>7, <2>1
<1>9. GuestEntries(c + 1, v, PGT_LEVEL_PDP) = {link(c + 2)}
  <2>1. GuestEntries(c + 1, v, PGT_LEVEL_PDP) = {e \in {TempTables(c)[1 + 1][0]} : entry_is_present(e)}
    BY <1>1, GuestEntriesAre DEF c
  <2> QED
    BY <1>4, <1>5, <2>1
<1>10. GuestEntries(c + 2, v, PGT_LEVEL_PD) = {page(q)}
  <2>1. GuestEntries(c + 2, v, PGT_LEVEL_PD) = {e \in {TempTables(c)[2 + 1][q]} : entry_is_present(e)}
    BY GuestEntriesAre DEF c, q
  <2> QED
    BY <1>4, <1>6, <2>1
<1> DEFINE top == GuestEntries(c, v, PGT_LEVEL_PML4)
           mid == UNION {GuestEntries(e.base, v, PGT_LEVEL_PDP) : e \in top}
           low == UNION {GuestEntries(e.base, v, PGT_LEVEL_PD) : e \in mid}
<1>11. GuestWalk(v) = {e.base * SuperPageSize + (v % SuperPageSize) : e \in low}
  BY DEF GuestWalk, c
<1>12. mid = {link(c + 2)}
  BY <1>4, <1>8, <1>9
<1>13. low = {page(q)}
  <2> HIDE DEF mid
  <2> QED
    BY <1>4, <1>10, <1>12
<1> HIDE DEF low
<1> QED
  BY <1>1, <1>4, <1>11, <1>13 DEF q

(* With the map complete and the image loaded, the guest can start. *)
LEMMA InvStarts ==
  ASSUME MachineIsLargeEnough, VmInv, MappedInv, LoadedInv
  PROVE  GuestStarts
<1> SUFFICES ASSUME VmInv, MappedInv, LoadedInv, pc = "vm_boot"
             PROVE  GuestCanStart /\ SegmentsInPlace
  BY DEF GuestStarts
<1>1. Built /\ vm.rip \in Nat /\ handover \in Handovers /\ vm.pmem # 0
  BY DEF Built, VmInv, ProgressInv, VmRecord, BeforeMemory
<1>2. SuperPageSize \in Nat /\ PmemSize \in Nat /\ 2 * SuperPageSize <= PmemSize
  BY GuestPages, TwoPages
<1>3. ASSUME vm.rip < 2 * SuperPageSize
      PROVE  GuestReads(vm.rip) # {}
  <2>1. vm.rip < PmemSize
    BY <1>1, <1>2, <1>3
  <2>2. HostFrames(vm.rip) # {}
    BY <1>1, <2>1, HostFramesAre
  <2> QED
    BY <2>2 DEF GuestReads
<1>4. GuestCanStart
  BY <1>3, GuestWalksStraight DEF GuestCanStart
<1>5. ASSUME NEW k \in DOMAIN Phdrs, is_loadable_phdr(Phdrs[k]),
             NEW g \in Target(Phdrs[k]), g \in SuperPageSize .. PmemSize - 1,
             g \notin TempTableFrames
      PROVE  GuestReads(g) = {Prescribed(Phdrs[k], g)}
  <2>1. g \in Nat /\ g < PmemSize /\ ~ (g < SuperPageSize)
    BY <1>2, <1>5
  <2>2. HostFrames(g) = {vm.pmem + g}
    BY <1>1, <2>1, HostFramesAre
  <2>3. mem[vm.pmem + g] = Prescribed(Phdrs[k], g)
    BY <1>5 DEF LoadedInv, Loaded
  <2> QED
    BY <2>2, <2>3 DEF GuestReads
<1>6. SegmentsInPlace
  BY <1>5 DEF SegmentsInPlace, AsPrescribed
<1> QED
  BY <1>4, <1>6

(***************************************************************************)
(* When the guest starts it finds its first instruction, its first page    *)
(* table and its image, for every image and every size of its memory       *)
(* (elf.c:20-53, vm.c:107-108, 170-233).                                   *)
(***************************************************************************)
THEOREM GuestStartsCorrect ==
  ASSUME MachineIsLargeEnough, GuestFitsInt
  PROVE  Spec => []GuestStarts
<1>1. VmInv /\ MappedInv /\ LoadedInv => GuestStarts
  BY InvStarts
<1> QED
  BY <1>1, VmInvAlways, MappedInvAlways, LoadedInvAlways, PTL

------------------------------------------------------------------------------
(* The guest's memory is the lowest run that would do: the frames that leave the
   pool later cannot make another one lower. *)
RoomInv ==
  pc # "dead" /\ vm.pmem # 0 =>
    \A g \in Nat :
      g % SuperPageSize = 0 /\ FramesOf(g, PmemSize) \subseteq pool \cup GuestMemory =>
        vm.pmem <= g

(* A grant is the lowest that fits, and nothing enters the pool. *)
LEMMA GrantIsLowest ==
  ASSUME NEW f \in pool, NEW nr, NEW align, Allocator!GrantRun(f, nr, align)
  PROVE  /\ pool' = pool \ FramesOf(f, nr)
         /\ \A g \in pool : g < f => ~ (g % align = 0 /\ FramesOf(g, nr) \subseteq pool)
BY DEF Allocator!GrantRun, Allocator!Fits, FramesOf

(* The first frame of a run is one of its frames. *)
LEMMA FirstOfRun ==
  ASSUME NEW g \in Nat, NEW nr \in Nat \ {0}
  PROVE  g \in FramesOf(g, nr)
BY DEF FramesOf

(* Only the guest's own allocation sets vm.pmem, and the pool never grows. *)
LEMMA StepKeepsRoom ==
  ASSUME MachineIsLargeEnough, VmInv, RoomInv, [Next]_vars
  PROVE  RoomInv'
<1>1. vm \in VmRecord /\ OwnedInv
  BY DEF VmInv, ProgressInv
<1>2. CASE Allocate /\ pc = "alloc_vm_pmem"
  <2>1. PICK f \in pool :
          /\ Allocator!GrantRun(f, PmemSize, SuperPageSize)
          /\ vm' = [vm EXCEPT !.pmem = f]
    BY <1>2, CallerRows DEF Allocate
  <2>2. \A x \in pool : x \in Nat
    BY <1>1, <1>2, PoolAboveHeap
  <2>3. vm'.pmem = f
    BY <1>1, <2>1 DEF VmRecord
  <2>4. pool' \cup GuestMemory' \subseteq pool
    <3>1. FramesOf(f, PmemSize) \subseteq pool
      BY <2>1 DEF Allocator!GrantRun, Allocator!Fits, FramesOf
    <3>2. GuestMemory' = FramesOf(f, PmemSize)
      BY <2>3 DEF GuestMemory, FramesOf
    <3> QED
      BY <2>1, <3>1, <3>2, GrantIsLowest
  <2>5. PmemSize \in Nat \ {0}
    BY GuestPages DEF MachineIsLargeEnough
  <2>6. ASSUME NEW g \in Nat, g % SuperPageSize = 0,
               FramesOf(g, PmemSize) \subseteq pool' \cup GuestMemory'
        PROVE  f <= g
    <3>1. FramesOf(g, PmemSize) \subseteq pool /\ g \in pool
      BY <2>4, <2>5, <2>6, FirstOfRun
    <3>2. ~ (g < f)
      BY <2>1, <2>6, <3>1, GrantIsLowest
    <3> QED
      BY <2>2, <3>2
  <2> QED
    BY <2>3, <2>6 DEF RoomInv, FramesOf
<1>3. CASE pc' # "dead" /\ ~ (Allocate /\ pc = "alloc_vm_pmem")
  <2>1. pc # "dead"
    BY <1>3, CallersAre DEF Next, BootStep, Allocate, AllocationFails, set_state_save_area,
       CreateNestedRoot, create_vm_pmem_mapping_table, RunMmap, MappingTableFails,
       MappingTableDone, load_elf_image, ElfImageLoaded, create_temp_page_table,
       switch_to_guest_os, GuestWrites, GuestExits, handle_vmexit, vars, vmVars
  <2>2. vm'.pmem = vm.pmem
    <3>1. CASE Allocate
      <4>1. pc \in DOMAIN Callers /\ pc # "alloc_vm_pmem" /\ \E f \in pool : vm' = [vm EXCEPT ![Callers[pc].to] = f]
        BY <1>3, <3>1 DEF Allocate
      <4>2. Callers[pc].to # "pmem"
        BY <4>1, CallerRows
      <4> QED
        BY <1>1, <4>1, <4>2 DEF VmRecord
    <3>2. CASE set_state_save_area
      BY <1>1, <3>2 DEF set_state_save_area, VmRecord
    <3>3. CASE MappingTableDone
      BY <1>1, <3>3 DEF MappingTableDone, VmRecord
    <3>4. CASE ElfImageLoaded
      BY <1>1, <3>4 DEF ElfImageLoaded, VmRecord
    <3>5. CASE ~ (Allocate \/ set_state_save_area \/ MappingTableDone \/ ElfImageLoaded)
      BY <3>5 DEF Next, BootStep, AllocationFails, CreateNestedRoot, create_vm_pmem_mapping_table,
         RunMmap, MappingTableFails, load_elf_image, create_temp_page_table,
         switch_to_guest_os, GuestWrites, GuestExits, handle_vmexit, vars, vmVars
    <3> QED
      BY <3>1, <3>2, <3>3, <3>4, <3>5
  <2>3. pool' \subseteq pool
    <3>1. CASE Allocate
      BY <3>1, GrantIsLowest DEF Allocate
    <3>2. CASE CreateNestedRoot
      BY <3>2, GrantIsLowest DEF CreateNestedRoot, pml4_table_create, Granted
    <3>3. CASE RunMmap
      BY <3>3, GrantIsLowest DEF RunMmap, PageStep, MapPage, Descend, AddTable, Granted
    <3>4. CASE AllocationFails \/ MappingTableFails
      BY <1>3, <3>4 DEF AllocationFails, MappingTableFails
    <3>5. CASE ~ (Allocate \/ CreateNestedRoot \/ RunMmap \/ AllocationFails \/ MappingTableFails)
      BY <3>5 DEF Next, BootStep, set_state_save_area, create_vm_pmem_mapping_table, mmap,
         MappingTableDone, load_elf_image, ElfImageLoaded, create_temp_page_table,
         switch_to_guest_os, GuestWrites, GuestExits, handle_vmexit, vars, pageVars
    <3> QED
      BY <3>1, <3>2, <3>3, <3>4, <3>5
  <2>4. GuestMemory' = GuestMemory
    BY <2>2 DEF GuestMemory, FramesOf
  <2>5. pool' \cup GuestMemory' \subseteq pool \cup GuestMemory
    BY <2>3, <2>4
  <2>6. ASSUME vm.pmem # 0, NEW g \in Nat, g % SuperPageSize = 0,
               FramesOf(g, PmemSize) \subseteq pool' \cup GuestMemory'
        PROVE  vm.pmem <= g
    <3>1. FramesOf(g, PmemSize) \subseteq pool \cup GuestMemory
      BY <2>5, <2>6
    <3> QED
      BY <2>1, <2>6, <3>1 DEF RoomInv
  <2> QED
    BY <2>2, <2>6 DEF RoomInv, FramesOf
<1>4. CASE pc' = "dead"
  BY <1>4 DEF RoomInv
<1> QED
  BY <1>2, <1>3, <1>4

(* A request that fails had no room below the end of what VIRT reaches. *)
LEMMA RequestFailsWithoutRoom ==
  ASSUME \A x \in pool : x \in Nat, NEW nr \in Nat \ {0}, NEW align,
         \/ Allocator!Exhausted(nr, align)
         \/ \E f \in pool : Allocator!GrantRun(f, nr, align) /\ f + nr > MappedFrames
  PROVE  ~ HasRoom(pool, nr, align)
<1> SUFFICES ASSUME NEW g \in pool, g % align = 0, FramesOf(g, nr) \subseteq pool,
                    g + nr <= MappedFrames
             PROVE  FALSE
  BY DEF HasRoom
<1>1. CASE Allocator!Exhausted(nr, align)
  BY <1>1 DEF Allocator!Exhausted, Allocator!Fits, FramesOf
<1>2. CASE \E f \in pool : Allocator!GrantRun(f, nr, align) /\ f + nr > MappedFrames
  <2>1. PICK f \in pool : Allocator!GrantRun(f, nr, align) /\ f + nr > MappedFrames
    BY <1>2
  <2>2. ~ (g < f)
    BY <2>1, GrantIsLowest
  <2>3. f \in Nat /\ g \in Nat /\ MappedFrames \in Nat
    BY PageTableAssumption
  <2> QED
    BY <2>1, <2>2, <2>3
<1> QED
  BY <1>1, <1>2

(* The guest's memory ends above what VIRT reaches only if there was no lower
   place for it. *)
LEMMA PmemFaultsWithoutRoom ==
  ASSUME MachineIsLargeEnough, VmInv, RoomInv,
         pc \in {"load_elf_image", "create_temp_page_table"},
         NEW first \in Nat, NEW nr \in Nat, first + nr <= PmemSize, PmemFaults(first, nr)
  PROVE  ~ HasRoom(pool \cup Owners.pmem, PmemSize, SuperPageSize)
<1>1. /\ OwnedInv /\ vm \in VmRecord /\ vm.pmem # 0
  BY DEF VmInv, ProgressInv, BeforeMemory
<1>2. Owners.pmem = GuestMemory
  BY <1>1 DEF Owners, GuestMemory
<1>3. vm.pmem \in Nat /\ PmemSize \in Nat \ {0} /\ MappedFrames \in Nat
  BY <1>1, GuestPages, PageTableAssumption DEF VmRecord, PhysicalFrames, MachineIsLargeEnough
<1>4. vm.pmem + PmemSize > MappedFrames
  BY <1>3 DEF PmemFaults
<1>5. \A x \in pool \cup GuestMemory : x \in Nat
  BY <1>1, <1>3, PoolAboveHeap DEF GuestMemory, FramesOf
<1> SUFFICES ASSUME NEW g \in pool \cup GuestMemory, g % SuperPageSize = 0,
                    FramesOf(g, PmemSize) \subseteq pool \cup GuestMemory,
                    g + PmemSize <= MappedFrames
             PROVE  FALSE
  BY <1>2 DEF HasRoom
<1>6. vm.pmem <= g
  BY <1>1, <1>5 DEF RoomInv
<1> QED
  BY <1>3, <1>4, <1>5, <1>6

(* Each step that stops the boot path. *)
LEMMA StepFailsWithoutRoom ==
  ASSUME MachineIsLargeEnough, VmInv, RoomInv, [Next]_vars, pc \in BootPc, pc' = "dead"
  PROVE  NoRoomLeft
<1>1. OwnedInv /\ vm \in VmRecord /\ handover \in Handovers /\ i \in Nat
  BY DEF VmInv, ProgressInv
<1>2. pc # "dead"
  BY CallersAre DEF BootPc
<1>3. \A x \in pool : x \in Nat
  BY <1>1, <1>2, PoolAboveHeap
<1>4. CASE AllocationFails
  <2>1. pc \in DOMAIN Callers
    BY <1>4 DEF AllocationFails
  <2>2. pc \notin {"pml4_table_create", "create_vm_pmem_mapping_table", "load_elf_image",
                   "create_temp_page_table"}
    BY <2>1, CallerRows
  <2>3. PmemSize \in Nat \ {0}
    BY GuestPages DEF MachineIsLargeEnough
  <2>4. Callers[pc].nr \in Nat \ {0}
    BY <2>1, <2>3, CallerRows
  <2>5. \/ Allocator!Exhausted(Callers[pc].nr, Callers[pc].align)
        \/ \E f \in pool : /\ Allocator!GrantRun(f, Callers[pc].nr, Callers[pc].align)
                           /\ f + Callers[pc].nr > MappedFrames
    BY <1>4 DEF AllocationFails, Faults
  <2> QED
    BY <1>3, <2>1, <2>2, <2>4, <2>5, RequestFailsWithoutRoom DEF NoRoomLeft
<1>5. CASE MappingTableFails
  <2>1. /\ pc \in {"pml4_table_create", "create_vm_pmem_mapping_table"}
        /\ \/ Allocator!Exhausted(1, 1)
           \/ \E f \in pool : Allocator!GrantRun(f, 1, 1) /\ f >= MappedFrames
    BY <1>5 DEF MappingTableFails, OutOfFrames, TableFaults, Granted
  <2>2. \A f \in pool : f >= MappedFrames => f + 1 > MappedFrames
    BY <1>3, PageTableAssumption
  <2>3. ~ HasRoom(pool, 1, 1)
    BY <1>3, <2>1, <2>2, RequestFailsWithoutRoom
  <2>4. pc \notin DOMAIN Callers
    BY <2>1, CallerRows
  <2> QED
    BY <2>1, <2>3, <2>4 DEF NoRoomLeft
<1>6. CASE load_elf_image
  <2>1. /\ pc = "load_elf_image" /\ i <= Len(Phdrs)
        /\ PmemFaults(Phdrs[i].p_paddr, Phdrs[i].p_memsz)
    BY <1>2, <1>6 DEF load_elf_image
  <2>2. i \in DOMAIN Phdrs
    <3>1. Phdrs \in Seq(Segment)
      BY <1>1, VmCreateAssumption DEF WellFormed, Phdrs
    <3>2. i >= 1
      BY <2>1 DEF VmInv, ProgressInv
    <3> QED
      BY <1>1, <2>1, <3>1, <3>2
  <2>3. /\ Phdrs[i].p_paddr \in Nat /\ Phdrs[i].p_memsz \in Nat
        /\ Phdrs[i].p_paddr + Phdrs[i].p_memsz <= PmemSize
    BY <1>1, <2>2, ImageFacts
  <2>4. pc \notin DOMAIN Callers
    BY <2>1, CallerRows
  <2> QED
    BY <2>1, <2>3, <2>4, PmemFaultsWithoutRoom DEF NoRoomLeft
<1>7. CASE create_temp_page_table
  <2>1. pc = "create_temp_page_table" /\ PmemFaults(vm.cr3, 3)
    BY <1>7 DEF create_temp_page_table
  <2>2. vm.cr3 = SuperPageSize + 3
    BY <2>1 DEF VmInv, ProgressInv, BeforeMemory
  <2>3. vm.cr3 \in Nat /\ vm.cr3 + 3 <= PmemSize
    BY <2>2, GuestPages DEF MachineIsLargeEnough
  <2>4. pc \notin DOMAIN Callers
    BY <2>1, CallerRows
  <2> QED
    BY <2>1, <2>3, <2>4, PmemFaultsWithoutRoom DEF NoRoomLeft
<1>8. CASE ~ (AllocationFails \/ MappingTableFails \/ load_elf_image \/ create_temp_page_table)
  BY <1>2, <1>8, CallerRows, CallersAre DEF BootPc, Next, BootStep, Allocate, set_state_save_area,
     CreateNestedRoot, create_vm_pmem_mapping_table, RunMmap, MappingTableDone, ElfImageLoaded,
     switch_to_guest_os, GuestWrites, GuestExits, handle_vmexit, vars, vmVars
<1> QED
  BY <1>4, <1>5, <1>6, <1>7, <1>8

(***************************************************************************)
(* The construction is abandoned only when the machine has no room below   *)
(* 1 GB for what is asked for, or for the guest's memory as a whole, for   *)
(* every pool setup_arch may leave and every image (page.c:10-13,          *)
(* vm.c:16-38, 122-128, elf.c:40-47).                                      *)
(***************************************************************************)
THEOREM FailsOnlyWithoutRoomCorrect ==
  ASSUME MachineIsLargeEnough
  PROVE  Spec => FailsOnlyWithoutRoom
<1>1. Init => RoomInv
  BY DEF Init, NewVm, RoomInv
<1>2. VmInv /\ RoomInv /\ [Next]_vars => RoomInv'
  BY StepKeepsRoom
<1>3. VmInv /\ RoomInv /\ [Next]_vars => [(pc \in BootPc /\ pc' = "dead") => NoRoomLeft]_vars
  BY StepFailsWithoutRoom
<1> QED
  BY <1>1, <1>2, <1>3, VmInvAlways, PTL DEF Spec, FailsOnlyWithoutRoom

------------------------------------------------------------------------------
(* What VmInv does not say of the types: the allocator's runs, also after a
   failure, and the names of modes and functions. *)
TypeInv ==
  /\ Allocator!TypeOK
  /\ mode \in {"idle", "mmap", "dead"}
  /\ pc \in BootPc \cup {"guest", "handle_vmexit", "dead"}

LEMMA GrantTyped ==
  ASSUME Allocator!TypeOK, NEW f \in pool, NEW nr \in Nat \ {0}, NEW align,
         Allocator!GrantRun(f, nr, align)
  PROVE  (Allocator!TypeOK)'
<1>1. pool \subseteq Nat /\ grants \in Seq([first : Nat, nr : Nat \ {0}])
  BY DEF Allocator!TypeOK
<1>2. pool' \subseteq Nat /\ grants' = Append(grants, [first |-> f, nr |-> nr])
  BY <1>1 DEF Allocator!GrantRun
<1>3. [first |-> f, nr |-> nr] \in [first : Nat, nr : Nat \ {0}]
  BY <1>1
<1>4. grants' \in Seq([first : Nat, nr : Nat \ {0}])
  BY <1>1, <1>2, <1>3
<1> QED
  BY <1>2, <1>4 DEF Allocator!TypeOK

LEMMA StepKeepsTypes ==
  ASSUME MachineIsLargeEnough, TypeInv, [Next]_vars
  PROVE  TypeInv'
<1>1. Allocator!TypeOK
  BY DEF TypeInv
<1>2. PmemSize \in Nat \ {0}
  BY GuestPages DEF MachineIsLargeEnough
<1>3. \A x \in DOMAIN Callers : Callers[x].nr \in Nat \ {0} /\ Callers[x].next \in BootPc
  BY <1>2, CallerRows DEF BootPc
<1>4. CASE Allocate
  <2>1. /\ pc \in DOMAIN Callers /\ UNCHANGED mode /\ pc' = Callers[pc].next
        /\ \E f \in pool : Allocator!GrantRun(f, Callers[pc].nr, Callers[pc].align)
    BY <1>4 DEF Allocate
  <2>2. (Allocator!TypeOK)'
    BY <1>1, <1>3, <2>1, GrantTyped
  <2> QED
    BY <1>3, <2>1, <2>2 DEF TypeInv
<1>5. CASE AllocationFails
  <2>1. /\ pc \in DOMAIN Callers /\ UNCHANGED mode /\ pc' = "dead"
        /\ \/ UNCHANGED <<pool, grants>>
           \/ \E f \in pool : Allocator!GrantRun(f, Callers[pc].nr, Callers[pc].align)
    BY <1>5 DEF AllocationFails
  <2>2. (Allocator!TypeOK)'
    <3>1. CASE UNCHANGED <<pool, grants>>
      BY <1>1, <3>1 DEF Allocator!TypeOK
    <3>2. CASE \E f \in pool : Allocator!GrantRun(f, Callers[pc].nr, Callers[pc].align)
      BY <1>1, <1>3, <2>1, <3>2, GrantTyped
    <3> QED
      BY <2>1, <3>1, <3>2
  <2> QED
    BY <2>1, <2>2 DEF TypeInv
<1>6. CASE CreateNestedRoot
  <2>1. /\ UNCHANGED mode /\ pc' = "create_vm_pmem_mapping_table" /\ \E f \in pool : Granted(f)
    BY <1>6 DEF CreateNestedRoot, pml4_table_create
  <2>2. (Allocator!TypeOK)'
    BY <1>1, <2>1, GrantTyped DEF Granted
  <2> QED
    BY <2>1, <2>2 DEF TypeInv, BootPc
<1>7. CASE RunMmap
  <2>1. UNCHANGED pc /\ mode' \in {mode, "idle"}
    BY <1>7 DEF RunMmap, PageStep, MapPage, Descend, AddTable
  <2>2. UNCHANGED <<pool, grants>> \/ \E f \in pool : Granted(f)
    BY <1>7 DEF RunMmap, PageStep, MapPage, Descend, AddTable
  <2>3. (Allocator!TypeOK)'
    <3>1. CASE UNCHANGED <<pool, grants>>
      BY <1>1, <3>1 DEF Allocator!TypeOK
    <3>2. CASE \E f \in pool : Granted(f)
      BY <1>1, <3>2, GrantTyped DEF Granted
    <3> QED
      BY <2>2, <3>1, <3>2
  <2> QED
    BY <2>1, <2>3 DEF TypeInv
<1>8. CASE MappingTableFails
  <2>1. mode' = "dead" /\ pc' = "dead"
    BY <1>8 DEF MappingTableFails, OutOfFrames, TableFaults
  <2>2. UNCHANGED <<pool, grants>> \/ \E f \in pool : Granted(f)
    BY <1>8 DEF MappingTableFails, OutOfFrames, TableFaults
  <2>3. (Allocator!TypeOK)'
    <3>1. CASE UNCHANGED <<pool, grants>>
      BY <1>1, <3>1 DEF Allocator!TypeOK
    <3>2. CASE \E f \in pool : Granted(f)
      BY <1>1, <3>2, GrantTyped DEF Granted
    <3> QED
      BY <2>2, <3>1, <3>2
  <2> QED
    BY <2>1, <2>3 DEF TypeInv
<1>9. CASE \/ set_state_save_area \/ create_vm_pmem_mapping_table \/ MappingTableDone
           \/ load_elf_image \/ ElfImageLoaded \/ create_temp_page_table \/ switch_to_guest_os
           \/ GuestWrites \/ GuestExits \/ handle_vmexit \/ UNCHANGED vars
  <2>1. UNCHANGED <<pool, grants>> /\ mode' \in {mode, "mmap"}
    BY <1>9 DEF set_state_save_area, create_vm_pmem_mapping_table, mmap, MappingTableDone,
       load_elf_image, ElfImageLoaded, create_temp_page_table, switch_to_guest_os,
       GuestWrites, GuestExits, handle_vmexit, vars, pageVars
  <2>2. pc' \in {pc, "alloc_vm_pmem", "load_elf_image", "create_temp_page_table", "vm_boot", "guest",
                 "handle_vmexit", "dead"}
    BY <1>9 DEF set_state_save_area, create_vm_pmem_mapping_table, MappingTableDone,
       load_elf_image, ElfImageLoaded, create_temp_page_table, switch_to_guest_os,
       GuestWrites, GuestExits, handle_vmexit, vars, vmVars
  <2>3. (Allocator!TypeOK)'
    BY <1>1, <2>1 DEF Allocator!TypeOK
  <2>4. "alloc_vm_pmem" \in BootPc
    BY CallerRows DEF BootPc
  <2> QED
    BY <2>1, <2>2, <2>3, <2>4 DEF TypeInv, BootPc
<1> QED
  BY <1>4, <1>5, <1>6, <1>7, <1>8, <1>9 DEF Next, BootStep

(***************************************************************************)
(* Every variable keeps its type from setup_arch's pool to the guest's     *)
(* last instruction, also when a step of vm_create fails; every frame that *)
(* vm_create computes is one of physical memory, CR3 included although it  *)
(* names a frame of the guest's (vm.c:16-62, 107-108).                     *)
(***************************************************************************)
THEOREM VmTypeCorrect ==
  ASSUME MachineIsLargeEnough
  PROVE  Spec => []TypeOK
<1>1. Init => TypeInv
  <2> SUFFICES ASSUME Init PROVE TypeInv
    OBVIOUS
  <2>1. pool \in Pools /\ grants = << >> /\ mode = "idle" /\ pc = "alloc_host_save_area"
    BY DEF Init, PageInit
  <2>2. pool \subseteq Nat
    BY <2>1, PageTableAssumption
  <2>3. "alloc_host_save_area" \in BootPc
    BY CallerRows DEF BootPc
  <2> QED
    BY <2>1, <2>2, <2>3 DEF TypeInv, Allocator!TypeOK
<1>2. TypeInv /\ [Next]_vars => TypeInv'
  BY StepKeepsTypes
<1>3. VmInv /\ TypeInv => TypeOK
  <2> SUFFICES ASSUME VmInv, TypeInv PROVE TypeOK
    OBVIOUS
  <2>1. /\ DOMAIN tables \subseteq Nat /\ tables \in [DOMAIN tables -> [Index -> Entry]]
        /\ pml4s \subseteq DOMAIN tables /\ walk \in WalkType
    BY DEF VmInv, TablesInv, TreeInv
  <2>2. PageTypeOK
    BY <2>1 DEF TypeInv, PageTypeOK, WalkType, Levels
  <2>3. vm \in VmRecord /\ handover \in Handovers /\ i \in Nat /\ DOMAIN mem = 0 .. TopFrame
    BY DEF VmInv, ProgressInv
  <2>4. /\ DOMAIN vm = {"hsa", "vmcb", "iopm", "msrpm", "pmem", "h_cr3", "cr3", "rip"}
        /\ \A x \in DOMAIN vm \ {"rip"} : vm[x] \in 0 .. TopFrame
        /\ vm.rip \in Nat
    BY <2>3 DEF VmRecord, PhysicalFrames
  <2> QED
    BY <2>2, <2>3, <2>4 DEF TypeInv, TypeOK
<1> QED
  BY <1>1, <1>2, <1>3, VmInvAlways, PTL DEF Spec
===============================================================================
