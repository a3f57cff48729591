------------------------------- MODULE PageTable -------------------------------
(***************************************************************************)
(* kernel/page.c: the trees of page tables with 2 MB pages.  A table is    *)
(* named by its frame; mmap walks from a PML4 table down to a page         *)
(* directory, adding the tables that are missing, and vaddr_to_paddr walks *)
(* the same way to read a translation back.                                *)
(*                                                                         *)
(* One step is one invocation of the recursive __mmap.  Nothing runs       *)
(* between the invocations, but alloc_pages may fail in each of them, and  *)
(* then the walk stops for good with the tables half built (mode "dead").  *)
(* Physical addresses stay below 2^52, so the 40 and 31 bits of the two    *)
(* base fields hold them.                                                  *)
(***************************************************************************)
EXTENDS MachineWords, Sequences, FiniteSets

CONSTANTS
  TableSize,      \* entries of a table (512)
  SuperPageSize,  \* PAGE_SIZE_2MB
  MappedFrames,   \* the frames below the 1 GB that VIRT can reach
  Pools,          \* the sets of free frames page.c may start with
  Mappings        \* the <<vaddr, paddr, is_user>> clients pass to mmap

ASSUME PageTableAssumption ==
  /\ TableSize \in Nat \ {0}
  /\ SuperPageSize \in Nat \ {0}
  /\ MappedFrames \in Nat
  /\ Pools \subseteq SUBSET Nat
  /\ Mappings \subseteq Nat \X Nat \X BOOLEAN

VARIABLES
  pool,    \* the frames alloc_pages can still grant
  grants   \* the runs it has granted

Allocator == INSTANCE FrameAllocator WITH Frames <- Nat, Requests <- {<<1, 1>>}

VARIABLES
  tables,  \* frame of a table -> its entries
  pml4s,   \* the tables pml4_table_create has returned
  mode,    \* "idle", "mmap" while __mmap runs, "dead" after a failure
  walk     \* the arguments of the running __mmap; base is the table's frame

pageVars == <<pool, grants, tables, pml4s, mode, walk>>

PGT_LEVEL_PML4 == 4
PGT_LEVEL_PDP == 3
PGT_LEVEL_PD == 2

Flags == {"PRESENT", "RW", "US", "PAGE_SIZE"}
Index == 0 .. TableSize - 1
Entry == [flags : SUBSET Flags, base : Nat]
ClearEntry == [flags |-> {}, base |-> 0]
ClearTable == [x \in Index |-> ClearEntry]

PageInit ==
  /\ pool \in Pools
  /\ grants = << >>
  /\ tables = [f \in {} |-> ClearTable]
  /\ pml4s = {}
  /\ mode = "idle"
  /\ walk = [base |-> 0, vaddr |-> 0, paddr |-> 0, level |-> PGT_LEVEL_PML4, is_user |-> FALSE]

------------------------------------------------------------------------------
\* Faulty form: one shift for both upper levels.
ReachOneShift(level) ==
  IF level = PGT_LEVEL_PD THEN SuperPageSize ELSE SuperPageSize * TableSize * TableSize

(* The bytes one entry of a table of this level translates: 1 << shift. *)
Reach(level) ==
  IF level = PGT_LEVEL_PML4 THEN SuperPageSize * TableSize * TableSize
  ELSE IF level = PGT_LEVEL_PDP THEN SuperPageSize * TableSize
  ELSE SuperPageSize

get_index(vaddr, level) == (vaddr \div Reach(level)) % TableSize
get_entry(base, vaddr, level) == tables[base][get_index(vaddr, level)]
entry_is_present(e) == "PRESENT" \in e.flags

(* pg_table_create: the lowest free frame, cleared through its VIRT address. *)
Granted(f) == Allocator!GrantRun(f, 1, 1)
\* Faulty form: a stale first entry.
NotCleared(f) ==
  [x \in DOMAIN tables \cup {f} |->
     IF x = f THEN [ClearTable EXCEPT ![0] = [flags |-> {"PRESENT"}, base |-> f]] ELSE tables[x]]
Cleared(f) == [x \in DOMAIN tables \cup {f} |-> IF x = f THEN ClearTable ELSE tables[x]]

pml4_table_create ==
  /\ mode = "idle"
  /\ \E f \in pool :
       /\ Granted(f)
       /\ f < MappedFrames
       /\ tables' = Cleared(f)
       /\ pml4s' = pml4s \cup {f}
  /\ UNCHANGED <<mode, walk>>

mmap(pml4, vaddr, paddr, is_user) ==
  /\ mode = "idle"
  /\ mode' = "mmap"
  /\ walk' = [base |-> pml4, vaddr |-> vaddr, paddr |-> paddr,
              level |-> PGT_LEVEL_PML4, is_user |-> is_user]
  /\ UNCHANGED <<pool, grants, tables, pml4s>>

WalkIndex == get_index(walk.vaddr, walk.level)
WalkEntry == get_entry(walk.base, walk.vaddr, walk.level)

(* __mmap at a page directory: write the translation and return. *)
MapPage ==
  /\ mode = "mmap"
  /\ walk.level = PGT_LEVEL_PD
  /\ tables' = [tables EXCEPT ![walk.base][WalkIndex] =
                  [base  |-> walk.paddr \div SuperPageSize,
                   flags |-> {"PRESENT", "RW", "PAGE_SIZE"} \cup
                             (IF walk.is_user THEN {"US"} ELSE {})]]
  /\ mode' = "idle"
  /\ UNCHANGED <<pool, grants, pml4s, walk>>

\* Faulty form: does not advance.
DescendNowhere == mode = "mmap" /\ walk.level # PGT_LEVEL_PD /\ UNCHANGED pageVars

(* __mmap above a page directory: the next table is there. *)
Descend ==
  /\ mode = "mmap"
  /\ walk.level # PGT_LEVEL_PD
  /\ entry_is_present(WalkEntry)
  /\ walk' = [walk EXCEPT !.base = WalkEntry.base, !.level = walk.level - 1]
  /\ UNCHANGED <<pool, grants, tables, pml4s, mode>>

(* __mmap above a page directory: the next table is created, linked, entered. *)
AddTable ==
  /\ mode = "mmap"
  /\ walk.level # PGT_LEVEL_PD
  /\ ~ entry_is_present(WalkEntry)
  /\ \E f \in pool :
       /\ Granted(f)
       /\ f < MappedFrames
       /\ tables' = [Cleared(f) EXCEPT ![walk.base][WalkIndex] =
                       [base |-> f, flags |-> {"PRESENT", "RW", "US"}]]
       /\ walk' = [walk EXCEPT !.base = f, !.level = walk.level - 1]
  /\ UNCHANGED <<pml4s, mode>>

(* The next thing to happen is a call of pg_table_create. *)
NeedsTable ==
  \/ mode = "idle"
  \/ mode = "mmap" /\ walk.level # PGT_LEVEL_PD /\ ~ entry_is_present(WalkEntry)

(* pg_table_create: alloc_pages finds no frame. *)
OutOfFrames ==
  /\ NeedsTable
  /\ Allocator!Exhausted(1, 1)
  /\ mode' = "dead"
  /\ UNCHANGED <<pool, grants, tables, pml4s, walk>>

(* pg_table_create: the memset faults on a frame VIRT does not reach. *)
TableFaults ==
  /\ NeedsTable
  /\ \E f \in pool : Granted(f) /\ f >= MappedFrames
  /\ mode' = "dead"
  /\ UNCHANGED <<tables, pml4s, walk>>

PageStep == MapPage \/ Descend \/ AddTable

PageNext ==
  \/ pml4_table_create
  \/ \E pml4 \in pml4s, m \in Mappings : mmap(pml4, m[1], m[2], m[3])
  \/ PageStep
  \/ OutOfFrames
  \/ TableFaults

PageSpec == PageInit /\ [][PageNext]_pageVars

(* A running __mmap executes its next invocation or fails. *)
FairPageSpec ==
  PageSpec /\ WF_pageVars(PageStep \/ (mode = "mmap" /\ (OutOfFrames \/ TableFaults)))

------------------------------------------------------------------------------
(* The page-directory entry of vaddr, as a set of at most one: walks stop
   with fatal_failure at an entry that is not present. *)
NextTable(base, vaddr, level) ==
  IF entry_is_present(get_entry(base, vaddr, level))
  THEN {get_entry(base, vaddr, level).base} ELSE {}

PdEntries(pml4, vaddr) ==
  {e \in UNION {{get_entry(pd, vaddr, PGT_LEVEL_PD) : pd \in NextTable(pdp, vaddr, PGT_LEVEL_PDP)} :
                pdp \in NextTable(pml4, vaddr, PGT_LEVEL_PML4)} : entry_is_present(e)}

\* Faulty form: drops the offset.
vaddr_to_superpage(pml4, vaddr) ==
  {ThroughInt(e.base * SuperPageSize) :
     e \in {d \in PdEntries(pml4, vaddr) : "PAGE_SIZE" \in d.flags}}

(* base has 31 bits and becomes an int before the shift; {} is fatal_failure. *)
vaddr_to_paddr(pml4, vaddr) ==
  {ThroughInt(e.base * SuperPageSize) + (vaddr % SuperPageSize) :
     e \in {d \in PdEntries(pml4, vaddr) : "PAGE_SIZE" \in d.flags}}

(* What the processor reads from the tables for page n of a space. *)
Pages == 0 .. TableSize * TableSize * TableSize - 1

Translation(pml4, n) ==
  {[frame |-> e.base, user |-> "US" \in e.flags] : e \in PdEntries(pml4, n * SuperPageSize)}

(* The page the index bits of an address select; the bits above are ignored. *)
PageOf(vaddr) == (vaddr \div SuperPageSize) % (TableSize * TableSize * TableSize)

------------------------------------------------------------------------------
(* Every variable keeps the type the code gives it. *)
PageTypeOK ==
  /\ Allocator!TypeOK
  /\ DOMAIN tables \subseteq Nat
  /\ tables \in [DOMAIN tables -> [Index -> Entry]]
  /\ pml4s \subseteq DOMAIN tables
  /\ mode \in {"idle", "mmap", "dead"}
  /\ walk \in [base : Nat, vaddr : Nat, paddr : Nat, is_user : BOOLEAN,
               level : {PGT_LEVEL_PML4, PGT_LEVEL_PDP, PGT_LEVEL_PD}]

(* The links out of a set of tables, and the tables they lead to. *)
Links(from) == {l \in from \X Index : entry_is_present(tables[l[1]][l[2]])}
Linked(from) == {tables[l[1]][l[2]].base : l \in Links(from)}
PdpTables == Linked(pml4s)
PdTables == Linked(PdpTables)

(***************************************************************************)
(* The tables are trees of depth three, one under each PML4 table: the     *)
(* three levels have no table in common, each table below the top has      *)
(* exactly one link to it, only page directories hold translations, and    *)
(* no frame that alloc_pages granted was lost on the way (page.c:54-81).   *)
(***************************************************************************)
TreeShape ==
  /\ Cardinality(PdpTables) = Cardinality(Links(pml4s))
  /\ Cardinality(PdTables) = Cardinality(Links(PdpTables))
  /\ pml4s \cap PdpTables = {} /\ pml4s \cap PdTables = {} /\ PdpTables \cap PdTables = {}
  /\ DOMAIN tables = pml4s \cup PdpTables \cup PdTables
  /\ \A f \in DOMAIN tables : \A x \in Index :
       "PAGE_SIZE" \in tables[f][x].flags => f \in PdTables
  /\ mode # "dead" => DOMAIN tables = {grants[a].first : a \in DOMAIN grants}

(* vaddr_to_paddr answers with the address the tables translate vaddr to,
   offset included. *)
LookupAnswers(pml4, vaddr) ==
  vaddr_to_paddr(pml4, vaddr) =
    {t.frame * SuperPageSize + (vaddr % SuperPageSize) : t \in Translation(pml4, PageOf(vaddr))}

(* The addresses that clients have named, with every offset in their pages. *)
NamedAddresses ==
  {(m[1] \div SuperPageSize) * SuperPageSize + offset :
     m \in Mappings, offset \in 0 .. SuperPageSize - 1}

FitsInt(x) == 2 * x < IntRange

(***************************************************************************)
(* A lookup agrees with the tables, through three levels and whatever the  *)
(* bits of vaddr above the indices are, for each page that lies below      *)
(* 2^31: there the int that the base field becomes holds its address       *)
(* (page.c:91-119).                                                        *)
(***************************************************************************)
LookupAgrees ==
  \A pml4 \in pml4s : \A vaddr \in NamedAddresses :
    (\A t \in Translation(pml4, PageOf(vaddr)) : FitsInt(t.frame * SuperPageSize))
      => LookupAnswers(pml4, vaddr)

(* mmap returns, or the machine stops: the recursion ends at the page
   directory whatever the tables hold (page.c:54-81). *)
MmapEnds == mode = "mmap" ~> mode \in {"idle", "dead"}

MapTargets == [frame : {m[2] \div SuperPageSize : m \in Mappings}, user : BOOLEAN]

AbstractMap ==
  INSTANCE AddressMap
    WITH Names <- UNION Pools, Targets <- MapTargets,
         space <- [r \in pml4s |-> [n \in Pages |-> Translation(r, n)]]

(***************************************************************************)
(* The tables implement address spaces: an mmap changes the translation of *)
(* its own page in its own space, in one step, when its page directory is  *)
(* written; adding a table changes no translation (page.c:18-87).          *)
(***************************************************************************)
ImplementsAddressMap == AbstractMap!Spec
===============================================================================
