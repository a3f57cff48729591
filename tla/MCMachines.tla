------------------------------ MODULE MCMachines ------------------------------
(***************************************************************************)
(* Small machines for the runs of MemoryMap and SetupArch: how a sequence  *)
(* of memory map entries becomes the loader's packed area.  PageSize is 2  *)
(* in these runs, so an odd address lies inside a frame.                   *)
(***************************************************************************)
EXTENDS MemoryMap, SequencesExt

Ram(addr, end) == [addr |-> addr, size |-> end - addr, type |-> E820_RAM]
Hole(addr, end) == [addr |-> addr, size |-> end - addr, type |-> E820_RESERVED]

Apart(e, f) == e.addr + e.size <= f.addr \/ f.addr + f.size <= e.addr

(* Every order of up to n entries that do not overlap. *)
LayoutsOf(entries, n) ==
  {s \in UNION {[1 .. m -> entries] : m \in 0 .. n} :
     \A a, b \in DOMAIN s : a # b => Apart(s[a], s[b])}

(* Records of two lengths, as loaders with and without extended attributes write. *)
RecordSize(k) == IF k = 2 THEN 3 ELSE 2

(* The offset of the n-th record. *)
RecordAt(n) == FoldLeft(LAMBDA o, k : o + RecordSize(k) + SizeofSize, 0, [k \in 1 .. n - 1 |-> k])

Area(s) ==
  [o \in {RecordAt(n) : n \in DOMAIN s} |->
     LET n == CHOOSE k \in DOMAIN s : RecordAt(k) = o IN
     [rsize |-> RecordSize(n), addr |-> s[n].addr, size |-> s[n].size, type |-> s[n].type]]

Info(s, flags, mods, size) ==
  [flags |-> flags, mmap |-> Area(s), mmap_length |-> RecordAt(Len(s) + 1),
   mods_count |-> mods, mod_size |-> size]

Both == {"MBI_MEMMAP", "MBI_MODULES"}
===============================================================================
