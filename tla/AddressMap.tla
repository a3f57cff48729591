------------------------------ MODULE AddressMap ------------------------------
(***************************************************************************)
(* What kernel/page.c promises, with no tables: address spaces, each a     *)
(* partial map from pages to a target.  Mapping a page replaces what the   *)
(* page was mapped to and touches no other page and no other space.        *)
(***************************************************************************)
CONSTANTS
  Pages,    \* the pages of an address space
  Targets,  \* what a page may be mapped to
  Names     \* the names of address spaces

VARIABLE space   \* the address spaces that exist, by name

(* A page maps to the only member of its set, or to nothing. *)
Mapping == {{}} \cup {{t} : t \in Targets}

Init == space = [s \in {} |-> [n \in Pages |-> {}]]

(* pml4_table_create: a new name for an empty space. *)
Create(s) ==
  /\ s \notin DOMAIN space
  /\ space' = [x \in DOMAIN space \cup {s} |->
                 IF x = s THEN [n \in Pages |-> {}] ELSE space[x]]

(* mmap *)
Map(s, n, t) == space' = [space EXCEPT ![s][n] = {t}]

Next ==
  \/ \E s \in Names : Create(s)
  \/ \E s \in DOMAIN space, n \in Pages, t \in Targets : Map(s, n, t)

Spec == Init /\ [][Next]_space

===============================================================================
