------------------------------ MODULE MCPageTable ------------------------------
(***************************************************************************)
(* Tables of two entries, pages of two bytes: a space has eight pages, and *)
(* a second PML4 table competes with the first for seven frames at most.   *)
(* The virtual addresses share no table, one or two tables, name one page  *)
(* twice, and one (17) lies above the bits that are translated.  One page  *)
(* (40) lies where an int is negative, the others below.  The last frame   *)
(* of one pool is behind the mapped memory.                                *)
(***************************************************************************)
EXTENDS PageTable

MCPools == {{1, 2, 3, 5, 6, 7}, {2, 4, 9}}

MCMappings == {<<0, 10, TRUE>>, <<3, 10, TRUE>>, <<6, 5, TRUE>>,
               <<17, 12, FALSE>>, <<12, 40, FALSE>>}
===============================================================================
