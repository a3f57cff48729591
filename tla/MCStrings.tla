------------------------------- MODULE MCStrings -------------------------------
(***************************************************************************)
(* Nine bytes.  For the moves, bytes that are told apart, and lengths that *)
(* leave every remainder behind a double word; for the comparisons, all    *)
(* strings of up to three of the bytes whose difference is least and       *)
(* greatest.                                                               *)
(***************************************************************************)
EXTENDS Strings

Distinct == [a \in Addresses |-> a + 1]
Texts == {[a \in Addresses |-> IF a < 3 THEN f[a] ELSE 0] : f \in [0 .. 2 -> {0, 127, -128}]}

MCMemories == {Distinct} \cup Texts
===============================================================================
