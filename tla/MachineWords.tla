----------------------------- MODULE MachineWords -----------------------------
(***************************************************************************)
(* C's integer conversions where the code depends on them.                 *)
(***************************************************************************)
EXTENDS Naturals

CONSTANTS
  IntRange,   \* 2^32: the number of values of an int
  LongRange   \* 2^64: the number of values of an unsigned long

ASSUME MachineWordsAssumption ==
  /\ IntRange \in Nat \ {0}
  /\ LongRange \in Nat /\ LongRange >= IntRange

(* An unsigned long that is stored in an int and read back as an unsigned
   long: the low bits, sign-extended. *)
ThroughInt(x) ==
  LET low == x % IntRange
  IN IF 2 * low < IntRange THEN low ELSE LongRange - IntRange + low
===============================================================================
