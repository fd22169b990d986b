---------------------------- MODULE MCAzUnits ----------------------------
(***************************************************************************)
(* Small instances of AzUnits: a long image and a short one, one that may  *)
(* only be read.                                                           *)
(***************************************************************************)
EXTENDS AzUnits, TLC

CONSTANTS long, short, u0, u1

TwoUnits == {u0, u1}
TwoImages == {long, short}
Sizes == [f \in Images |-> IF f = long THEN 2 ELSE 1]
ShortReadOnly == [f \in Images |-> IF f = long THEN "rw" ELSE "r"]
UnitsAlike == Permutations(Units)
=============================================================================
