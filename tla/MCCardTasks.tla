---------------------------- MODULE MCCardTasks ----------------------------
(***************************************************************************)
(* Small instances of CardTasks: three cores, one of which fills its last  *)
(* block only in part and one of which is too large for the slot.          *)
(***************************************************************************)
EXTENDS CardTasks

CONSTANTS evo, korvet, bk, a, b

ThreeCores == {evo, korvet, bk}
Sizes == [c \in Cores |-> CASE c = evo -> 3 [] c = korvet -> 2 [] c = bk -> 5]
TwoImages == {a, b}
=============================================================================
