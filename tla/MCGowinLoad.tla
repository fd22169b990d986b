---------------------------- MODULE MCGowinLoad ----------------------------
(***************************************************************************)
(* Three chunks, of one, three and two bits; registers of three bits.      *)
(***************************************************************************)
EXTENDS GowinLoad

ThreeEnds == [n \in 0 .. 3 |-> <<0, 1, 4, 6>>[n + 1]]
=============================================================================
