----------------------------- MODULE MCVsdCard -----------------------------
(***************************************************************************)
(* Small cards for VsdCard: four to six clusters, /evo/SD at cluster 2, the*)
(* settings file at cluster 3.                                             *)
(***************************************************************************)
EXTENDS VsdCard

FreeOrEnd == {Free, Eoc}
UseFaults == {"use"}
AllFaults == {"walk", "use"}
NoFaults == {}
NoneOwn == {}
OneOwn == {6}
ShortFile == <<<<4>>>>
LongFile == <<<<4, 5, 7>>>>
EmptyEntry == <<<<>>>>
=============================================================================
