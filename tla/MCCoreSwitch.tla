---------------------------- MODULE MCCoreSwitch ----------------------------
(***************************************************************************)
(* Small instances of CoreSwitch: two or three machines, a payload of two  *)
(* chunks, and at most one or two faults of a kind.                        *)
(***************************************************************************)
EXTENDS CoreSwitch

CONSTANTS uknc, korvet, bk

TwoCores == {uknc, korvet}
ThreeCores == {uknc, korvet, bk}
Payloads == [c \in Cores |-> IF c = uknc THEN 3 ELSE 1]
ShortPayloads == [c \in Cores |-> IF c = uknc THEN 2 ELSE 1]
GoodSidecars == [c \in Cores |-> "good"]
MixedSidecars == [c \in Cores |-> IF c = korvet THEN "corrupt" ELSE "good"]
AllSidecars == [c \in Cores |-> IF c = korvet THEN "missing" ELSE IF c = bk THEN "badContainer" ELSE "good"]
NoSerial == {}
OneSerial == {uknc}

\* Fault budgets: the kinds in S may strike once each.
Once(S) == [f \in Faults |-> IF f \in S THEN 1 ELSE 0]
AnswerLost == [Once({"down", "card", "jtag"}) EXCEPT !["down"] = 2]
CommandLost == Once({"up", "card"})
AllFaults == Once(Faults)
=============================================================================
