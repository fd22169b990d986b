------------------------------ MODULE VsdRuns ------------------------------
(***************************************************************************)
(* The table of vsd.c in which the virtual SD card keeps the clusters of   *)
(* /evo/SD: sorted, disjoint runs <<[start, len], ...>>, at most           *)
(* VSD_EXTENTS of them.  The operators are named after the functions; an   *)
(* index is one more than the code's, so that ext_find's -1 is 0 here.     *)
(***************************************************************************)
EXTENDS Integers, Sequences, SequencesExt

CONSTANT VSD_EXTENTS

ASSUME ExtentsAssumption == VSD_EXTENTS \in Nat \ {0}

\* The cluster after a run.
End(r) == r.start + r.len

\* The last run starting at or before c, or 0.
LastRun(e, c) ==
    LET before == {i \in 1..Len(e) : e[i].start <= c} IN
    IF before = {} THEN 0 ELSE CHOOSE i \in before : \A j \in before : j <= i

\* How ext_find looks for it.
ext_find(e, c) ==
    LET search[s \in [lo : 1..Len(e) + 1, hi : 0..Len(e), at : 0..Len(e)]] ==
          LET mid == (s.lo + s.hi) \div 2 IN
          IF s.lo > s.hi THEN s.at
          ELSE IF e[mid].start <= c THEN search[[s EXCEPT !.lo = mid + 1, !.at = mid]]
                                    ELSE search[[s EXCEPT !.hi = mid - 1]]
    IN search[[lo |-> 1, hi |-> Len(e), at |-> 0]]

inside(e, c) ==
    LET i == LastRun(e, c) IN i > 0 /\ c < End(e[i])

\* Mutant: the run before c is joined first, whatever follows c.
ext_addPrevFirst(e, c) ==
    LET i == LastRun(e, c) IN
    CASE inside(e, c) -> e
      [] ~inside(e, c) /\ i > 0 /\ End(e[i]) = c -> [e EXCEPT ![i].len = @ + 1]
      [] ~inside(e, c) /\ ~(i > 0 /\ End(e[i]) = c) ->
           IF Len(e) >= VSD_EXTENTS THEN e
           ELSE InsertAt(e, i + 1, [start |-> c, len |-> 1])

\* Note cluster c: it joins the run before it, the run after it or both, or
\* becomes a run of its own; with the table full it is not noted.
ext_add(e, c) ==
    LET i == LastRun(e, c)
        join_prev == i > 0 /\ End(e[i]) = c
        join_next == i < Len(e) /\ e[i + 1].start = c + 1
    IN CASE inside(e, c) -> e
         [] ~inside(e, c) /\ join_prev /\ join_next ->
              RemoveAt([e EXCEPT ![i].len = @ + 1 + e[i + 1].len], i + 1)
         [] ~inside(e, c) /\ join_prev /\ ~join_next ->
              [e EXCEPT ![i].len = @ + 1]
         [] ~inside(e, c) /\ ~join_prev /\ join_next ->
              [e EXCEPT ![i + 1] = [start |-> @.start - 1, len |-> @.len + 1]]
         [] ~inside(e, c) /\ ~join_prev /\ ~join_next ->
              IF Len(e) >= VSD_EXTENTS THEN e
              ELSE InsertAt(e, i + 1, [start |-> c, len |-> 1])

\* Mutant: a run split in two loses its second half.
ext_removeTail(e, c) ==
    LET i == LastRun(e, c) IN
    CASE ~inside(e, c) -> e
      [] inside(e, c) /\ c = e[i].start ->
           IF e[i].len = 1 THEN RemoveAt(e, i)
           ELSE [e EXCEPT ![i] = [start |-> c + 1, len |-> @.len - 1]]
      [] inside(e, c) /\ c # e[i].start -> [e EXCEPT ![i].len = c - e[i].start]

\* Forget cluster c: its run loses an end, goes away or is split in two; with
\* the table full a run that would have to be split stays as it is.
ext_remove(e, c) ==
    LET i == LastRun(e, c)
        r == e[i]
    IN CASE ~inside(e, c) -> e
         [] inside(e, c) /\ c = r.start ->
              IF r.len = 1 THEN RemoveAt(e, i)
              ELSE [e EXCEPT ![i] = [start |-> c + 1, len |-> r.len - 1]]
         [] inside(e, c) /\ c # r.start /\ c = End(r) - 1 ->
              [e EXCEPT ![i].len = @ - 1]
         [] inside(e, c) /\ c # r.start /\ c # End(r) - 1 ->
              IF Len(e) >= VSD_EXTENTS THEN e
              ELSE InsertAt([e EXCEPT ![i].len = c - r.start], i + 1,
                            [start |-> c + 1, len |-> End(r) - c - 1])

-----------------------------------------------------------------------------
Run == [start : Nat, len : Nat \ {0}]

\* Runs are in order and do not touch: what ext_find's search relies on.
Sorted(e) ==
    /\ e \in Seq(Run)
    /\ \A i, j \in 1..Len(e) : i < j => End(e[i]) < e[j].start

\* A cluster lies in some run.
Noted(e, c) == \E i \in 1..Len(e) : e[i].start <= c /\ c < End(e[i])
=============================================================================
