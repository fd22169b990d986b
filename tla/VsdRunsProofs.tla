--------------------------- MODULE VsdRunsProofs ---------------------------
(***************************************************************************)
(* What the table operations of VsdRuns do, for every table and cluster:   *)
(* they keep it sorted and within its size, ext_add notes at most the one  *)
(* cluster, ext_remove forgets exactly it while a slot is left, and        *)
(* ext_find's halving finds the run a plain search does.                   *)
(***************************************************************************)
EXTENDS VsdRuns, SequenceTheorems, WellFoundedInduction, TLAPS

\* Cluster x lies in run r.
In(x, r) == r.start <= x /\ x < End(r)

-----------------------------------------------------------------------------
(* Inserting into and removing from a sequence, entry by entry.            *)

\* InsertAt moves the entries from i on up by one.
LEMMA Inserted ==
    ASSUME NEW S, NEW e \in Seq(S), NEW i \in 1..Len(e) + 1, NEW r \in S
    PROVE  /\ InsertAt(e, i, r) \in Seq(S)
           /\ Len(InsertAt(e, i, r)) = Len(e) + 1
           /\ \A j \in 1..Len(e) + 1 : /\ j < i => InsertAt(e, i, r)[j] = e[j]
                                       /\ j = i => InsertAt(e, i, r)[j] = r
                                       /\ j > i => InsertAt(e, i, r)[j] = e[j - 1]
<1> DEFINE a == SubSeq(e, 1, i - 1)
           b == SubSeq(e, i, Len(e))
<1>0. Len(e) \in Nat BY LenProperties
<1>1. /\ a \in Seq(S) /\ Len(a) = i - 1
      /\ \A j \in 1..i - 1 : a[j] = e[j]
  <2>1. \A j \in 1..i - 1 : e[j] \in S BY <1>0, ElementOfSeq
  <2> QED BY <1>0, <2>1, SubSeqProperties
<1>2. /\ b \in Seq(S) /\ Len(b) = Len(e) - i + 1
      /\ \A j \in 1..Len(e) - i + 1 : b[j] = e[i + j - 1]
  <2>1. \A j \in i..Len(e) : e[j] \in S BY <1>0, ElementOfSeq
  <2> QED BY <1>0, <2>1, SubSeqProperties
<1>3. <<r>> \in Seq(S) /\ Len(<<r>>) = 1 /\ <<r>>[1] = r
  OBVIOUS
<1>4. /\ a \o <<r>> \in Seq(S) /\ Len(a \o <<r>>) = i
      /\ \A j \in 1..i : (a \o <<r>>)[j] = IF j < i THEN e[j] ELSE r
  <2> HIDE DEF a
  <2>1. /\ a \o <<r>> \in Seq(S) /\ Len(a \o <<r>>) = Len(a) + Len(<<r>>)
        /\ \A j \in 1..Len(a) + Len(<<r>>) :
             (a \o <<r>>)[j] = IF j <= Len(a) THEN a[j] ELSE <<r>>[j - Len(a)]
    BY <1>1, <1>3, ConcatProperties
  <2>2. <<r>>[1] = r /\ Len(<<r>>) = 1 /\ i \in Nat /\ i >= 1 BY <1>0, <1>3
  <2> DEFINE ar == a \o <<r>>
             one == <<r>>
  <2>3. \A j \in 1..i : ar[j] = IF j <= i - 1 THEN a[j] ELSE one[j - (i - 1)] BY <1>1, <2>1, <2>2
  <2>4. Len(ar) = i BY <1>1, <2>1, <2>2
  <2>5. ar \in Seq(S) BY <2>1
  <2>6. one[1] = r BY <2>2
  <2> HIDE DEF ar, one
  <2>7. ASSUME NEW j \in 1..i PROVE ar[j] = IF j < i THEN e[j] ELSE r
    <3>1. CASE j < i
      <4>1. j <= i - 1 /\ j \in 1..i - 1 BY <2>2, <3>1
      <4> QED BY <1>1, <2>3, <3>1, <4>1
    <3>2. CASE ~(j < i)
      <4>1. ~(j <= i - 1) /\ j - (i - 1) = 1 BY <2>2, <3>2
      <4> QED BY <2>3, <2>6, <3>2, <4>1
    <3> QED BY <3>1, <3>2
  <2> QED BY <2>4, <2>5, <2>7 DEF ar
<1> DEFINE ar == a \o <<r>>
<1>5. InsertAt(e, i, r) = ar \o b
  BY DEF InsertAt
<1>6. /\ ar \in Seq(S) /\ Len(ar) = i
      /\ \A j \in 1..i : ar[j] = IF j < i THEN e[j] ELSE r
  BY <1>4
<1> HIDE DEF a, b, ar
<1>7. /\ ar \o b \in Seq(S)
      /\ Len(ar \o b) = Len(ar) + Len(b)
      /\ \A j \in 1..Len(ar) + Len(b) : (ar \o b)[j] = IF j <= Len(ar) THEN ar[j] ELSE b[j - Len(ar)]
  BY <1>2, <1>6, ConcatProperties
<1>8. Len(ar \o b) = Len(e) + 1
  BY <1>0, <1>2, <1>6, <1>7
<1>9. ASSUME NEW j \in 1..Len(e) + 1
      PROVE  /\ j < i => (ar \o b)[j] = e[j]
             /\ j = i => (ar \o b)[j] = r
             /\ j > i => (ar \o b)[j] = e[j - 1]
  <2>1. CASE j < i BY <1>0, <1>2, <1>6, <1>7, <2>1
  <2>2. CASE j = i BY <1>0, <1>2, <1>6, <1>7, <2>2
  <2>3. CASE j > i
    <3>1. (ar \o b)[j] = b[j - i] BY <1>0, <1>2, <1>6, <1>7, <2>3
    <3>2. j - i \in 1..Len(e) - i + 1 /\ i + (j - i) - 1 = j - 1 BY <1>0, <2>3
    <3>3. b[j - i] = e[j - 1] BY <1>2, <3>2
    <3> QED BY <1>0, <2>3, <3>1, <3>3
  <2> QED BY <1>0, <2>1, <2>2, <2>3
<1> QED BY <1>5, <1>7, <1>8, <1>9

\* RemoveAt moves the entries after i down by one.
LEMMA Removed ==
    ASSUME NEW S, NEW e \in Seq(S), NEW i \in 1..Len(e)
    PROVE  /\ RemoveAt(e, i) \in Seq(S)
           /\ Len(RemoveAt(e, i)) = Len(e) - 1
           /\ \A j \in 1..Len(e) - 1 : RemoveAt(e, i)[j] = IF j < i THEN e[j] ELSE e[j + 1]
<1> DEFINE a == SubSeq(e, 1, i - 1)
           b == SubSeq(e, i + 1, Len(e))
<1>0. Len(e) \in Nat BY LenProperties
<1>1. /\ a \in Seq(S) /\ Len(a) = i - 1
      /\ \A j \in 1..i - 1 : a[j] = e[j]
  <2>1. \A j \in 1..i - 1 : e[j] \in S BY <1>0, ElementOfSeq
  <2> QED BY <1>0, <2>1, SubSeqProperties
<1>2. /\ b \in Seq(S) /\ Len(b) = Len(e) - i
      /\ \A j \in 1..Len(e) - i : b[j] = e[i + j]
  <2>1. \A j \in i + 1..Len(e) : e[j] \in S BY <1>0, ElementOfSeq
  <2> QED BY <1>0, <2>1, SubSeqProperties
<1>3. RemoveAt(e, i) = a \o b
  BY DEF RemoveAt
<1>4. /\ a \o b \in Seq(S) /\ Len(a \o b) = Len(a) + Len(b)
      /\ \A j \in 1..Len(a) + Len(b) : (a \o b)[j] = IF j <= Len(a) THEN a[j] ELSE b[j - Len(a)]
  <2> HIDE DEF a, b
  <2> QED BY <1>1, <1>2, ConcatProperties
<1> HIDE DEF a, b
<1> QED BY <1>0, <1>1, <1>2, <1>3, <1>4

-----------------------------------------------------------------------------
(* The same for tables: order is kept, and what is noted follows.          *)

LEMMA SortedRuns ==
    ASSUME NEW e, Sorted(e)
    PROVE  /\ e \in Seq(Run) /\ Len(e) \in Nat
           /\ \A i \in 1..Len(e) : /\ e[i] \in Run /\ e[i].start \in Nat
                                   /\ e[i].len \in Nat \ {0} /\ End(e[i]) \in Nat
                                   /\ e[i].start < End(e[i])
<1>1. e \in Seq(Run) /\ Len(e) \in Nat BY LenProperties DEF Sorted
<1>2. \A i \in 1..Len(e) : e[i] \in Run BY <1>1, ElementOfSeq
<1> QED BY <1>1, <1>2 DEF Run, End

\* A run put between its neighbours.
LEMMA InsertRun ==
    ASSUME NEW e, Sorted(e), NEW i \in 1..Len(e) + 1, NEW r \in Run,
           \A j \in 1..Len(e) : j < i => End(e[j]) < r.start,
           \A j \in 1..Len(e) : i <= j => End(r) < e[j].start
    PROVE  /\ Sorted(InsertAt(e, i, r))
           /\ \A x \in Nat : Noted(InsertAt(e, i, r), x) <=> Noted(e, x) \/ In(x, r)
<1> DEFINE t == InsertAt(e, i, r)
<1>0. /\ e \in Seq(Run) /\ Len(e) \in Nat
      /\ \A j \in 1..Len(e) : e[j] \in Run
  BY SortedRuns
<1>1. /\ t \in Seq(Run) /\ Len(t) = Len(e) + 1
      /\ \A j \in 1..Len(e) + 1 : /\ j < i => t[j] = e[j]
                                  /\ j = i => t[j] = r
                                  /\ j > i => t[j] = e[j - 1]
  <2>1. e \in Seq(Run) /\ r \in Run BY <1>0
  <2> QED BY ONLY <2>1, i \in 1..Len(e) + 1, Inserted
<1> HIDE DEF t
<1>2. Sorted(t)
  <2> SUFFICES ASSUME NEW j \in 1..Len(t), NEW k \in 1..Len(t), j < k
               PROVE  End(t[j]) < t[k].start
    BY <1>1 DEF Sorted
  <2>1. CASE j < i /\ k < i BY <1>0, <1>1, <2>1 DEF Sorted
  <2>2. CASE j < i /\ k = i BY <1>0, <1>1, <2>2
  <2>3. CASE j < i /\ k > i
    <3>1. /\ j \in 1..Len(e) /\ k - 1 \in 1..Len(e) /\ j < k - 1
          /\ t[j] = e[j] /\ t[k] = e[k - 1]
      BY <1>0, <1>1, <2>3
    <3> QED BY <3>1 DEF Sorted
  <2>4. CASE j = i
    <3>1. k - 1 \in 1..Len(e) /\ i <= k - 1 /\ t[j] = r /\ t[k] = e[k - 1] BY <1>0, <1>1, <2>4
    <3> QED BY <3>1
  <2>5. CASE j > i
    <3>1. /\ j - 1 \in 1..Len(e) /\ k - 1 \in 1..Len(e) /\ j - 1 < k - 1
          /\ t[j] = e[j - 1] /\ t[k] = e[k - 1]
      BY <1>0, <1>1, <2>5
    <3> QED BY <3>1 DEF Sorted
  <2> QED BY <1>0, <1>1, <2>1, <2>2, <2>3, <2>4, <2>5
<1>3. ASSUME NEW x \in Nat PROVE Noted(t, x) <=> Noted(e, x) \/ In(x, r)
  <2>1. ASSUME Noted(t, x) PROVE Noted(e, x) \/ In(x, r)
    <3>1. PICK j \in 1..Len(t) : In(x, t[j]) BY <2>1 DEF Noted, In
    <3>2. CASE j < i BY <1>0, <1>1, <3>1, <3>2 DEF Noted, In
    <3>3. CASE j = i BY <1>1, <3>1, <3>3
    <3>4. CASE j > i
      <4>1. j - 1 \in 1..Len(e) /\ t[j] = e[j - 1] BY <1>0, <1>1, <3>4
      <4> QED BY <3>1, <4>1 DEF Noted, In
    <3> QED BY <1>0, <1>1, <3>2, <3>3, <3>4
  <2>2. ASSUME In(x, r) PROVE Noted(t, x)
    <3>1. i \in 1..Len(t) /\ t[i] = r BY <1>0, <1>1
    <3> QED BY <2>2, <3>1 DEF Noted, In
  <2>3. ASSUME Noted(e, x) PROVE Noted(t, x)
    <3>1. PICK j \in 1..Len(e) : In(x, e[j]) BY <2>3 DEF Noted, In
    <3>2. CASE j < i
      <4>1. j \in 1..Len(t) /\ t[j] = e[j] BY <1>0, <1>1, <3>2
      <4> QED BY <3>1, <4>1 DEF Noted, In
    <3>3. CASE j >= i
      <4>1. j + 1 \in 1..Len(t) /\ t[j + 1] = e[j] BY <1>0, <1>1, <3>3
      <4> QED BY <3>1, <4>1 DEF Noted, In
    <3> QED BY <1>0, <3>2, <3>3
  <2> QED BY <2>1, <2>2, <2>3
<1> QED BY <1>2, <1>3 DEF t

\* A run replaced by another between the same neighbours.
LEMMA ReplaceRun ==
    ASSUME NEW e, Sorted(e), NEW i \in 1..Len(e), NEW r \in Run,
           \A j \in 1..Len(e) : j < i => End(e[j]) < r.start,
           \A j \in 1..Len(e) : i < j => End(r) < e[j].start
    PROVE  /\ Sorted([e EXCEPT ![i] = r]) /\ Len([e EXCEPT ![i] = r]) = Len(e)
           /\ \A j \in 1..Len(e) : [e EXCEPT ![i] = r][j] = IF j = i THEN r ELSE e[j]
           /\ \A x \in Nat : Noted([e EXCEPT ![i] = r], x) <=>
                             In(x, r) \/ \E j \in 1..Len(e) : j # i /\ In(x, e[j])
<1> DEFINE t == [e EXCEPT ![i] = r]
<1>0. e \in Seq(Run) /\ Len(e) \in Nat BY SortedRuns
<1>1. /\ t \in Seq(Run) /\ Len(t) = Len(e)
      /\ \A j \in 1..Len(e) : t[j] = IF j = i THEN r ELSE e[j]
  BY <1>0, ExceptSeq
<1> HIDE DEF t
<1>2. Sorted(t) BY <1>0, <1>1 DEF Sorted
<1>3. \A x \in Nat : Noted(t, x) <=> In(x, r) \/ \E j \in 1..Len(e) : j # i /\ In(x, e[j])
  BY <1>0, <1>1 DEF Noted, In
<1> QED BY <1>1, <1>2, <1>3 DEF t

\* A run taken out.
LEMMA RemoveRun ==
    ASSUME NEW e, Sorted(e), NEW i \in 1..Len(e)
    PROVE  /\ Sorted(RemoveAt(e, i))
           /\ \A x \in Nat : Noted(RemoveAt(e, i), x) <=>
                             \E j \in 1..Len(e) : j # i /\ In(x, e[j])
<1> DEFINE t == RemoveAt(e, i)
<1>0. e \in Seq(Run) /\ Len(e) \in Nat BY SortedRuns
<1>1. /\ t \in Seq(Run) /\ Len(t) = Len(e) - 1
      /\ \A j \in 1..Len(e) - 1 : t[j] = IF j < i THEN e[j] ELSE e[j + 1]
  BY <1>0, Removed
<1> HIDE DEF t
<1>2. Sorted(t)
  <2> SUFFICES ASSUME NEW j \in 1..Len(t), NEW k \in 1..Len(t), j < k
               PROVE  End(t[j]) < t[k].start
    BY <1>1 DEF Sorted
  <2>0. /\ j \in 1..Len(e) - 1 /\ k \in 1..Len(e) - 1
        /\ j \in 1..Len(e) /\ k \in 1..Len(e) /\ j + 1 \in 1..Len(e) /\ k + 1 \in 1..Len(e)
        /\ j < k + 1 /\ j + 1 < k + 1
    BY <1>0, <1>1
  <2>1. CASE k < i
    <3>1. j < i BY <2>0, <2>1
    <3>2. t[j] = e[j] /\ t[k] = e[k] BY <1>1, <2>0, <2>1, <3>1
    <3> QED BY <2>0, <3>2 DEF Sorted
  <2>2. CASE j < i /\ ~(k < i)
    <3>1. t[j] = e[j] /\ t[k] = e[k + 1] BY <1>1, <2>0, <2>2
    <3> QED BY <2>0, <3>1 DEF Sorted
  <2>3. CASE ~(j < i)
    <3>1. ~(k < i) BY <2>0, <2>3
    <3>2. t[j] = e[j + 1] /\ t[k] = e[k + 1] BY <1>1, <2>0, <2>3, <3>1
    <3> QED BY <2>0, <3>2 DEF Sorted
  <2> QED BY <2>1, <2>2, <2>3
<1>3. ASSUME NEW x \in Nat
      PROVE  Noted(t, x) <=> \E j \in 1..Len(e) : j # i /\ In(x, e[j])
  <2>1. ASSUME Noted(t, x) PROVE \E j \in 1..Len(e) : j # i /\ In(x, e[j])
    <3>1. PICK j \in 1..Len(t) : In(x, t[j]) BY <2>1 DEF Noted, In
    <3>2. CASE j < i BY <1>0, <1>1, <3>1, <3>2
    <3>3. CASE j >= i
      <4>1. j + 1 \in 1..Len(e) /\ j + 1 # i /\ t[j] = e[j + 1] BY <1>0, <1>1, <3>3
      <4> QED BY <3>1, <4>1
    <3> QED BY <1>0, <1>1, <3>2, <3>3
  <2>2. ASSUME NEW j \in 1..Len(e), j # i, In(x, e[j]) PROVE Noted(t, x)
    <3>1. CASE j < i
      <4>1. j \in 1..Len(t) /\ t[j] = e[j] BY <1>0, <1>1, <3>1
      <4> QED BY <2>2, <4>1 DEF Noted, In
    <3>2. CASE j > i
      <4>1. j - 1 \in 1..Len(t) /\ t[j - 1] = e[j] BY <1>0, <1>1, <3>2
      <4> QED BY <2>2, <4>1 DEF Noted, In
    <3> QED BY <1>0, <2>2, <3>1, <3>2
  <2> QED BY <2>1, <2>2
<1> QED BY <1>2, <1>3 DEF t

-----------------------------------------------------------------------------
(* The table's own operations.                                             *)

\* A bounded set of numbers that is not empty has a greatest member.
LEMMA Greatest ==
    ASSUME NEW n \in Nat, NEW T \in SUBSET (1..n), T # {}
    PROVE  \E i \in T : \A j \in T : j <= i
<1> DEFINE D == {n - i : i \in T}
<1>1. D \subseteq Nat /\ D # {}
  <2>1. \A i \in T : i \in 1..n /\ n - i \in Nat OBVIOUS
  <2>2. D \subseteq Nat BY <2>1
  <2>3. PICK i \in T : TRUE OBVIOUS
  <2>4. n - i \in D BY <2>3
  <2> QED BY <2>2, <2>4
<1>2. PICK d \in D : \A y \in D : ~(<<y, d>> \in OpToRel(<, Nat))
  <2> HIDE DEF D
  <2> QED BY <1>1, WFMin, NatLessThanWellFounded
<1>3. \A y \in D : ~(y < d)
  <2> HIDE DEF D
  <2> QED BY <1>1, <1>2 DEF OpToRel
<1>4. PICK i \in T : d = n - i
  OBVIOUS
<1>5. ASSUME NEW j \in T PROVE j <= i
  <2>1. ~(n - j < n - i) BY <1>3, <1>4
  <2> QED BY <2>1
<1> QED BY <1>5

\* LastRun splits the table: the runs up to it start at or before c.
LEMMA LastRunIs ==
    ASSUME NEW e, Sorted(e), NEW c \in Nat
    PROVE  /\ LastRun(e, c) \in 0..Len(e)
           /\ \A i \in 1..Len(e) : e[i].start <= c <=> i <= LastRun(e, c)
<1> DEFINE before == {i \in 1..Len(e) : e[i].start <= c}
<1>0. /\ Len(e) \in Nat
      /\ \A i \in 1..Len(e) : e[i].start \in Nat /\ End(e[i]) \in Nat /\ e[i].start < End(e[i])
  BY SortedRuns
<1>1. CASE before = {}
  <2>1. LastRun(e, c) = 0 BY <1>1 DEF LastRun
  <2>2. \A i \in 1..Len(e) : ~(e[i].start <= c) BY <1>1
  <2> QED BY <1>0, <2>1, <2>2
<1>2. CASE before # {}
  <2> DEFINE top == CHOOSE i \in before : \A j \in before : j <= i
  <2>1. LastRun(e, c) = top BY <1>2 DEF LastRun
  <2>2. \E i \in before : \A j \in before : j <= i
    <3>1. before \in SUBSET (1..Len(e)) OBVIOUS
    <3> HIDE DEF before
    <3> QED BY <1>0, <1>2, <3>1, Greatest
  <2>3. top \in before /\ \A j \in before : j <= top
    <3> HIDE DEF before
    <3> QED BY <2>2
  <2> HIDE DEF top
  <2>4. ASSUME NEW i \in 1..Len(e), i <= top PROVE e[i].start <= c
    <3>1. top \in 1..Len(e) /\ e[top].start <= c BY <2>3
    <3>2. i = top \/ End(e[i]) < e[top].start BY <2>4, <3>1 DEF Sorted
    <3> QED BY <1>0, <3>1, <3>2
  <2> QED BY <1>0, <2>1, <2>3, <2>4
<1> QED BY <1>1, <1>2

\* inside() is what it says: the cluster lies in a run.
LEMMA InsideIsNoted ==
    ASSUME NEW e, Sorted(e), NEW c \in Nat
    PROVE  inside(e, c) <=> Noted(e, c)
<1> DEFINE i == LastRun(e, c)
<1>0. /\ Len(e) \in Nat
      /\ \A k \in 1..Len(e) : e[k].start \in Nat /\ End(e[k]) \in Nat /\ e[k].start < End(e[k])
  BY SortedRuns
<1>1. /\ i \in 0..Len(e)
      /\ \A k \in 1..Len(e) : e[k].start <= c <=> k <= i
  BY LastRunIs
<1>2. inside(e, c) <=> i > 0 /\ c < End(e[i]) BY DEF inside
<1> HIDE DEF i
<1>3. ASSUME i > 0, c < End(e[i]) PROVE Noted(e, c)
  <2>1. i \in 1..Len(e) BY <1>1, <1>3
  <2> QED BY <1>1, <1>3, <2>1 DEF Noted
<1>4. ASSUME Noted(e, c) PROVE i > 0 /\ c < End(e[i])
  <2>1. PICK k \in 1..Len(e) : e[k].start <= c /\ c < End(e[k]) BY <1>4 DEF Noted
  <2>2. k <= i /\ i \in 1..Len(e) BY <1>1, <2>1
  <2>3. k = i
    <3> SUFFICES ASSUME k < i PROVE FALSE BY <2>2
    <3>1. End(e[k]) < e[i].start BY <2>2 DEF Sorted
    <3>2. e[i].start <= c BY <1>1, <2>2
    <3> QED BY <1>0, <2>1, <2>2, <3>1, <3>2
  <2> QED BY <2>1, <2>2, <2>3
<1> QED BY <1>2, <1>3, <1>4

\* Where a cluster that is not inside lies: between two runs.
LEMMA Between ==
    ASSUME NEW e, Sorted(e), NEW c \in Nat, ~inside(e, c)
    PROVE  LET i == LastRun(e, c) IN
           /\ i \in 0..Len(e)
           /\ \A j \in 1..Len(e) : j <= i => End(e[j]) <= c
           /\ \A j \in 1..Len(e) : j < i => End(e[j]) < c
           /\ \A j \in 1..Len(e) : i < j => c < e[j].start
           /\ \A j \in 1..Len(e) : i + 1 < j => c + 1 < e[j].start
<1> DEFINE i == LastRun(e, c)
<1>0. /\ Len(e) \in Nat
      /\ \A k \in 1..Len(e) : e[k].start \in Nat /\ End(e[k]) \in Nat /\ e[k].start < End(e[k])
  BY SortedRuns
<1>1. /\ i \in 0..Len(e)
      /\ \A k \in 1..Len(e) : e[k].start <= c <=> k <= i
  BY LastRunIs
<1>2. i > 0 => End(e[i]) <= c
  <2>1. i > 0 => ~(c < End(e[i])) BY DEF inside
  <2>2. i > 0 => i \in 1..Len(e) BY <1>1
  <2> HIDE DEF i
  <2> QED BY <1>0, <2>1, <2>2
<1> HIDE DEF i
<1>3. ASSUME NEW j \in 1..Len(e), j < i PROVE End(e[j]) < c
  <2>1. i \in 1..Len(e) /\ i > 0 BY <1>0, <1>1, <1>3
  <2>2. End(e[j]) < e[i].start BY <1>3, <2>1 DEF Sorted
  <2>3. e[i].start <= c BY <1>1, <2>1
  <2> QED BY <1>0, <2>1, <2>2, <2>3
<1>4. ASSUME NEW j \in 1..Len(e), i < j PROVE c < e[j].start
  <2>1. ~(e[j].start <= c) BY <1>0, <1>1, <1>4
  <2> QED BY <1>0, <2>1
<1>5. ASSUME NEW j \in 1..Len(e), i + 1 < j PROVE c + 1 < e[j].start
  <2>1. i + 1 \in 1..Len(e) BY <1>0, <1>1, <1>5
  <2>2. End(e[i + 1]) < e[j].start BY <1>5, <2>1 DEF Sorted
  <2>3. c < e[i + 1].start BY <1>1, <1>4, <2>1
  <2> QED BY <1>0, <2>1, <2>2, <2>3
<1>6. \A j \in 1..Len(e) : j <= i => End(e[j]) <= c
  BY <1>0, <1>1, <1>2, <1>3
<1> QED BY <1>1, <1>3, <1>4, <1>5, <1>6 DEF i

\* A run made of its two fields, and one whose length is changed.
LEMMA MakeRun ==
    ASSUME NEW s \in Nat, NEW n \in Nat \ {0}
    PROVE  LET r == [start |-> s, len |-> n] IN r \in Run /\ r.start = s /\ End(r) = s + n
BY DEF Run, End

LEMMA Resized ==
    ASSUME NEW e \in Seq(Run), NEW i \in 1..Len(e), NEW n
    PROVE  [e EXCEPT ![i].len = n] = [e EXCEPT ![i] = [start |-> e[i].start, len |-> n]]
<1>1. e[i] \in Run BY ElementOfSeq
<1>2. [e[i] EXCEPT !.len = n] = [start |-> e[i].start, len |-> n] BY <1>1 DEF Run
<1> QED BY <1>2

\* ext_add keeps the table sorted and notes c, if there is room, and no more.
LEMMA AddNotes ==
    ASSUME NEW e, Sorted(e), NEW c \in Nat
    PROVE  /\ Sorted(ext_add(e, c))
           /\ \A x \in Nat : Noted(ext_add(e, c), x) => Noted(e, x) \/ x = c
           /\ \A x \in Nat : Noted(e, x) => Noted(ext_add(e, c), x)
           /\ Len(e) < VSD_EXTENTS => Noted(ext_add(e, c), c)
<1> DEFINE i == LastRun(e, c)
           prev == i > 0 /\ End(e[i]) = c
           nxt == i < Len(e) /\ e[i + 1].start = c + 1
<1>0. /\ e \in Seq(Run) /\ Len(e) \in Nat
      /\ \A k \in 1..Len(e) : /\ e[k] \in Run /\ e[k].start \in Nat /\ e[k].len \in Nat \ {0}
                              /\ End(e[k]) \in Nat /\ e[k].start < End(e[k])
  BY SortedRuns
<1>1. CASE inside(e, c)
  <2>1. ext_add(e, c) = e BY <1>1 DEF ext_add
  <2>2. Noted(e, c) BY <1>1, InsideIsNoted
  <2> QED BY <2>1, <2>2
<1>2. ASSUME ~inside(e, c)
      PROVE  /\ i \in 0..Len(e)
             /\ \A j \in 1..Len(e) : j <= i => End(e[j]) <= c
             /\ \A j \in 1..Len(e) : j < i => End(e[j]) < c
             /\ \A j \in 1..Len(e) : i < j => c < e[j].start
             /\ \A j \in 1..Len(e) : i + 1 < j => c + 1 < e[j].start
  BY <1>2, Between
<1>3. CASE ~inside(e, c) /\ prev /\ nxt
  <2> DEFINE r == [start |-> e[i].start, len |-> e[i].len + 1 + e[i + 1].len]
             d == RemoveAt(e, i + 1)
             t == [d EXCEPT ![i] = r]
  <2>0. ext_add(e, c) = RemoveAt([e EXCEPT ![i].len = @ + 1 + e[i + 1].len], i + 1)
    BY <1>3 DEF ext_add
  <2>1. i \in 1..Len(e) /\ i + 1 \in 1..Len(e) BY <1>0, <1>2, <1>3
  <2>2. [e EXCEPT ![i].len = @ + 1 + e[i + 1].len] = [e EXCEPT ![i] = r]
    BY <1>0, <2>1, Resized
  <2> HIDE DEF i
  <2>3. r \in Run /\ r.start = e[i].start /\ End(r) = End(e[i + 1])
    <3>1. /\ e[i].start + e[i].len = c /\ End(e[i + 1]) = c + 1 + e[i + 1].len
          /\ e[i].start \in Nat /\ e[i].len + 1 + e[i + 1].len \in Nat \ {0}
      <4>1. End(e[i]) = e[i].start + e[i].len /\ End(e[i + 1]) = e[i + 1].start + e[i + 1].len
        BY DEF End
      <4>2. End(e[i]) = c /\ e[i + 1].start = c + 1 BY <1>3
      <4>3. /\ e[i].start \in Nat /\ e[i].len \in Nat \ {0}
            /\ e[i + 1].len \in Nat \ {0}
        BY <1>0, <2>1
      <4> QED BY <4>1, <4>2, <4>3
    <3>2. r \in Run /\ r.start = e[i].start /\ End(r) = e[i].start + (e[i].len + 1 + e[i + 1].len)
      BY <3>1, MakeRun
    <3>3. e[i].len \in Nat /\ e[i + 1].len \in Nat BY <1>0, <2>1
    <3> HIDE DEF r
    <3> QED BY <3>1, <3>2, <3>3
  <2> HIDE DEF r
  <2>4. /\ d \in Seq(Run) /\ Len(d) = Len(e) - 1
        /\ \A j \in 1..Len(e) - 1 : d[j] = IF j < i + 1 THEN e[j] ELSE e[j + 1]
    BY <1>0, <2>1, Removed
  <2>5. Sorted(d) /\ \A x \in Nat : Noted(d, x) <=> \E j \in 1..Len(e) : j # i + 1 /\ In(x, e[j])
    BY <2>1, RemoveRun
  <2>6. i \in 1..Len(d) BY <1>0, <2>1, <2>4
  <2> HIDE DEF d
  <2>7. \A j \in 1..Len(d) : j < i => End(d[j]) < r.start
    <3> SUFFICES ASSUME NEW j \in 1..Len(d), j < i PROVE End(d[j]) < r.start OBVIOUS
    <3>0. Len(e) \in Nat /\ Len(d) = Len(e) - 1 BY <1>0, <2>4
    <3>1. j \in 1..Len(e) - 1 /\ j \in 1..Len(e) /\ j < i + 1 BY <2>1, <3>0
    <3>2. d[j] = e[j] BY <2>4, <3>1
    <3> QED BY <2>1, <2>3, <3>1, <3>2 DEF Sorted
  <2>8. \A j \in 1..Len(d) : i < j => End(r) < d[j].start
    <3> SUFFICES ASSUME NEW j \in 1..Len(d), i < j PROVE End(r) < d[j].start OBVIOUS
    <3>0. Len(e) \in Nat /\ Len(d) = Len(e) - 1 BY <1>0, <2>4
    <3>1. /\ j \in 1..Len(e) - 1 /\ j + 1 \in 1..Len(e)
          /\ ~(j < i + 1) /\ i + 1 < j + 1
      BY <2>1, <3>0
    <3>2. d[j] = e[j + 1] BY <2>4, <3>1
    <3> QED BY <2>1, <2>3, <3>1, <3>2 DEF Sorted
  <2>9. /\ Sorted(t) /\ Len(t) = Len(d)
        /\ \A j \in 1..Len(d) : t[j] = IF j = i THEN r ELSE d[j]
        /\ \A x \in Nat : Noted(t, x) <=> In(x, r) \/ \E j \in 1..Len(d) : j # i /\ In(x, d[j])
    <3>1. r \in Run /\ Sorted(d) BY <2>3, <2>5
    <3> HIDE DEF t
    <3> QED BY <2>6, <2>7, <2>8, <3>1, ReplaceRun DEF t
  <2>10. ext_add(e, c) = t
    <3> DEFINE f == [e EXCEPT ![i] = r]
               g == RemoveAt(f, i + 1)
    <3>1. /\ f \in Seq(Run) /\ Len(f) = Len(e)
          /\ \A j \in 1..Len(e) : f[j] = IF j = i THEN r ELSE e[j]
      BY <1>0, <2>1, <2>3, ExceptSeq
    <3> HIDE DEF f
    <3>2. /\ g \in Seq(Run) /\ Len(g) = Len(f) - 1
          /\ \A j \in 1..Len(f) - 1 : g[j] = IF j < i + 1 THEN f[j] ELSE f[j + 1]
      <4>1. i + 1 \in 1..Len(f) BY <2>1, <3>1
      <4> QED BY <3>1, <4>1, Removed
    <3> HIDE DEF g
    <3>3. \A j \in 1..Len(g) : g[j] = t[j]
      <4> SUFFICES ASSUME NEW j \in 1..Len(g) PROVE g[j] = t[j] OBVIOUS
      <4>0. /\ Len(e) \in Nat /\ Len(d) = Len(e) - 1 /\ Len(f) = Len(e) /\ Len(g) = Len(e) - 1
            /\ j \in 1..Len(e) - 1 /\ j \in 1..Len(d) /\ j \in 1..Len(f) - 1
            /\ j \in 1..Len(e) /\ j + 1 \in 1..Len(e)
        <5>1. Len(e) \in Nat /\ Len(d) = Len(e) - 1 /\ Len(f) = Len(e) /\ Len(g) = Len(f) - 1
          BY <1>0, <2>4, <3>1, <3>2
        <5> QED BY <5>1
      <4>1. CASE j < i
        <5>0. j < i + 1 /\ j # i BY <2>1, <4>0, <4>1
        <5>1. g[j] = f[j] BY <3>2, <4>0, <5>0
        <5>2. f[j] = e[j] BY <3>1, <4>0, <5>0
        <5>3. t[j] = d[j] BY <2>9, <4>0, <5>0
        <5>4. d[j] = e[j] BY <2>4, <4>0, <5>0
        <5> QED BY <5>1, <5>2, <5>3, <5>4
      <4>2. CASE j = i
        <5>0. j < i + 1 BY <2>1, <4>2
        <5>1. g[j] = f[j] BY <3>2, <4>0, <5>0
        <5>2. f[j] = r BY <3>1, <4>0, <4>2
        <5>3. t[j] = r BY <2>9, <4>0, <4>2
        <5> QED BY <5>1, <5>2, <5>3
      <4>3. CASE j > i
        <5>0. ~(j < i + 1) /\ j # i /\ j + 1 # i BY <2>1, <4>0, <4>3
        <5>1. g[j] = f[j + 1] BY <3>2, <4>0, <5>0
        <5>2. f[j + 1] = e[j + 1] BY <3>1, <4>0, <5>0
        <5>3. t[j] = d[j] BY <2>9, <4>0, <5>0
        <5>4. d[j] = e[j + 1] BY <2>4, <4>0, <5>0
        <5> QED BY <5>1, <5>2, <5>3, <5>4
      <4> QED BY <2>1, <4>0, <4>1, <4>2, <4>3
    <3>4. t \in Seq(Run) BY <2>9 DEF Sorted
    <3>5. g = t
      <4> HIDE DEF t
      <4> QED BY <2>4, <2>9, <3>1, <3>2, <3>3, <3>4, SeqEqual
    <3> QED BY <2>0, <2>2, <3>5 DEF f, g
  <2> HIDE DEF t
  <2>11. \A x \in Nat : Noted(e, x) <=> Noted(d, x) \/ In(x, e[i + 1])
    BY <2>1, <2>5 DEF Noted, In
  <2>12. \A x \in Nat : Noted(d, x) <=> In(x, d[i]) \/ \E j \in 1..Len(d) : j # i /\ In(x, d[j])
    BY <2>6 DEF Noted, In
  <2>13. d[i] = e[i] BY <1>0, <2>1, <2>4
  <2>14. \A x \in Nat : In(x, r) <=> In(x, e[i]) \/ x = c \/ In(x, e[i + 1])
    BY <1>0, <1>3, <2>1, <2>3 DEF In
  <2> QED BY <2>9, <2>10, <2>11, <2>12, <2>13, <2>14
<1>4. CASE ~inside(e, c) /\ prev /\ ~nxt
  <2> DEFINE r == [start |-> e[i].start, len |-> e[i].len + 1]
  <2>0. ext_add(e, c) = [e EXCEPT ![i].len = @ + 1] BY <1>4 DEF ext_add
  <2>1. i \in 1..Len(e) BY <1>0, <1>2, <1>4
  <2>2. ext_add(e, c) = [e EXCEPT ![i] = r]
    <3>1. e[i] \in Run BY <1>0, <2>1
    <3>2. [e[i] EXCEPT !.len = e[i].len + 1] = r BY <3>1 DEF Run
    <3> HIDE DEF r
    <3> QED BY <2>0, <3>2
  <2>3. r \in Run /\ r.start = e[i].start /\ End(r) = c + 1
    <3>1. e[i].start + e[i].len = c /\ e[i].start \in Nat /\ e[i].len + 1 \in Nat \ {0}
      BY <1>0, <1>4, <2>1 DEF End
    <3>2. r \in Run /\ r.start = e[i].start /\ End(r) = e[i].start + (e[i].len + 1)
      BY <3>1, MakeRun
    <3>3. e[i].len \in Nat BY <1>0, <2>1
    <3> HIDE DEF r, i
    <3> QED BY <3>1, <3>2, <3>3
  <2>4. \A j \in 1..Len(e) : i < j => c + 1 < e[j].start
    <3> HIDE DEF i
    <3> SUFFICES ASSUME NEW j \in 1..Len(e), i < j PROVE c + 1 < e[j].start OBVIOUS
    <3>1. CASE j = i + 1 BY <1>0, <1>2, <1>4, <2>1, <3>1
    <3>2. CASE j > i + 1 BY <1>2, <1>4, <3>2
    <3> QED BY <1>0, <2>1, <3>1, <3>2
  <2> HIDE DEF r, i
  <2>5. \A j \in 1..Len(e) : j < i => End(e[j]) < r.start BY <2>1, <2>3, <2>4 DEF Sorted
  <2>9. \A j \in 1..Len(e) : i < j => End(r) < e[j].start BY <2>1, <2>3, <2>4 DEF Sorted
  <2>10. r \in Run BY <2>3
  <2>6. /\ Sorted([e EXCEPT ![i] = r])
        /\ \A x \in Nat : Noted([e EXCEPT ![i] = r], x) <=>
                          In(x, r) \/ \E j \in 1..Len(e) : j # i /\ In(x, e[j])
    BY <2>1, <2>5, <2>9, <2>10, ReplaceRun
  <2>7. \A x \in Nat : Noted(e, x) <=> In(x, e[i]) \/ \E j \in 1..Len(e) : j # i /\ In(x, e[j])
    BY <2>1 DEF Noted, In
  <2>8. \A x \in Nat : In(x, r) <=> In(x, e[i]) \/ x = c
    BY <1>0, <1>4, <2>1, <2>3 DEF In
  <2> QED BY <2>2, <2>6, <2>7, <2>8
<1>5. CASE ~inside(e, c) /\ ~prev /\ nxt
  <2> DEFINE r == [start |-> e[i + 1].start - 1, len |-> e[i + 1].len + 1]
  <2>1. i + 1 \in 1..Len(e) BY <1>0, <1>2, <1>5
  <2>2. ext_add(e, c) = [e EXCEPT ![i + 1] = r] BY <1>0, <1>5, <2>1 DEF ext_add
  <2>3. r \in Run /\ r.start = c /\ End(r) = End(e[i + 1])
    <3>1. /\ e[i + 1].start = c + 1 /\ End(e[i + 1]) = c + 1 + e[i + 1].len
          /\ e[i + 1].start - 1 \in Nat /\ e[i + 1].len + 1 \in Nat \ {0}
      BY <1>0, <1>5, <2>1 DEF End
    <3>2. /\ r \in Run /\ r.start = e[i + 1].start - 1
          /\ End(r) = e[i + 1].start - 1 + (e[i + 1].len + 1)
      BY <3>1, MakeRun
    <3>3. e[i + 1].len \in Nat BY <1>0, <2>1
    <3> HIDE DEF r, i
    <3> QED BY <3>1, <3>2, <3>3
  <2>4. \A j \in 1..Len(e) : j < i + 1 => End(e[j]) < c
    <3> HIDE DEF i
    <3> SUFFICES ASSUME NEW j \in 1..Len(e), j < i + 1 PROVE End(e[j]) < c OBVIOUS
    <3>1. CASE j = i BY <1>0, <1>2, <1>5, <2>1, <3>1
    <3>2. CASE j < i BY <1>2, <1>5, <3>2
    <3> QED BY <1>0, <1>2, <1>5, <3>1, <3>2
  <2> HIDE DEF r, i
  <2>5. \A j \in 1..Len(e) : j < i + 1 => End(e[j]) < r.start BY <2>1, <2>3, <2>4 DEF Sorted
  <2>9. \A j \in 1..Len(e) : i + 1 < j => End(r) < e[j].start BY <2>1, <2>3, <2>4 DEF Sorted
  <2>6. /\ Sorted([e EXCEPT ![i + 1] = r])
        /\ \A x \in Nat : Noted([e EXCEPT ![i + 1] = r], x) <=>
                          In(x, r) \/ \E j \in 1..Len(e) : j # i + 1 /\ In(x, e[j])
    BY <2>1, <2>3, <2>5, <2>9, ReplaceRun
  <2>7. \A x \in Nat : Noted(e, x) <=> In(x, e[i + 1]) \/ \E j \in 1..Len(e) : j # i + 1 /\ In(x, e[j])
    BY <2>1 DEF Noted, In
  <2>8. \A x \in Nat : In(x, r) <=> In(x, e[i + 1]) \/ x = c
    BY <1>0, <1>5, <2>1, <2>3 DEF In
  <2> QED BY <2>2, <2>6, <2>7, <2>8
<1>6. CASE ~inside(e, c) /\ ~prev /\ ~nxt
  <2> DEFINE r == [start |-> c, len |-> 1]
  <2>1. CASE Len(e) >= VSD_EXTENTS
    <3>1. ext_add(e, c) = e BY <1>6, <2>1 DEF ext_add
    <3> QED BY <1>0, <2>1, <3>1, ExtentsAssumption
  <2>2. CASE ~(Len(e) >= VSD_EXTENTS)
    <3>1. ext_add(e, c) = InsertAt(e, i + 1, r) BY <1>6, <2>2 DEF ext_add
    <3>2. r \in Run /\ r.start = c /\ End(r) = c + 1 BY DEF Run, End
    <3>3. i + 1 \in 1..Len(e) + 1 BY <1>0, <1>2, <1>6
    <3> HIDE DEF r, i
    <3>4. \A j \in 1..Len(e) : j < i + 1 => End(e[j]) < c
      <4> SUFFICES ASSUME NEW j \in 1..Len(e), j < i + 1 PROVE End(e[j]) < c OBVIOUS
      <4>1. CASE j = i BY <1>0, <1>2, <1>6, <4>1
      <4>2. CASE j < i BY <1>2, <1>6, <4>2
      <4> QED BY <1>0, <1>2, <1>6, <4>1, <4>2
    <3>5. \A j \in 1..Len(e) : i + 1 <= j => c + 1 < e[j].start
      <4> SUFFICES ASSUME NEW j \in 1..Len(e), i + 1 <= j PROVE c + 1 < e[j].start OBVIOUS
      <4>1. CASE j = i + 1 BY <1>0, <1>2, <1>6, <4>1
      <4>2. CASE j > i + 1 BY <1>2, <1>6, <4>2
      <4> QED BY <1>0, <1>2, <1>6, <4>1, <4>2
    <3>6. /\ Sorted(ext_add(e, c))
          /\ \A x \in Nat : Noted(ext_add(e, c), x) <=> Noted(e, x) \/ In(x, r)
      BY <3>1, <3>2, <3>3, <3>4, <3>5, InsertRun
    <3>7. \A x \in Nat : In(x, r) <=> x = c BY <3>2 DEF In
    <3> QED BY <3>6, <3>7
  <2> QED BY <2>1, <2>2
<1> QED BY <1>1, <1>3, <1>4, <1>5, <1>6

\* ext_remove keeps the table sorted and forgets c, if there is room, and no
\* other cluster.
LEMMA RemoveForgets ==
    ASSUME NEW e, Sorted(e), NEW c \in Nat
    PROVE  /\ Sorted(ext_remove(e, c))
           /\ \A x \in Nat : Noted(ext_remove(e, c), x) => Noted(e, x)
           /\ \A x \in Nat : Noted(e, x) /\ x # c => Noted(ext_remove(e, c), x)
           /\ Len(e) < VSD_EXTENTS => ~Noted(ext_remove(e, c), c)
<1> DEFINE i == LastRun(e, c)
<1>0. /\ e \in Seq(Run) /\ Len(e) \in Nat
      /\ \A k \in 1..Len(e) : /\ e[k] \in Run /\ e[k].start \in Nat /\ e[k].len \in Nat \ {0}
                              /\ End(e[k]) \in Nat /\ e[k].start < End(e[k])
  BY SortedRuns
<1>1. CASE ~inside(e, c)
  <2>1. ext_remove(e, c) = e BY <1>1 DEF ext_remove
  <2>2. ~Noted(e, c) BY <1>1, InsideIsNoted
  <2> QED BY <2>1, <2>2
<1>2. ASSUME inside(e, c)
      PROVE  i \in 1..Len(e) /\ e[i].start <= c /\ c < End(e[i])
  <2>1. i \in 0..Len(e) /\ \A k \in 1..Len(e) : e[k].start <= c <=> k <= i BY LastRunIs
  <2>2. i > 0 /\ c < End(e[i]) BY <1>2 DEF inside
  <2> HIDE DEF i
  <2> QED BY <1>0, <2>1, <2>2
<1>3. End(e[i]) = e[i].start + e[i].len BY DEF End
<1>4. ASSUME inside(e, c), NEW j \in 1..Len(e), j # i PROVE ~In(c, e[j])
  <2> HIDE DEF i
  <2>1. CASE j < i
    <3>1. End(e[j]) < e[i].start BY <1>2, <1>4, <2>1 DEF Sorted
    <3> QED BY <1>0, <1>2, <1>4, <3>1 DEF In
  <2>2. CASE j > i
    <3>1. End(e[i]) < e[j].start BY <1>2, <1>4, <2>2 DEF Sorted
    <3> QED BY <1>0, <1>2, <1>4, <3>1 DEF In
  <2> QED BY <1>0, <1>2, <1>4, <2>1, <2>2
<1>5. ASSUME inside(e, c), NEW x \in Nat
      PROVE  Noted(e, x) <=> In(x, e[i]) \/ \E j \in 1..Len(e) : j # i /\ In(x, e[j])
  <2> HIDE DEF i
  <2> QED BY <1>2, <1>5 DEF Noted, In
<1>6. ASSUME inside(e, c), NEW r \in Run, r.start >= e[i].start, End(r) <= End(e[i])
      PROVE  /\ Sorted([e EXCEPT ![i] = r]) /\ Len([e EXCEPT ![i] = r]) = Len(e)
             /\ \A j \in 1..Len(e) : [e EXCEPT ![i] = r][j] = IF j = i THEN r ELSE e[j]
             /\ \A x \in Nat : Noted([e EXCEPT ![i] = r], x) <=>
                               In(x, r) \/ \E j \in 1..Len(e) : j # i /\ In(x, e[j])
  <2> HIDE DEF i
  <2>1. i \in 1..Len(e) BY <1>2, <1>6
  <2>2. r.start \in Nat /\ End(r) \in Nat BY <1>6 DEF Run, End
  <2>3. \A j \in 1..Len(e) : j < i => End(e[j]) < r.start
    <3> SUFFICES ASSUME NEW j \in 1..Len(e), j < i PROVE End(e[j]) < r.start OBVIOUS
    <3>1. End(e[j]) < e[i].start BY <2>1 DEF Sorted
    <3> QED BY <1>0, <1>6, <2>1, <2>2, <3>1
  <2>4. \A j \in 1..Len(e) : i < j => End(r) < e[j].start
    <3> SUFFICES ASSUME NEW j \in 1..Len(e), i < j PROVE End(r) < e[j].start OBVIOUS
    <3>1. End(e[i]) < e[j].start BY <2>1 DEF Sorted
    <3> QED BY <1>0, <1>6, <2>1, <2>2, <3>1
  <2> QED BY <2>1, <2>3, <2>4, ReplaceRun
<1>7. CASE inside(e, c) /\ c = e[i].start /\ e[i].len = 1
  <2>1. ext_remove(e, c) = RemoveAt(e, i) BY <1>7 DEF ext_remove
  <2>2. i \in 1..Len(e) BY <1>2, <1>7
  <2>3. \A x \in Nat : In(x, e[i]) <=> x = c BY <1>3, <1>7, <2>2 DEF In
  <2> HIDE DEF i
  <2>4. /\ Sorted(RemoveAt(e, i))
        /\ \A x \in Nat : Noted(RemoveAt(e, i), x) <=> \E j \in 1..Len(e) : j # i /\ In(x, e[j])
    BY <2>2, RemoveRun
  <2> QED BY <1>4, <1>5, <1>7, <2>1, <2>3, <2>4
<1>8. CASE inside(e, c) /\ c = e[i].start /\ e[i].len # 1
  <2> DEFINE r == [start |-> c + 1, len |-> e[i].len - 1]
  <2>1. ext_remove(e, c) = [e EXCEPT ![i] = r] BY <1>8 DEF ext_remove
  <2>2. e[i].len - 1 \in Nat \ {0} /\ e[i].len \in Nat BY <1>0, <1>2, <1>8
  <2>3. r \in Run /\ r.start = c + 1 /\ End(r) = c + 1 + (e[i].len - 1) BY <2>2, MakeRun
  <2> HIDE DEF r, i
  <2>4. End(r) = End(e[i]) BY <1>3, <1>8, <2>2, <2>3
  <2>5. r.start >= e[i].start /\ End(r) <= End(e[i]) BY <1>0, <1>2, <1>8, <2>3, <2>4
  <2>6. \A x \in Nat : In(x, r) <=> In(x, e[i]) /\ x # c BY <1>8, <2>3, <2>4 DEF In
  <2>7. r \in Run BY <2>3
  <2>8. /\ Sorted([e EXCEPT ![i] = r])
        /\ \A x \in Nat : Noted([e EXCEPT ![i] = r], x) <=>
                          In(x, r) \/ \E j \in 1..Len(e) : j # i /\ In(x, e[j])
    BY <1>6, <1>8, <2>5, <2>7
  <2> QED BY <1>4, <1>5, <1>8, <2>1, <2>6, <2>8
<1>9. CASE inside(e, c) /\ c # e[i].start /\ c = End(e[i]) - 1
  <2> DEFINE r == [start |-> e[i].start, len |-> e[i].len - 1]
  <2>1. i \in 1..Len(e) BY <1>2, <1>9
  <2>2. ext_remove(e, c) = [e EXCEPT ![i].len = @ - 1] BY <1>9 DEF ext_remove
  <2>3. ext_remove(e, c) = [e EXCEPT ![i] = r]
    <3>1. e[i] \in Run BY <1>0, <2>1
    <3>2. [e[i] EXCEPT !.len = e[i].len - 1] = r BY <3>1 DEF Run
    <3> HIDE DEF r
    <3> QED BY <2>2, <3>2
  <2>4. e[i].start \in Nat /\ e[i].len - 1 \in Nat \ {0} /\ e[i].len \in Nat
    <3>1. e[i].start \in Nat /\ e[i].len \in Nat /\ e[i].start <= c /\ c = e[i].start + e[i].len - 1
      BY <1>0, <1>2, <1>3, <1>9
    <3> QED BY <1>9, <3>1
  <2>5. r \in Run /\ r.start = e[i].start /\ End(r) = e[i].start + (e[i].len - 1) BY <2>4, MakeRun
  <2> HIDE DEF r, i
  <2>6. End(r) = c BY <1>3, <1>9, <2>4, <2>5
  <2>7. r.start >= e[i].start /\ End(r) <= End(e[i]) BY <1>0, <1>2, <1>9, <2>4, <2>5, <2>6
  <2>8. \A x \in Nat : In(x, r) <=> In(x, e[i]) /\ x # c
    BY <1>0, <1>2, <1>9, <2>1, <2>5, <2>6 DEF In
  <2>10. r \in Run BY <2>5
  <2>9. /\ Sorted([e EXCEPT ![i] = r])
        /\ \A x \in Nat : Noted([e EXCEPT ![i] = r], x) <=>
                          In(x, r) \/ \E j \in 1..Len(e) : j # i /\ In(x, e[j])
    BY <1>6, <1>9, <2>7, <2>10
  <2> QED BY <1>4, <1>5, <1>9, <2>3, <2>8, <2>9
<1>10. CASE inside(e, c) /\ c # e[i].start /\ c # End(e[i]) - 1 /\ Len(e) >= VSD_EXTENTS
  <2>1. ext_remove(e, c) = e BY <1>10 DEF ext_remove
  <2> QED BY <1>0, <1>10, <2>1, ExtentsAssumption
<1>11. CASE inside(e, c) /\ c # e[i].start /\ c # End(e[i]) - 1 /\ ~(Len(e) >= VSD_EXTENTS)
  <2> DEFINE r == [start |-> e[i].start, len |-> c - e[i].start]
             q == [start |-> c + 1, len |-> End(e[i]) - c - 1]
             f == [e EXCEPT ![i] = r]
  <2>1. i \in 1..Len(e) BY <1>2, <1>11
  <2>2. ext_remove(e, c) = InsertAt([e EXCEPT ![i].len = c - e[i].start], i + 1, q)
    BY <1>11 DEF ext_remove
  <2>3. [e EXCEPT ![i].len = c - e[i].start] = f
    <3>1. e[i] \in Run BY <1>0, <2>1
    <3>2. [e[i] EXCEPT !.len = c - e[i].start] = r BY <3>1 DEF Run
    <3> HIDE DEF r
    <3> QED BY <3>2 DEF f
  <2>4. /\ e[i].start \in Nat /\ c - e[i].start \in Nat \ {0} /\ End(e[i]) \in Nat
        /\ End(e[i]) - c - 1 \in Nat \ {0}
    BY <1>0, <1>2, <1>11
  <2>5. r \in Run /\ r.start = e[i].start /\ End(r) = e[i].start + (c - e[i].start) BY <2>4, MakeRun
  <2>6. q \in Run /\ q.start = c + 1 /\ End(q) = c + 1 + (End(e[i]) - c - 1) BY <2>4, MakeRun
  <2> HIDE DEF r, q, i
  <2>7. End(r) = c /\ End(q) = End(e[i]) BY <2>4, <2>5, <2>6
  <2>8. r.start >= e[i].start /\ End(r) <= End(e[i]) BY <1>0, <1>2, <1>11, <2>4, <2>5, <2>7
  <2>9. r \in Run /\ q \in Run BY <2>5, <2>6
  <2>10. /\ Sorted(f) /\ Len(f) = Len(e)
         /\ \A j \in 1..Len(e) : f[j] = IF j = i THEN r ELSE e[j]
         /\ \A x \in Nat : Noted(f, x) <=> In(x, r) \/ \E j \in 1..Len(e) : j # i /\ In(x, e[j])
    BY <1>6, <1>11, <2>8, <2>9
  <2> HIDE DEF f
  <2>11. \A j \in 1..Len(f) : j < i + 1 => End(f[j]) < q.start
    <3> SUFFICES ASSUME NEW j \in 1..Len(f), j < i + 1 PROVE End(f[j]) < q.start OBVIOUS
    <3>1. CASE j = i BY <2>1, <2>6, <2>7, <2>10, <3>1
    <3>2. CASE j < i
      <4>1. f[j] = e[j] /\ End(e[j]) < e[i].start BY <2>1, <2>10, <3>2 DEF Sorted
      <4> QED BY <1>0, <1>2, <1>11, <2>1, <2>6, <2>10, <4>1
    <3> QED BY <1>0, <2>1, <2>10, <3>1, <3>2
  <2>12. \A j \in 1..Len(f) : i + 1 <= j => End(q) < f[j].start
    <3> SUFFICES ASSUME NEW j \in 1..Len(f), i + 1 <= j PROVE End(q) < f[j].start OBVIOUS
    <3>1. j # i /\ i < j /\ f[j] = e[j] BY <1>0, <2>1, <2>10
    <3> QED BY <2>1, <2>7, <2>10, <3>1 DEF Sorted
  <2>13. i + 1 \in 1..Len(f) + 1 BY <1>0, <2>1, <2>10
  <2>14. /\ Sorted(InsertAt(f, i + 1, q))
         /\ \A x \in Nat : Noted(InsertAt(f, i + 1, q), x) <=> Noted(f, x) \/ In(x, q)
    <3>1. q \in Run /\ Sorted(f) BY <2>9, <2>10
    <3> QED BY <2>11, <2>12, <2>13, <3>1, InsertRun
  <2>15. \A x \in Nat : In(x, r) \/ In(x, q) <=> In(x, e[i]) /\ x # c
    <3>1. /\ r.start = e[i].start /\ End(r) = c /\ q.start = c + 1 /\ End(q) = End(e[i])
          /\ e[i].start <= c /\ c < End(e[i]) /\ e[i].start \in Nat /\ End(e[i]) \in Nat
      BY <1>2, <1>11, <2>4, <2>5, <2>6, <2>7
    <3> QED BY <3>1 DEF In
  <2>16. ext_remove(e, c) = InsertAt(f, i + 1, q) BY <2>2, <2>3
  <2> QED BY <1>4, <1>5, <1>11, <2>10, <2>14, <2>15, <2>16
<1> QED BY <1>1, <1>7, <1>8, <1>9, <1>10, <1>11

\* Neither ext_add nor ext_remove takes a slot beyond the table's last.
LEMMA TableFits ==
    ASSUME NEW e, Sorted(e), Len(e) <= VSD_EXTENTS, NEW c \in Nat
    PROVE  Len(ext_add(e, c)) <= VSD_EXTENTS /\ Len(ext_remove(e, c)) <= VSD_EXTENTS
<1> DEFINE i == LastRun(e, c)
<1>0. /\ e \in Seq(Run) /\ Len(e) \in Nat /\ VSD_EXTENTS \in Nat
      /\ \A k \in 1..Len(e) : e[k] \in Run /\ e[k].start \in Nat /\ e[k].len \in Nat \ {0}
      /\ i \in 0..Len(e)
  BY SortedRuns, LastRunIs, ExtentsAssumption
<1>1. \A k, r : Len([e EXCEPT ![k] = r]) = Len(e)
  BY <1>0
<1>2. ASSUME NEW d \in Seq(Run), Len(d) = Len(e), NEW k \in 1..Len(e)
      PROVE  Len(RemoveAt(d, k)) <= VSD_EXTENTS
  <2>1. Len(RemoveAt(d, k)) = Len(d) - 1 BY <1>2, Removed
  <2> QED BY <1>0, <1>2, <2>1
<1>3. ASSUME NEW d \in Seq(Run), Len(d) = Len(e), NEW r \in Run, ~(Len(e) >= VSD_EXTENTS)
      PROVE  Len(InsertAt(d, i + 1, r)) <= VSD_EXTENTS
  <2>1. i + 1 \in 1..Len(d) + 1 BY <1>0, <1>3
  <2> HIDE DEF i
  <2>2. Len(InsertAt(d, i + 1, r)) = Len(d) + 1 BY <1>3, <2>1, Inserted
  <2> QED BY <1>0, <1>3, <2>2
<1>4. ASSUME NEW k \in 1..Len(e), NEW n \in Nat \ {0}
      PROVE  [e EXCEPT ![k].len = n] \in Seq(Run) /\ Len([e EXCEPT ![k].len = n]) = Len(e)
  <2>1. [e EXCEPT ![k].len = n] = [e EXCEPT ![k] = [start |-> e[k].start, len |-> n]] BY <1>0, Resized
  <2> DEFINE r == [start |-> e[k].start, len |-> n]
  <2>2. r \in Run BY <1>0 DEF Run
  <2> HIDE DEF r
  <2>3. [e EXCEPT ![k] = r] \in Seq(Run) BY <1>0, <2>2, ExceptSeq
  <2> QED BY <1>0, <1>1, <2>1, <2>3 DEF r
<1>5. Len(ext_add(e, c)) <= VSD_EXTENTS
  <2>1. CASE inside(e, c) \/ Len(ext_add(e, c)) = Len(e) BY <2>1 DEF ext_add
  <2>2. CASE ~inside(e, c) /\ ~(i > 0 /\ End(e[i]) = c) /\ ~(i < Len(e) /\ e[i + 1].start = c + 1)
    <3>1. ext_add(e, c) = IF Len(e) >= VSD_EXTENTS THEN e ELSE InsertAt(e, i + 1, [start |-> c, len |-> 1])
      BY <2>2 DEF ext_add
    <3>2. [start |-> c, len |-> 1] \in Run BY DEF Run
    <3> HIDE DEF i
    <3> QED BY <1>0, <1>3, <3>1, <3>2
  <2>3. CASE ~inside(e, c) /\ (i > 0 /\ End(e[i]) = c) /\ (i < Len(e) /\ e[i + 1].start = c + 1)
    <3>1. ext_add(e, c) = RemoveAt([e EXCEPT ![i].len = @ + 1 + e[i + 1].len], i + 1)
      BY <2>3 DEF ext_add
    <3>2. i \in 1..Len(e) /\ i + 1 \in 1..Len(e) BY <1>0, <2>3
    <3> HIDE DEF i
    <3>3. e[i].len + 1 + e[i + 1].len \in Nat \ {0} BY <1>0, <3>2
    <3> QED BY <1>2, <1>4, <3>1, <3>2, <3>3
  <2>4. CASE ~inside(e, c) /\ (i > 0 /\ End(e[i]) = c) /\ ~(i < Len(e) /\ e[i + 1].start = c + 1)
    <3>1. ext_add(e, c) = [e EXCEPT ![i].len = @ + 1] BY <2>4 DEF ext_add
    <3> QED BY <1>0, <3>1
  <2>5. CASE ~inside(e, c) /\ ~(i > 0 /\ End(e[i]) = c) /\ (i < Len(e) /\ e[i + 1].start = c + 1)
    <3>1. ext_add(e, c) = [e EXCEPT ![i + 1] = [start |-> @.start - 1, len |-> @.len + 1]] BY <2>5 DEF ext_add
    <3> QED BY <1>0, <3>1
  <2> QED BY <2>1, <2>2, <2>3, <2>4, <2>5
<1>6. Len(ext_remove(e, c)) <= VSD_EXTENTS
  <2>1. CASE ~inside(e, c) BY <2>1 DEF ext_remove
  <2>2. CASE inside(e, c)
    <3>0. i \in 1..Len(e) BY <1>0, <2>2 DEF inside
    <3>1. CASE c = e[i].start
      <4>1. ext_remove(e, c) = IF e[i].len = 1 THEN RemoveAt(e, i)
                               ELSE [e EXCEPT ![i] = [start |-> c + 1, len |-> e[i].len - 1]]
        BY <2>2, <3>1 DEF ext_remove
      <4> HIDE DEF i
      <4> QED BY <1>0, <1>1, <1>2, <3>0, <4>1
    <3>2. CASE c # e[i].start /\ c = End(e[i]) - 1
      <4>1. ext_remove(e, c) = [e EXCEPT ![i].len = @ - 1] BY <2>2, <3>2 DEF ext_remove
      <4> QED BY <1>0, <4>1
    <3>3. CASE c # e[i].start /\ c # End(e[i]) - 1
      <4>1. ext_remove(e, c) = IF Len(e) >= VSD_EXTENTS THEN e
                 ELSE InsertAt([e EXCEPT ![i].len = c - e[i].start], i + 1,
                               [start |-> c + 1, len |-> End(e[i]) - c - 1])
        BY <2>2, <3>3 DEF ext_remove
      <4>2. c - e[i].start \in Nat \ {0} /\ End(e[i]) - c - 1 \in Nat \ {0}
        <5>1. \A k \in 1..Len(e) : e[k].start <= c <=> k <= i BY LastRunIs
        <5>2. c < End(e[i]) BY <2>2 DEF inside
        <5> HIDE DEF i
        <5>3. e[i].start <= c /\ e[i].start \in Nat /\ End(e[i]) \in Nat BY <1>0, <3>0, <5>1 DEF End
        <5> QED BY <3>3, <5>2, <5>3
      <4>3. [start |-> c + 1, len |-> End(e[i]) - c - 1] \in Run BY <4>2 DEF Run
      <4> HIDE DEF i
      <4> QED BY <1>3, <1>4, <3>0, <4>1, <4>2, <4>3
    <3> QED BY <3>1, <3>2, <3>3
  <2> QED BY <2>1, <2>2
<1> QED BY <1>5, <1>6

-----------------------------------------------------------------------------
(* The search for a run.                                                   *)

\* A set of naturals that is not empty has a least element.
LEMMA Least ==
    ASSUME NEW T \in SUBSET Nat, T # {}
    PROVE  \E m \in T : \A n \in T : m <= n
<1>1. PICK m \in T : \A n \in T : ~(<<n, m>> \in OpToRel(<, Nat)) BY WFMin, NatLessThanWellFounded
<1>2. \A n \in T : ~(n < m) BY <1>1 DEF OpToRel
<1> QED BY <1>2

\* ext_find's halving finds the last run starting at or before c.  Best is
\* the loop's result from any of its states: a solution of the recursion, and
\* by induction on the distance of lo and hi the only one.
LEMMA FindsLastRun ==
    ASSUME NEW e, Sorted(e), NEW c \in Nat
    PROVE  ext_find(e, c) = LastRun(e, c)
<1> DEFINE L == Len(e)
           R == LastRun(e, c)
           Loop == [lo : 1..L + 1, hi : 0..L, at : 0..L]
           Mid(s) == (s.lo + s.hi) \div 2
           Above(s) == [s EXCEPT !.lo = Mid(s) + 1, !.at = Mid(s)]
           Below(s) == [s EXCEPT !.hi = Mid(s) - 1]
           Turn(f, s) ==
             LET mid == (s.lo + s.hi) \div 2 IN
             IF s.lo > s.hi THEN s.at
             ELSE IF e[mid].start <= c THEN f[[s EXCEPT !.lo = mid + 1, !.at = mid]]
                                       ELSE f[[s EXCEPT !.hi = mid - 1]]
           Solves(f) == f = [s \in Loop |-> Turn(f, s)]
           Best(s) == IF s.lo > s.hi \/ R < s.lo THEN s.at ELSE IF R <= s.hi THEN R ELSE s.hi
           Goes(s) == IF Mid(s) <= R THEN Above(s) ELSE Below(s)
           best == [s \in Loop |-> Best(s)]
           search == CHOOSE f : Solves(f)
           start == [lo |-> 1, hi |-> L, at |-> 0]
<1>1. ext_find(e, c) = search[start] BY DEF ext_find
<1>2. L \in Nat /\ R \in 0..L /\ \A i \in 1..L : e[i].start <= c <=> i <= R
  BY SortedRuns, LastRunIs
<1> HIDE DEF L, R
<1>3. ASSUME NEW s \in Loop
      PROVE  s.lo \in 1..L + 1 /\ s.hi \in 0..L /\ s.at \in 0..L
  OBVIOUS
<1>4. ASSUME NEW s \in Loop, s.lo > s.hi
      PROVE  Best(s) = s.at /\ \A f : Turn(f, s) = s.at
  BY <1>4
<1>5. ASSUME NEW s \in Loop, ~(s.lo > s.hi)
      PROVE  /\ Goes(s) \in Loop /\ Best(Goes(s)) = Best(s)
             /\ Goes(s).hi - Goes(s).lo < s.hi - s.lo
             /\ \A f : Turn(f, s) = f[Goes(s)]
  <2>1. Mid(s) \in s.lo..s.hi /\ Mid(s) \in 1..L BY <1>2, <1>3, <1>5
  <2>2. \A f : Turn(f, s) = f[Goes(s)] BY <1>2, <1>5, <2>1
  <2> HIDE DEF Mid, Turn
  <2>3. Mid(s) + 1 \in 1..L + 1 /\ Mid(s) - 1 \in 0..L /\ Mid(s) \in 0..L BY <1>2, <2>1
  <2>4. /\ Above(s) \in Loop /\ Above(s).lo = Mid(s) + 1 /\ Above(s).hi = s.hi /\ Above(s).at = Mid(s)
        /\ Below(s) \in Loop /\ Below(s).lo = s.lo /\ Below(s).hi = Mid(s) - 1 /\ Below(s).at = s.at
    BY <2>3
  <2> HIDE DEF Above, Below, Loop
  <2>5. CASE Mid(s) <= R
    <3>1. Goes(s) = Above(s) BY <2>5
    <3> HIDE DEF Goes
    <3> QED BY <1>2, <1>3, <1>5, <2>1, <2>2, <2>4, <2>5, <3>1
  <2>6. CASE ~(Mid(s) <= R)
    <3>1. Goes(s) = Below(s) BY <2>6
    <3> HIDE DEF Goes
    <3> QED BY <1>2, <1>3, <1>5, <2>1, <2>2, <2>4, <2>6, <3>1
  <2> QED BY <2>5, <2>6
<1> HIDE DEF Loop, Best, Goes, Turn
<1>6. Solves(best)
  <2>1. \A s \in Loop : best[s] = Turn(best, s)
    <3> SUFFICES ASSUME NEW s \in Loop PROVE best[s] = Turn(best, s) OBVIOUS
    <3>1. CASE s.lo > s.hi BY <1>4, <3>1
    <3>2. CASE ~(s.lo > s.hi)
      <4>1. Goes(s) \in Loop /\ Best(Goes(s)) = Best(s) BY <1>5, <3>2
      <4>2. best[Goes(s)] = Best(s) /\ best[s] = Best(s) BY <4>1
      <4> HIDE DEF best
      <4> QED BY <1>5, <3>2, <4>2
    <3> QED BY <3>1, <3>2
  <2>2. best = [s \in Loop |-> best[s]] OBVIOUS
  <2> HIDE DEF best
  <2> QED BY <2>1, <2>2
<1>7. \A s \in Loop : search[s] = Turn(search, s)
  <2>1. Solves(search)
    <3> HIDE DEF Solves
    <3> QED BY <1>6
  <2> HIDE DEF search
  <2> QED BY <2>1
<1> HIDE DEF search
<1> DEFINE Wrong == {n \in Nat : \E s \in Loop : s.hi + 1 - s.lo <= n /\ search[s] # Best(s)}
<1>8. Wrong = {}
  <2> SUFFICES ASSUME Wrong # {} PROVE FALSE OBVIOUS
  <2>1. PICK m \in Wrong : \A n \in Wrong : m <= n
    <3>1. Wrong \in SUBSET Nat OBVIOUS
    <3> HIDE DEF Wrong
    <3> QED BY <3>1, Least
  <2>2. PICK s \in Loop : s.hi + 1 - s.lo <= m /\ search[s] # Best(s) BY <2>1
  <2>3. ~(s.lo > s.hi) BY <1>4, <1>7, <2>2
  <2>4. Goes(s) \in Loop /\ search[Goes(s)] # Best(Goes(s)) BY <1>5, <1>7, <2>2, <2>3
  <2>5. m - 1 \in Nat /\ Goes(s).hi + 1 - Goes(s).lo <= m - 1
    <3>1. Goes(s).hi - Goes(s).lo < s.hi - s.lo BY <1>5, <2>3
    <3>2. m \in Nat BY <2>1
    <3> QED BY <1>2, <1>3, <2>2, <2>3, <2>4, <3>1, <3>2
  <2>6. m - 1 \in Wrong BY <2>4, <2>5
  <2>7. m \in Nat BY <2>1
  <2> HIDE DEF Wrong
  <2>8. m <= m - 1 BY <2>1, <2>6
  <2> QED BY <2>7, <2>8
<1>9. start \in Loop /\ Best(start) = R /\ start.hi + 1 - start.lo \in Nat
  BY <1>2 DEF Loop, Best
<1>10. search[start] = Best(start)
  <2> HIDE DEF start
  <2> QED BY <1>8, <1>9, <1>3
<1> QED BY <1>1, <1>9, <1>10 DEF R
\* Runs take a cluster each and the gap after it: a table of clusters of a
\* card holds half as many runs as the card has clusters, at most.
LEMMA RunsAndGaps ==
    ASSUME NEW e, Sorted(e), NEW n \in Nat,
           \A x \in Nat : Noted(e, x) => x \in 2..n
    PROVE  2 * Len(e) <= n
<1>0. /\ e \in Seq(Run) /\ Len(e) \in Nat
      /\ \A k \in 1..Len(e) : /\ e[k] \in Run /\ e[k].start \in Nat /\ e[k].len \in Nat \ {0}
                              /\ End(e[k]) \in Nat /\ e[k].start < End(e[k])
  BY SortedRuns
<1>1. \A k \in 1..Len(e) : e[k].start \in 2..n
  <2> SUFFICES ASSUME NEW k \in 1..Len(e) PROVE e[k].start \in 2..n OBVIOUS
  <2>1. Noted(e, e[k].start) BY <1>0 DEF Noted
  <2> QED BY <1>0, <2>1
<1>2. \A k \in 1..Len(e) : e[k].start >= 2 * k
  <2> DEFINE Low == {k \in 1..Len(e) : e[k].start < 2 * k}
  <2> SUFFICES ASSUME Low # {} PROVE FALSE BY <1>0
  <2>1. Low \in SUBSET Nat BY <1>0
  <2>2. PICK m \in Low : \A k \in Low : m <= k
    <3> HIDE DEF Low
    <3> QED BY <2>1, Least
  <2>3. m \in 1..Len(e) /\ e[m].start < 2 * m BY <2>2
  <2>4. \A k \in 1..Len(e) : e[k].start < 2 * k => m <= k BY <2>2
  <2> HIDE DEF Low
  <2>5. PICK p \in 1..Len(e) : p + 1 = m
    <3>1. m # 1 BY <1>1, <2>3
    <3>2. m - 1 \in 1..Len(e) /\ (m - 1) + 1 = m BY <1>0, <2>3, <3>1
    <3> QED BY <3>2
  <2>6. e[p].start >= 2 * p BY <1>0, <2>3, <2>4, <2>5
  <2>7. End(e[p]) < e[m].start BY <1>0, <2>3, <2>5 DEF Sorted
  <2> QED BY <1>0, <2>3, <2>5, <2>6, <2>7
<1>3. CASE Len(e) = 0 BY <1>3
<1>4. CASE Len(e) # 0
  <2>1. Len(e) \in 1..Len(e) BY <1>0, <1>4
  <2>2. e[Len(e)].start >= 2 * Len(e) BY <1>2, <2>1
  <2> QED BY <1>0, <1>1, <2>1, <2>2
<1> QED BY <1>3, <1>4
=============================================================================
