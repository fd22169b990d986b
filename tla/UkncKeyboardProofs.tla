------------------------- MODULE UkncKeyboardProofs -------------------------
(***************************************************************************)
(* The books of kbd_tx_uknc, for any keys, any matrix and any number of    *)
(* generations: with one keyboard, attached and detached at will, the      *)
(* machine is handed a legal stream, and no row stays down with nobody on  *)
(* it.                                                                     *)
(***************************************************************************)
EXTENDS HidKeyboardProofs, FiniteSetTheorems

\* The key whose press is not in the books yet.
Pending == IF pc[Slot] \in {"roll", "code"} THEN {key[Slot]} ELSE {}

\* The keys that hold row r down: the held ones the last rollover did not
\* forget.
Current(r) == {k \in held \ Pending : Row(k) = r /\ key_gen[k] = gen[r]}

AtKey ==
    /\ pc[Slot] = "idle" => now[Slot] = last[Slot] /\ todo[Slot] = {}
    /\ pc[Slot] \in {"roll", "code", "up"} => key[Slot] \in Known
    /\ pc[Slot] \in {"roll", "code"} => key[Slot] \in held

\* A held key is down, or its release is still to come.
HeldSeen == \A k \in held : k \in todo[Slot] <=> k \notin now[Slot]

ByteIs == \A r \in Rows, c \in Cols \union {Up} : byte = [row |-> r, col |-> c] => down[r] = c

\* The release of row r is on its way.
Leaving(r) == pc[Slot] = "up" /\ Row(key[Slot]) = r

\* The count of a row is that of the keys that hold it, all with one code,
\* and the machine believes it down by that code.
RowBooks(r) ==
    /\ rows[r] = Cardinality(Current(r))
    /\ \A k \in Current(r) : Code[k] = code_of[r]
    /\ down[r] = IF rows[r] # 0 \/ Leaving(r) THEN code_of[r].col ELSE Up

RowIs ==
    /\ pc[Slot] = "roll" => rows[Row(key[Slot])] # 0
    /\ pc[Slot] = "code" => rows[Row(key[Slot])] = 0
    /\ pc[Slot] = "up" => rows[Row(key[Slot])] = 0 /\ Code[key[Slot]] = code_of[Row(key[Slot])]

BooksOK == RowIs /\ \A r \in Rows : RowBooks(r)
KbdOK == KbdTypeOK /\ AtKey /\ HeldSeen /\ ByteIs /\ (~lost => BooksOK)

-----------------------------------------------------------------------------
(* Codes, counts and bytes.                                                *)

LEMMA KnownCode ==
    ASSUME NEW k \in Known
    PROVE  /\ k \in Keys /\ Row(k) \in Rows /\ Code[k].col \in Cols /\ Code[k].col # Up
           /\ Code[k] = [row |-> Row(k), col |-> Code[k].col]
BY KeysAssumption DEF Known, Row

LEMMA CountBounds ==
    ASSUME NEW S \in SUBSET Keys
    PROVE  IsFiniteSet(S) /\ Cardinality(S) \in 0 .. 255
<1>1. IsFiniteSet(S) /\ Cardinality(S) <= Cardinality(Keys)
  BY FS_Subset, KeysAssumption
<1>2. Cardinality(S) \in Nat /\ Cardinality(Keys) \in Nat
  BY <1>1, FS_CardinalityType, KeysAssumption
<1> QED BY <1>1, <1>2, KeysAssumption

LEMMA CurrentKeys ==
    ASSUME KbdTypeOK, NEW r
    PROVE  Current(r) \in SUBSET Keys /\ Current(r) \subseteq Known
BY DEF KbdTypeOK, Current, Known

\* What At does, with one keyboard.
LEMMA Moved ==
    ASSUME KbdTypeOK, NEW s, NEW k, At(Slot, s, k)
    PROVE  pc'[Slot] = s /\ key'[Slot] = k
BY SlotAssumption DEF KbdTypeOK, At

\* What Tx does.
LEMMA Sent ==
    ASSUME KbdTypeOK, ByteIs, NEW r \in Rows, NEW c \in Cols \union {Up}, Tx(r, c)
    PROVE  /\ down' = [down EXCEPT ![r] = c] /\ ByteIs'
           /\ byte' \in [row : Rows, col : Cols \union {Up}]
           /\ down' \in [Rows -> Cols \union {Up}]
<1>1. byte' = [row |-> r, col |-> c] /\ byte' \in [row : Rows, col : Cols \union {Up}]
  BY DEF Tx
<1>2. down' = [down EXCEPT ![r] = c]
  <2>1. CASE byte' # byte
    BY <2>1 DEF Tx
  <2>2. CASE byte' = byte
    <3>1. down[r] = c
      BY <1>1, <2>2 DEF ByteIs
    <3>2. down' = down
      BY <2>2 DEF Tx
    <3> QED BY <3>1, <3>2 DEF KbdTypeOK
  <2> QED BY <2>1, <2>2
<1>3. ByteIs'
  <2> SUFFICES ASSUME NEW q \in Rows, NEW d \in Cols \union {Up}, byte' = [row |-> q, col |-> d]
      PROVE  down'[q] = d
    BY DEF ByteIs
  <2>1. q = r /\ d = c
    BY <1>1
  <2> QED BY <1>2, <2>1 DEF KbdTypeOK
<1> QED BY <1>1, <1>2, <1>3 DEF KbdTypeOK

\* A row that the step leaves alone.
LEMMA OtherRow ==
    ASSUME NEW r \in Rows, RowBooks(r), rows'[r] = rows[r], code_of'[r] = code_of[r],
           down'[r] = down[r], Current(r)' = Current(r), Leaving(r)' <=> Leaving(r)
    PROVE  RowBooks(r)'
BY DEF RowBooks

\* A step whose thread has no byte to send and whose books stay.
LEMMA NothingSent ==
    ASSUME KbdOK, UNCHANGED <<held, rows, code_of, gen, key_gen, byte, down, lost>>,
           pc[Slot] \in {"idle", "next"}, pc'[Slot] \in {"idle", "next"}
    PROVE  ByteIs' /\ (~lost' => BooksOK')
<1>1. ASSUME BooksOK PROVE BooksOK'
  <2>1. ASSUME NEW r \in Rows PROVE RowBooks(r)'
    <3>1. Current(r)' = Current(r) /\ (Leaving(r)' <=> Leaving(r))
      BY DEF Current, Pending, Leaving
    <3> QED BY <1>1, <3>1, OtherRow DEF BooksOK
  <2> QED BY <2>1 DEF BooksOK, RowIs
<1> QED BY <1>1 DEF KbdOK, ByteIs

-----------------------------------------------------------------------------
(* The steps of the thread.                                                *)

LEMMA ReportKeeps ==
    ASSUME KbdOK, NEW R \in SUBSET Keys, Report(Slot, R)
    PROVE  KbdOK'
<1>1. pc'[Slot] = "next" /\ key'[Slot] = NoKey
  BY Moved DEF KbdOK, Report, NextChange
<1>2. now'[Slot] = R /\ todo'[Slot] = (last[Slot] \ R) \union (R \ last[Slot])
  BY SlotAssumption DEF KbdOK, KbdTypeOK, Report
<1>3. KbdTypeOK'
  BY SlotAssumption DEF KbdOK, KbdTypeOK, Report, NextChange, At, books, Quiet
<1>4. AtKey' /\ HeldSeen'
  BY <1>1, <1>2 DEF KbdOK, AtKey, HeldSeen, Report, books
<1>5. ByteIs' /\ (~lost' => BooksOK')
  BY <1>1, NothingSent DEF Report, books, Quiet
<1> QED BY <1>3, <1>4, <1>5 DEF KbdOK

LEMMA ParsedKeeps ==
    ASSUME KbdOK, Parsed(Slot)
    PROVE  KbdOK'
<1>1. pc'[Slot] = "idle" /\ key'[Slot] = NoKey
  BY Moved DEF KbdOK, Parsed
<1>2. last'[Slot] = now[Slot]
  BY SlotAssumption DEF KbdOK, KbdTypeOK, Parsed
<1>3. KbdTypeOK'
  BY SlotAssumption DEF KbdOK, KbdTypeOK, Parsed, At, books, Quiet
<1>4. AtKey' /\ HeldSeen'
  BY <1>1, <1>2 DEF KbdOK, AtKey, HeldSeen, Parsed, books
<1>5. ByteIs' /\ (~lost' => BooksOK')
  BY <1>1, NothingSent DEF Parsed, books, Quiet
<1> QED BY <1>3, <1>4, <1>5 DEF KbdOK

LEMMA SendUpKeeps ==
    ASSUME KbdOK, SendUp(Slot)
    PROVE  KbdOK'
<1> DEFINE r == Row(key[Slot])
<1>1. pc[Slot] = "up" /\ key[Slot] \in Known /\ r \in Rows
  BY KnownCode DEF KbdOK, AtKey, SendUp
<1>2. pc'[Slot] = "next" /\ key'[Slot] = NoKey
  BY Moved DEF KbdOK, SendUp, NextChange
<1>3. /\ down' = [down EXCEPT ![r] = Up] /\ ByteIs'
      /\ byte' \in [row : Rows, col : Cols \union {Up}] /\ down' \in [Rows -> Cols \union {Up}]
  <2> HIDE DEF r
  <2> QED BY <1>1, Sent DEF KbdOK, SendUp, r
<1>4. KbdTypeOK'
  BY <1>3, SlotAssumption DEF KbdOK, KbdTypeOK, SendUp, NextChange, At, books
<1>5. AtKey' /\ HeldSeen'
  BY <1>2 DEF KbdOK, AtKey, HeldSeen, SendUp, books
<1>6. ASSUME BooksOK PROVE BooksOK'
  <2>1. UNCHANGED <<held, rows, code_of, gen, key_gen>> /\ rows[r] = 0
    BY <1>1, <1>6 DEF SendUp, books, BooksOK, RowIs
  <2>2. ASSUME NEW q \in Rows PROVE RowBooks(q)' /\ Current(q)' = Current(q)
    <3>1. Current(q)' = Current(q) /\ ~Leaving(q)'
      BY <1>1, <1>2, <2>1 DEF Current, Pending, Leaving
    <3>2. CASE q = r
      BY <1>3, <1>6, <2>1, <3>1, <3>2 DEF BooksOK, RowBooks, KbdOK, KbdTypeOK
    <3>3. CASE q # r
      <4>1. ~Leaving(q) /\ down'[q] = down[q]
        BY <1>3, <3>3 DEF Leaving, KbdOK, KbdTypeOK
      <4> QED BY <1>6, <2>1, <3>1, <4>1, OtherRow DEF BooksOK
    <3> QED BY <3>1, <3>2, <3>3
  <2> QED BY <1>2, <2>2 DEF BooksOK, RowIs
<1> QED BY <1>3, <1>4, <1>5, <1>6 DEF KbdOK, SendUp

LEMMA RollKeeps ==
    ASSUME KbdOK, Roll(Slot)
    PROVE  KbdOK'
<1> DEFINE r == Row(key[Slot])
<1>1. pc[Slot] = "roll" /\ key[Slot] \in Known /\ key[Slot] \in held /\ r \in Rows
  BY KnownCode DEF KbdOK, AtKey, Roll
<1>2. pc'[Slot] = "code" /\ key'[Slot] = key[Slot]
  BY Moved DEF KbdOK, Roll
<1>3. /\ down' = [down EXCEPT ![r] = Up] /\ ByteIs'
      /\ byte' \in [row : Rows, col : Cols \union {Up}] /\ down' \in [Rows -> Cols \union {Up}]
  <2>1. Tx(r, Up)
    BY DEF Roll
  <2> HIDE DEF r
  <2> QED BY <1>1, <2>1, Sent DEF KbdOK
<1>4. KbdTypeOK'
  <2>1. \A n \in 0 .. GenMod - 1 : (n + 1) % GenMod \in 0 .. GenMod - 1
    BY KeysAssumption
  <2>3. gen' \in [Rows -> 0 .. GenMod - 1]
    <3> DEFINE g == (gen[r] + 1) % GenMod
    <3>1. g \in 0 .. GenMod - 1
      BY <1>1, <2>1 DEF KbdOK, KbdTypeOK
    <3>2. gen' = [gen EXCEPT ![r] = g]
      BY DEF Roll
    <3> HIDE DEF g
    <3> QED BY <3>1, <3>2 DEF KbdOK, KbdTypeOK
  <2>4. rows' \in [Rows -> 0 .. 255]
    <3>1. rows' = [rows EXCEPT ![r] = 0]
      BY DEF Roll
    <3>2. rows \in [Rows -> 0 .. 255]
      BY DEF KbdOK, KbdTypeOK
    <3> HIDE DEF r
    <3> QED BY <1>1, <3>1, <3>2
  <2>2. lost' \in BOOLEAN
    BY Zenon DEF KbdOK, KbdTypeOK, Roll
  <2> QED BY <1>3, <2>2, <2>3, <2>4, SlotAssumption DEF KbdOK, KbdTypeOK, Roll, At
<1>5. AtKey' /\ HeldSeen'
  BY <1>1, <1>2 DEF KbdOK, AtKey, HeldSeen, Roll
<1>6. ASSUME ~lost' PROVE BooksOK'
  <2>1. ~lost /\ \A k \in (held \intersect InRow(r)) \ {key[Slot]} : key_gen[k] # gen'[r]
    <3>1. lost \in BOOLEAN
      BY DEF KbdOK, KbdTypeOK
    <3> QED BY <1>6, <3>1, Zenon DEF Roll
  <2>2. BooksOK
    BY <2>1 DEF KbdOK
  <2>3. UNCHANGED <<held, code_of, key_gen>> /\ rows' = [rows EXCEPT ![r] = 0]
        /\ \A q \in Rows \ {r} : gen'[q] = gen[q]
    BY DEF Roll, KbdOK, KbdTypeOK
  <2>4. ASSUME NEW q \in Rows PROVE RowBooks(q)'
    <3>1. ~Leaving(q) /\ ~Leaving(q)' /\ Pending = {key[Slot]} /\ Pending' = Pending
      BY <1>1, <1>2 DEF Leaving, Pending
    <3>2. CASE q = r
      <4>1. Current(q)' = {}
        BY <2>1, <2>3, <3>1, <3>2 DEF Current, InRow, KbdOK, KbdTypeOK
      <4>2. rows'[q] = 0 /\ down'[q] = Up
        BY <1>3, <2>3, <3>2 DEF KbdOK, KbdTypeOK
      <4> QED BY <3>1, <4>1, <4>2, FS_EmptySet DEF RowBooks
    <3>3. CASE q # r
      <4>1. Current(q)' = Current(q)
        BY <2>3, <3>1, <3>3 DEF Current
      <4>2. rows'[q] = rows[q] /\ down'[q] = down[q]
        BY <1>3, <2>3, <3>3 DEF KbdOK, KbdTypeOK
      <4> QED BY <2>2, <2>3, <3>1, <4>1, <4>2, OtherRow DEF BooksOK
    <3> QED BY <3>2, <3>3
  <2>5. RowIs'
    BY <1>1, <1>2, <2>3 DEF RowIs, KbdOK, KbdTypeOK
  <2> QED BY <2>4, <2>5 DEF BooksOK
<1> QED BY <1>3, <1>4, <1>5, <1>6 DEF KbdOK

LEMMA SendCodeKeeps ==
    ASSUME KbdOK, SendCode(Slot)
    PROVE  KbdOK'
<1> DEFINE r == Row(key[Slot])  c == Code[key[Slot]].col
<1>1. pc[Slot] = "code" /\ key[Slot] \in Known /\ key[Slot] \in held /\ r \in Rows
      /\ c \in Cols /\ c # Up /\ Code[key[Slot]] = [row |-> r, col |-> c] /\ key[Slot] \in Keys
  BY KnownCode DEF KbdOK, AtKey, SendCode
<1>2. pc'[Slot] = "next" /\ key'[Slot] = NoKey
  BY Moved DEF KbdOK, SendCode, NextChange
<1>3. /\ down' = [down EXCEPT ![r] = c] /\ ByteIs'
      /\ byte' \in [row : Rows, col : Cols \union {Up}] /\ down' \in [Rows -> Cols \union {Up}]
  <2>1. Tx(r, c)
    BY DEF SendCode
  <2> HIDE DEF r, c
  <2> QED BY <1>1, <2>1, Sent DEF KbdOK
<1>4. /\ rows' \in [Rows -> 0 .. 255] /\ rows' = [rows EXCEPT ![r] = Add(rows[r], 1)]
      /\ code_of' = [code_of EXCEPT ![r] = Code[key[Slot]]]
      /\ key_gen' = [key_gen EXCEPT ![key[Slot]] = gen[r]]
      /\ UNCHANGED <<held, gen, lost>>
  <2>1. \A n \in 0 .. 255 : Add(n, 1) \in 0 .. 255
    BY DEF Add
  <2> QED BY <1>1, <2>1 DEF KbdOK, KbdTypeOK, SendCode
<1>5. KbdTypeOK'
  <2>1. code_of' \in [Rows -> [row : Rows, col : Cols] \union {NoCode}]
    BY <1>1, <1>4 DEF KbdOK, KbdTypeOK
  <2>2. key_gen' \in [Keys -> 0 .. GenMod - 1]
    BY <1>1, <1>4 DEF KbdOK, KbdTypeOK
  <2> QED BY <1>3, <1>4, <2>1, <2>2, SlotAssumption DEF KbdOK, KbdTypeOK, SendCode, NextChange, At
<1>6. AtKey' /\ HeldSeen'
  BY <1>1, <1>2 DEF KbdOK, AtKey, HeldSeen, SendCode
<1>7. ASSUME BooksOK PROVE BooksOK'
  <2>1. rows[r] = 0
    BY <1>1, <1>7 DEF BooksOK, RowIs
  <2>2. ASSUME NEW q \in Rows PROVE RowBooks(q)'
    <3>1. ~Leaving(q) /\ ~Leaving(q)' /\ Pending = {key[Slot]} /\ Pending' = {}
      BY <1>1, <1>2 DEF Leaving, Pending
    <3>2. CASE q = r
      <4>1. Current(q) = {}
        <5>1. Cardinality(Current(q)) = 0 /\ IsFiniteSet(Current(q))
          BY <1>7, <2>1, <3>2, CurrentKeys, CountBounds DEF BooksOK, RowBooks, KbdOK
        <5> QED BY <5>1, FS_EmptySet
      <4>2. Current(q)' = {key[Slot]}
        BY <1>1, <1>4, <3>1, <3>2, <4>1 DEF Current, KbdOK, KbdTypeOK
      <4>3. Cardinality({key[Slot]}) = 1
        BY FS_Singleton
      <4>4. rows'[q] = 1 /\ code_of'[q] = Code[key[Slot]] /\ down'[q] = c
        BY <1>1, <1>3, <1>4, <2>1, <3>2 DEF KbdOK, KbdTypeOK, Add
      <4> QED BY <3>1, <4>2, <4>3, <4>4 DEF RowBooks
    <3>3. CASE q # r
      <4>1. Current(q)' = Current(q)
        BY <1>1, <1>4, <3>1, <3>3 DEF Current, KbdOK, KbdTypeOK
      <4>2. rows'[q] = rows[q] /\ down'[q] = down[q] /\ code_of'[q] = code_of[q]
        BY <1>3, <1>4, <3>3 DEF KbdOK, KbdTypeOK
      <4> QED BY <1>7, <3>1, <4>1, <4>2, OtherRow DEF BooksOK
    <3> QED BY <3>2, <3>3
  <2> QED BY <1>2, <2>2 DEF BooksOK, RowIs
<1> QED BY <1>3, <1>4, <1>5, <1>6, <1>7 DEF KbdOK

\* kbd_tx_uknc(pressed = 0).
LEMMA ReleaseKeeps ==
    ASSUME KbdOK, pc[Slot] = "next", NEW k \in todo[Slot],
           todo' = [todo EXCEPT ![Slot] = @ \ {k}], Release(Slot, k),
           UNCHANGED <<last, now, osd_is_visible, lost, byte, down>>
    PROVE  KbdOK'
<1>1. k \in Keys /\ k \notin now[Slot] /\ todo'[Slot] = todo[Slot] \ {k} /\ Pending = {}
      /\ held' = held \ {k} /\ UNCHANGED <<code_of, gen, key_gen>>
  BY SlotAssumption DEF KbdOK, KbdTypeOK, Release, Pending
<1>2. CASE k \notin held \/ key_gen[k] # gen[Row(k)]
  <2>1. pc'[Slot] = "next" /\ key'[Slot] = NoKey /\ UNCHANGED rows
    BY <1>2, Moved DEF KbdOK, Release, NextChange
  <2>2. KbdTypeOK'
    BY <1>1, <1>2, <2>1, SlotAssumption DEF KbdOK, KbdTypeOK, Release, NextChange, At
  <2>3. AtKey' /\ HeldSeen' /\ ByteIs'
    BY <1>1, <2>1 DEF KbdOK, AtKey, HeldSeen, ByteIs
  <2>4. ASSUME BooksOK PROVE BooksOK'
    <3>1. ASSUME NEW r \in Rows PROVE RowBooks(r)'
      <4>1. Current(r)' = Current(r)
        BY <1>1, <1>2, <2>1 DEF Current, Pending
      <4>2. ~Leaving(r) /\ ~Leaving(r)'
        BY <2>1 DEF Leaving
      <4> QED BY <1>1, <2>1, <2>4, <4>1, <4>2, OtherRow DEF BooksOK
    <3> QED BY <2>1, <3>1 DEF BooksOK, RowIs
  <2> QED BY <2>2, <2>3, <2>4 DEF KbdOK
<1>3. CASE k \in held /\ key_gen[k] = gen[Row(k)]
  <2> DEFINE r == Row(k)
  <2>1. k \in Known /\ r \in Rows
    BY <1>3, KnownCode DEF KbdOK, KbdTypeOK
  <2>2. rows' = [rows EXCEPT ![r] = Add(rows[r], 255)] /\ rows[r] \in 0 .. 255
        /\ rows' \in [Rows -> 0 .. 255]
    <3>1. \A n \in 0 .. 255 : Add(n, 255) \in 0 .. 255
      BY DEF Add
    <3>2. rows' = [rows EXCEPT ![r] = Add(rows[r], 255)]
      BY <1>3 DEF Release
    <3>3. rows \in [Rows -> 0 .. 255]
      BY DEF KbdOK, KbdTypeOK
    <3> HIDE DEF r
    <3> QED BY <2>1, <3>1, <3>2, <3>3
  <2>3. /\ rows'[r] = 0 => pc'[Slot] = "up" /\ key'[Slot] = k
        /\ rows'[r] # 0 => pc'[Slot] = "next" /\ key'[Slot] = NoKey
    BY <1>3, Moved DEF KbdOK, Release, NextChange
  <2>4. KbdTypeOK'
    BY <1>1, <1>3, <2>2, SlotAssumption DEF KbdOK, KbdTypeOK, Release, NextChange, At
  <2>5. AtKey' /\ HeldSeen' /\ ByteIs'
    BY <1>1, <2>1, <2>3 DEF KbdOK, AtKey, HeldSeen, ByteIs
  <2>6. ASSUME BooksOK PROVE BooksOK'
    <3>1. Current(r)' = Current(r) \ {k} /\ k \in Current(r) /\ Pending' = {}
      BY <1>1, <1>3, <2>3 DEF Current, Pending
    <3>2. rows'[r] = Cardinality(Current(r)') /\ rows[r] > 0
      <4>1. IsFiniteSet(Current(r)) /\ Cardinality(Current(r)) \in 0 .. 255
        BY CurrentKeys, CountBounds DEF KbdOK
      <4>2. Cardinality(Current(r)') = Cardinality(Current(r)) - 1
        BY <3>1, <4>1, FS_RemoveElement
      <4>3. rows[r] = Cardinality(Current(r)) /\ Cardinality(Current(r)) # 0
        BY <2>1, <2>6, <3>1, <4>1, FS_EmptySet DEF BooksOK, RowBooks
      <4>4. Add(rows[r], 255) = rows[r] - 1
        BY <4>1, <4>3 DEF Add
      <4>5. rows'[r] = Add(rows[r], 255)
        BY <2>1, <2>2 DEF KbdOK, KbdTypeOK
      <4> HIDE DEF r
      <4> QED BY <2>2, <4>1, <4>2, <4>3, <4>4, <4>5
    <3>3. Code[k] = code_of[r] /\ down[r] = code_of[r].col
      BY <2>1, <2>2, <2>6, <3>1, <3>2 DEF BooksOK, RowBooks
    <3>4. ASSUME NEW q \in Rows PROVE RowBooks(q)'
      <4>1. CASE q = r
        <5>1. Leaving(q)' <=> rows'[q] = 0
          BY <2>3, <4>1 DEF Leaving
        <5> QED BY <1>1, <2>1, <2>6, <3>1, <3>2, <3>3, <4>1, <5>1 DEF BooksOK, RowBooks
      <4>2. CASE q # r
        <5>1. Current(q)' = Current(q)
          BY <1>1, <3>1, <4>2 DEF Current
        <5>2. ~Leaving(q) /\ ~Leaving(q)'
          BY <2>3, <4>2 DEF Leaving
        <5>3. rows'[q] = rows[q]
          BY <2>2, <4>2 DEF KbdOK, KbdTypeOK
        <5> QED BY <1>1, <2>6, <5>1, <5>2, <5>3, OtherRow DEF BooksOK
      <4> QED BY <4>1, <4>2
    <3>5. RowIs'
      BY <1>1, <2>3, <3>3 DEF RowIs
    <3> QED BY <3>4, <3>5 DEF BooksOK
  <2> QED BY <2>4, <2>5, <2>6 DEF KbdOK
<1> QED BY <1>2, <1>3

\* kbd_tx_uknc(pressed = 1).
LEMMA PressKeeps ==
    ASSUME KbdOK, pc[Slot] = "next", NEW k \in todo[Slot],
           todo' = [todo EXCEPT ![Slot] = @ \ {k}], Press(Slot, k),
           UNCHANGED <<last, now, osd_is_visible, lost, byte, down>>
    PROVE  KbdOK'
<1>1. k \in Keys /\ k \in now[Slot] /\ todo'[Slot] = todo[Slot] \ {k} /\ Pending = {}
      /\ UNCHANGED <<code_of, gen>> /\ \A r : ~Leaving(r)
  BY SlotAssumption DEF KbdOK, KbdTypeOK, Press, Pending, Leaving
<1>2. CASE Ignored(k)
  <2>1. pc'[Slot] = "next" /\ key'[Slot] = NoKey /\ UNCHANGED <<held, rows, key_gen>>
    BY <1>2, Moved DEF KbdOK, Press, NextChange
  <2>2. KbdTypeOK'
    BY <1>1, <1>2, <2>1, SlotAssumption DEF KbdOK, KbdTypeOK, Press, NextChange, At
  <2>3. AtKey' /\ HeldSeen'
    BY <1>1, <2>1 DEF KbdOK, AtKey, HeldSeen
  <2>4. ByteIs' /\ (~lost' => BooksOK')
    BY <1>1, <2>1, NothingSent
  <2> QED BY <2>2, <2>3, <2>4 DEF KbdOK
<1>3. CASE ~Ignored(k)
  <2> DEFINE r == Row(k)
  <2>1. k \in Known /\ k \notin held /\ r \in Rows /\ held' = held \union {k}
    BY <1>3, KnownCode DEF Ignored, Press
  <2>2. AtKey' /\ HeldSeen' /\ ByteIs'
    <3>1. \/ pc'[Slot] = "next"
          \/ pc'[Slot] \in {"roll", "code"} /\ key'[Slot] = k
      BY <1>3, Moved DEF KbdOK, Press, NextChange
    <3> QED BY <1>1, <2>1, <3>1 DEF KbdOK, AtKey, HeldSeen, ByteIs
  <2>3. CASE rows[r] # 0 /\ Code[k] = code_of[r]
    <3>1. pc'[Slot] = "next" /\ key'[Slot] = NoKey
          /\ rows' = [rows EXCEPT ![r] = Add(rows[r], 1)]
          /\ key_gen' = [key_gen EXCEPT ![k] = gen[r]]
      BY <1>3, <2>3, Moved DEF KbdOK, Press, NextChange
    <3>2. rows' \in [Rows -> 0 .. 255] /\ key_gen' \in [Keys -> 0 .. GenMod - 1]
      <4>1. \A n \in 0 .. 255 : Add(n, 1) \in 0 .. 255
        BY DEF Add
      <4> HIDE DEF r
      <4> QED BY <1>1, <2>1, <3>1, <4>1 DEF KbdOK, KbdTypeOK
    <3>3. KbdTypeOK'
      BY <1>1, <1>3, <2>1, <2>3, <3>2, SlotAssumption DEF KbdOK, KbdTypeOK, Press, NextChange, At
    <3>4. ASSUME BooksOK PROVE BooksOK'
      <4>1. Current(r)' = Current(r) \union {k} /\ k \notin Current(r) /\ Pending' = {}
        BY <1>1, <2>1, <3>1 DEF Current, Pending, KbdOK, KbdTypeOK
      <4>2. rows'[r] = Cardinality(Current(r)') /\ rows'[r] # 0
        <5>1. IsFiniteSet(Current(r)) /\ Cardinality(Current(r)) \in 0 .. 255
          BY CurrentKeys, CountBounds DEF KbdOK
        <5>2. Cardinality(Current(r)') = Cardinality(Current(r)) + 1
          BY <4>1, <5>1, FS_AddElement
        <5>3. Cardinality(Current(r)') \in 0 .. 255
          BY <3>3, CurrentKeys, CountBounds, <1>1, <2>1, <4>1 DEF KbdOK
        <5>4. rows[r] = Cardinality(Current(r))
          BY <2>1, <3>4 DEF BooksOK, RowBooks
        <5>5. Add(rows[r], 1) = rows[r] + 1
          BY <5>1, <5>2, <5>3, <5>4 DEF Add
        <5>6. rows'[r] = Add(rows[r], 1)
          BY <2>1, <3>1 DEF KbdOK, KbdTypeOK
        <5> HIDE DEF r
        <5> QED BY <5>1, <5>2, <5>4, <5>5, <5>6
      <4>3. ASSUME NEW q \in Rows PROVE RowBooks(q)'
        <5>1. ~Leaving(q)'
          BY <3>1 DEF Leaving
        <5>2. CASE q = r
          BY <1>1, <2>1, <2>3, <3>4, <4>1, <4>2, <5>1, <5>2 DEF BooksOK, RowBooks
        <5>3. CASE q # r
          <6>1. Current(q)' = Current(q)
            BY <1>1, <2>1, <3>1, <4>1, <5>3 DEF Current, KbdOK, KbdTypeOK
          <6>2. rows'[q] = rows[q]
            BY <3>1, <5>3 DEF KbdOK, KbdTypeOK
          <6> QED BY <1>1, <3>4, <5>1, <6>1, <6>2, OtherRow DEF BooksOK
        <5> QED BY <5>2, <5>3
      <4> QED BY <3>1, <4>3 DEF BooksOK, RowIs
    <3> QED BY <2>2, <3>3, <3>4 DEF KbdOK
  <2>4. CASE ~(rows[r] # 0 /\ Code[k] = code_of[r])
    <3>1. pc'[Slot] = (IF rows[r] # 0 THEN "roll" ELSE "code") /\ key'[Slot] = k
          /\ UNCHANGED <<rows, key_gen>>
      BY <1>3, <2>4, Moved DEF KbdOK, Press
    <3>2. KbdTypeOK'
      BY <1>1, <1>3, <2>1, <2>4, <3>1, SlotAssumption DEF KbdOK, KbdTypeOK, Press, At
    <3>3. ASSUME BooksOK PROVE BooksOK'
      <4>1. ASSUME NEW q \in Rows PROVE RowBooks(q)'
        <5>1. ~Leaving(q)' /\ Current(q)' = Current(q)
          BY <1>1, <2>1, <3>1 DEF Leaving, Current, Pending
        <5> QED BY <1>1, <3>1, <3>3, <5>1, OtherRow DEF BooksOK
      <4> QED BY <2>1, <3>1, <4>1 DEF BooksOK, RowIs
    <3> QED BY <2>2, <3>2, <3>3 DEF KbdOK
  <2> QED BY <2>3, <2>4
<1> QED BY <1>2, <1>3

LEMMA ParseKeeps ==
    ASSUME KbdOK, ParseStep(Slot)
    PROVE  KbdOK'
<1>1. CASE NextKey(Slot)
  <2>1. /\ pc[Slot] = "next"
        /\ \E k \in todo[Slot] :
              /\ todo' = [todo EXCEPT ![Slot] = @ \ {k}]
              /\ Press(Slot, k) \/ Release(Slot, k)
        /\ UNCHANGED <<last, now, osd_is_visible, lost, byte, down>>
    BY <1>1 DEF NextKey, Quiet
  <2> QED BY <2>1, PressKeeps, ReleaseKeeps
<1>2. CASE Parsed(Slot) \/ Roll(Slot) \/ SendCode(Slot) \/ SendUp(Slot)
  BY <1>2, ParsedKeeps, RollKeeps, SendCodeKeeps, SendUpKeeps
<1> QED BY <1>1, <1>2 DEF ParseStep

LEMMA KbdInitially ==
    ASSUME KbdInit
    PROVE  KbdOK
<1>1. 0 \in 0 .. 255 /\ 0 \in 0 .. GenMod - 1
  BY KeysAssumption
<1>2. KbdTypeOK
  BY <1>1, SlotAssumption DEF KbdInit, KbdTypeOK, NoKeys, Idle, AtNoKey, Zero, NoCodes, AllUp
<1>3. AtKey /\ HeldSeen
  BY SlotAssumption DEF KbdInit, AtKey, HeldSeen, NoKeys, Idle
<1>4. ByteIs
  <2>1. byte = NoCode /\ \A r \in Rows : down[r] = Up
    BY DEF KbdInit, AllUp
  <2>2. ASSUME NEW r \in Rows, NEW c \in Cols \union {Up}, byte = [row |-> r, col |-> c]
        PROVE  down[r] = c
    BY <2>1, <2>2, KeysAssumption
  <2> QED BY <2>2 DEF ByteIs
<1>5. BooksOK
  <2>1. pc[Slot] = "idle"
    BY SlotAssumption DEF KbdInit, Idle
  <2>2. ASSUME NEW r \in Rows PROVE RowBooks(r)
    <3>1. Current(r) = {} /\ rows[r] = 0 /\ down[r] = Up /\ ~Leaving(r)
      BY <2>1 DEF KbdInit, Current, Leaving, Zero, AllUp
    <3> QED BY <3>1, FS_EmptySet DEF RowBooks
  <2> QED BY <2>1, <2>2 DEF BooksOK, RowIs
<1> QED BY <1>2, <1>3, <1>4, <1>5 DEF KbdOK

\* Nothing is claimed of the books once they are shared.
LEMMA ShareKeeps ==
    ASSUME Share
    PROVE  KbdOK'
<1>1. 0 \in 0 .. 255 /\ 0 \in 0 .. GenMod - 1
  BY KeysAssumption
<1>2. KbdTypeOK'
  BY <1>1 DEF Share, KbdTypeOK, NoKeys, Idle, AtNoKey, Zero, NoCodes, AllUp
<1>3. AtKey' /\ HeldSeen'
  BY SlotAssumption DEF Share, AtKey, HeldSeen, NoKeys, Idle
<1>4. ByteIs'
  <2> SUFFICES ASSUME NEW r \in Rows, NEW c \in Cols \union {Up}, byte' = [row |-> r, col |-> c]
      PROVE  down'[r] = c
    BY DEF ByteIs
  <2> QED BY KeysAssumption DEF Share
<1> QED BY <1>2, <1>3, <1>4 DEF KbdOK, Share

LEMMA KbdStill ==
    ASSUME KbdOK, UNCHANGED kbdVars
    PROVE  KbdOK'
<1>1. KbdTypeOK'
  BY DEF KbdOK, KbdTypeOK, kbdVars, threadVars, books
<1>2. (AtKey /\ HeldSeen)' /\ (ByteIs /\ (~lost => BooksOK))'
  BY DEF KbdOK, AtKey, HeldSeen, ByteIs, BooksOK, RowIs, RowBooks, Current,
         Pending, Leaving, kbdVars, threadVars, books
<1> QED BY <1>1, <1>2 DEF KbdOK

LEMMA ToggleOsdKeeps ==
    ASSUME KbdOK, ToggleOsd
    PROVE  KbdOK'
<1>1. KbdTypeOK'
  BY DEF KbdOK, KbdTypeOK, ToggleOsd, threadVars, books
<1>2. (AtKey /\ HeldSeen)' /\ (ByteIs /\ (~lost => BooksOK))'
  BY DEF KbdOK, AtKey, HeldSeen, ByteIs, BooksOK, RowIs, RowBooks, Current,
         Pending, Leaving, ToggleOsd, threadVars, books
<1> QED BY <1>1, <1>2 DEF KbdOK

LEMMA KbdStep ==
    ASSUME KbdOK, [Next]_vars
    PROVE  KbdOK'
<1>1. CASE UNCHANGED kbdVars
  BY <1>1, KbdStill
<1>2. ASSUME NEW i \in Devices, Plug(i) PROVE KbdOK'
  BY <1>1, <1>2, ShareKeeps DEF Plug
<1>3. ASSUME NEW i \in Devices, Arrive(i) PROVE KbdOK'
  BY <1>1, <1>3, ReportKeeps DEF Arrive
<1>4. ASSUME NEW i \in Devices, Parse(i) PROVE KbdOK'
  BY <1>1, <1>4, ParseKeeps DEF Parse
<1>5. CASE Menu
  BY <1>5, ToggleOsdKeeps DEF Menu
<1> QED BY <1>1, <1>2, <1>3, <1>4, <1>5
        DEF Next, vars, ThreadStep, UrbStep, Unplug, Unplugged, Clock

LEMMA KbdAlways == Spec => []KbdOK
<1>1. Init => KbdOK
  BY KbdInitially DEF Init
<1>2. KbdOK /\ [Next]_vars => KbdOK'
  BY KbdStep
<1> QED BY <1>1, <1>2, PTL DEF Spec

-----------------------------------------------------------------------------
(* Each byte is one the machine can take: a press for a row that is up, a  *)
(* release for one that is down, never the byte that is there already.     *)
THEOREM StreamIsLegal == Spec => []LegalStream
<1>1. KbdOK => LegalStream
  <2> SUFFICES ASSUME KbdOK, ~lost, NEW t \in Threads
      PROVE  LET r == Row(key[t]) IN
             /\ pc[t] \in {"roll", "up"} => down[r] # Up /\ byte # [row |-> r, col |-> Up]
             /\ pc[t] = "code" => down[r] = Up /\ byte # Code[key[t]]
    BY DEF LegalStream
  <2>1. t = Slot /\ BooksOK /\ ByteIs /\ AtKey /\ KbdTypeOK
    BY SlotAssumption DEF KbdOK
  <2> DEFINE r == Row(key[t])
  <2>2. CASE pc[t] = "roll"
    <3>1. r \in Rows /\ rows[r] # 0 /\ RowBooks(r)
      BY <2>1, <2>2, KnownCode DEF AtKey, BooksOK, RowIs
    <3>2. Current(r) # {}
      BY <3>1, FS_EmptySet DEF RowBooks
    <3>3. \E k \in Known : Code[k] = code_of[r]
      BY <2>1, <3>1, <3>2, CurrentKeys DEF RowBooks
    <3>4. down[r] # Up
      BY <3>1, <3>3, KnownCode DEF RowBooks
    <3> QED BY <2>1, <2>2, <3>1, <3>4 DEF ByteIs
  <2>3. CASE pc[t] = "up"
    <3>1. r \in Rows /\ key[t] \in Known /\ Code[key[t]] = code_of[r] /\ RowBooks(r) /\ Leaving(r)
      BY <2>1, <2>3, KnownCode DEF AtKey, BooksOK, RowIs, Leaving
    <3>2. down[r] # Up
      BY <3>1, KnownCode DEF RowBooks
    <3> QED BY <2>1, <2>3, <3>1, <3>2 DEF ByteIs
  <2>4. CASE pc[t] = "code"
    <3>1. r \in Rows /\ key[t] \in Known /\ rows[r] = 0 /\ RowBooks(r) /\ ~Leaving(r)
      BY <2>1, <2>4, KnownCode DEF AtKey, BooksOK, RowIs, Leaving
    <3>2. down[r] = Up
      BY <3>1 DEF RowBooks
    <3>3. byte # [row |-> r, col |-> Code[key[t]].col]
      BY <2>1, <3>1, <3>2, KnownCode DEF ByteIs
    <3> QED BY <2>4, <3>1, <3>2, <3>3, KnownCode
  <2> QED BY <2>2, <2>3, <2>4
<1> QED BY <1>1, KbdAlways, PTL

(* Between two reports a row the machine believes down has a key of that   *)
(* very code in the last report, whatever was pressed together before.     *)
THEOREM NoRowSticks == Spec => []NoStuckRow
<1>1. KbdOK => NoStuckRow
  <2> SUFFICES ASSUME KbdOK, ~lost, pc[Slot] = "idle", NEW r \in Rows, down[r] # Up
      PROVE  \E k \in last[Slot] \intersect InRow(r) : Code[k].col = down[r]
    BY SlotAssumption DEF NoStuckRow
  <2>1. RowBooks(r) /\ ~Leaving(r)
    BY DEF KbdOK, BooksOK, Leaving
  <2>2. rows[r] # 0 /\ down[r] = code_of[r].col
    BY <2>1 DEF RowBooks
  <2>3. Current(r) # {}
    BY <2>1, <2>2, FS_EmptySet DEF RowBooks
  <2>4. PICK k \in Current(r) : TRUE
    BY <2>3
  <2>5. k \in held /\ k \in Known /\ Row(k) = r /\ Code[k] = code_of[r]
    BY <2>1, CurrentKeys DEF KbdOK, Current, RowBooks
  <2>6. k \in last[Slot]
    BY <2>5 DEF KbdOK, AtKey, HeldSeen
  <2> QED BY <2>2, <2>5, <2>6 DEF InRow
<1> QED BY <1>1, KbdAlways, PTL

(* Every variable of the slot and of the books keeps its type, whatever    *)
(* the threads of the slot wait for: no count of a row runs past its byte, *)
(* and no wait of usbh_hid_stop past its end.                              *)
THEOREM TypeCorrect == Spec => []TypeOK
<1>1. LifeOK /\ KbdOK => TypeOK
  BY DEF LifeOK, KbdOK, TypeOK
<1> QED BY <1>1, LifeAlways, KbdAlways, PTL
=============================================================================
