--------------------------- MODULE AzUnitsProofs ---------------------------
(***************************************************************************)
(* For any number of units, any images and any failures of the card:       *)
(* commands and mounts may meet anywhere, and a unit whose last mount met  *)
(* no command serves the blocks of the image mounted in it.                *)
(***************************************************************************)
EXTENDS AzUnits, TLAPS

\* What every outcome is made of.
Outcomes ==
    [ok : BOOLEAN, unit : Units \union {NoUnit}, open : BOOLEAN, fil : Handles,
     ro : [Units -> BOOLEAN], cost : Nat]

\* The file that is open afterwards is the unit's or is the one that was.
Proper(o) ==
    o.open => \/ o.unit = cur_unit /\ cur_open /\ o.fil.file = cur_fil.file
              \/ o.unit \in Units /\ o.fil.file = path[o.unit]

-----------------------------------------------------------------------------
(* The file kept open.                                                     *)

LEMMA StaysIs ==
    ASSUME TypeOK, NEW ok \in BOOLEAN
    PROVE  Stays(ok) \in Outcomes /\ Proper(Stays(ok)) /\ Stays(ok).ok = ok
                /\ Stays(ok).unit = cur_unit /\ Stays(ok).open = cur_open
BY DEF TypeOK, Stays, Outcome, Outcomes, Proper

LEMMA OpenIs ==
    ASSUME TypeOK, NEW u \in Units, NEW o \in unit_open(u)
    PROVE  o \in Outcomes /\ Proper(o) /\ (o.ok => o.unit = u /\ o.open)
<1> DEFINE f == path[u]
           asRo == [ro EXCEPT ![u] = TRUE]
           writable == Outcome(TRUE, u, TRUE, Opened(f, TRUE), ro, 0)
           readable(cost) == Outcome(TRUE, u, TRUE, Opened(f, FALSE), asRo, cost)
           neither(cost) == Outcome(FALSE, NoUnit, FALSE, Closed, asRo, cost)
<1>1. CASE f = NoImage
  <2>1. o = Stays(FALSE)
    BY <1>1 DEF unit_open
  <2> QED BY <2>1, StaysIs
<1>2. CASE f # NoImage /\ cur_unit = u /\ cur_open
  <2>1. o = Stays(TRUE)
    BY <1>2 DEF unit_open
  <2> QED BY <1>2, <2>1, StaysIs
<1>3. CASE f # NoImage /\ ~(cur_unit = u /\ cur_open)
  <2>1. o \in {writable, readable(0), readable(1), neither(0), neither(1)}
    BY <1>3 DEF unit_open
  <2>2. /\ f \in Paths /\ asRo \in [Units -> BOOLEAN] /\ ro \in [Units -> BOOLEAN]
        /\ Opened(f, TRUE) \in Handles /\ Opened(f, FALSE) \in Handles /\ Closed \in Handles
    BY DEF TypeOK, Opened, Closed, Handles, Paths
  <2>3. Opened(f, TRUE).file = f /\ Opened(f, FALSE).file = f
    BY DEF Opened
  <2>4. writable \in Outcomes /\ Proper(writable) /\ writable.unit = u /\ writable.open
    BY <2>2, <2>3 DEF Outcome, Outcomes, Proper
  <2>5. ASSUME NEW cost \in {0, 1}
        PROVE  /\ readable(cost) \in Outcomes /\ Proper(readable(cost))
               /\ readable(cost).unit = u /\ readable(cost).open
    <3>1. cost \in Nat
      OBVIOUS
    <3> QED BY <3>1, <2>2, <2>3 DEF Outcome, Outcomes, Proper
  <2>6. ASSUME NEW cost \in {0, 1}
        PROVE  neither(cost) \in Outcomes /\ Proper(neither(cost)) /\ ~neither(cost).ok
    BY <2>2 DEF Outcome, Outcomes, Proper
  <2> QED
    <3> HIDE DEF writable, readable, neither
    <3> QED BY <2>1, <2>4, <2>5, <2>6
<1> QED BY <1>1, <1>2, <1>3

\* A transfer changes nothing of an outcome but whether it is a success, the
\* file's error and the failures met.
LEMMA TransferIs ==
    ASSUME NEW o \in Outcomes, NEW can \in BOOLEAN, NEW t \in Transfer(o, can)
    PROVE  /\ t \in Outcomes /\ t.unit = o.unit /\ t.open = o.open
           /\ t.fil.file = o.fil.file
           /\ t.ok => o.fil.file # NoImage
<1> DEFINE spoilt == Outcome(FALSE, o.unit, o.open, [o.fil EXCEPT !.bad = TRUE], o.ro, o.cost + 1)
<1>1. CASE t = [o EXCEPT !.ok = o.fil.file # NoImage /\ ~o.fil.bad /\ can]
  BY <1>1 DEF Outcomes, Handles
<1>2. CASE t = spoilt
  <2>1. [o.fil EXCEPT !.bad = TRUE] \in Handles /\ [o.fil EXCEPT !.bad = TRUE].file = o.fil.file
    BY DEF Outcomes, Handles
  <2>2. o.cost + 1 \in Nat /\ o.ro \in [Units -> BOOLEAN]
    BY DEF Outcomes
  <2> QED BY <1>2, <2>1, <2>2 DEF Outcome, Outcomes
<1>3. t = [o EXCEPT !.ok = o.fil.file # NoImage /\ ~o.fil.bad /\ can] \/ t = spoilt
  BY Zenon DEF Transfer
<1> QED BY <1>1, <1>2, <1>3

\* What a read or a write makes of the file that unit_open gave it.
LEMMA MoveIs ==
    ASSUME TypeOK, NEW u \in Units, NEW o \in unit_open(u), NEW no \in BOOLEAN, NEW can \in BOOLEAN,
           ~o.ok => no,
           NEW t \in IF no THEN {[o EXCEPT !.ok = FALSE]} ELSE Transfer(o, can)
    PROVE  /\ t \in Outcomes /\ Proper(t) /\ t.fil.file = o.fil.file
           /\ t.ok => ~no /\ t.unit = u /\ t.open /\ t.fil.file # NoImage
<1>1. o \in Outcomes /\ Proper(o) /\ (o.ok => o.unit = u /\ o.open)
  BY OpenIs
<1>2. CASE no
  <2>1. t = [o EXCEPT !.ok = FALSE]
    BY <1>2
  <2>2. t \in Outcomes /\ t.open = o.open /\ t.unit = o.unit /\ t.fil = o.fil /\ ~t.ok
    BY <1>1, <2>1 DEF Outcomes
  <2> QED BY <1>1, <2>2 DEF Proper
<1>3. CASE ~no
  <2>1. t \in Transfer(o, can)
    BY <1>3
  <2>2. /\ t \in Outcomes /\ t.unit = o.unit /\ t.open = o.open
        /\ t.fil.file = o.fil.file /\ (t.ok => o.fil.file # NoImage)
    BY <1>1, <2>1, TransferIs
  <2> QED BY <1>1, <1>3, <2>2 DEF Proper
<1> QED BY <1>2, <1>3

LEMMA BlocksNat == Blocks \subseteq Nat
BY UnitsAssumption DEF Blocks

-----------------------------------------------------------------------------
(* The commands.                                                           *)

\* What serving a command does to the units' fit, whatever it did with the file.
LEMMA CommandKeeps ==
    ASSUME IInv, NEW t \in Outcomes, Proper(t), Takes(t), Meets({}),
           UNCHANGED <<path, blocks, usize, osdVars, stale>>,
           moved' \in [unit : Units, right : BOOLEAN] \union {NoBlock}
    PROVE  TypeOK' /\ UnitsFit' /\ TableSent'
<1> USE DEF osdVars
<1>1. TypeOK'
  <2>1. faults' \in 0..MaxFaults
    BY UnitsAssumption DEF IInv, TypeOK, Takes, Outcomes
  <2>2. cur_unit' \in Units \union {NoUnit} /\ cur_open' \in BOOLEAN /\ cur_fil' \in Handles
        /\ ro' \in [Units -> BOOLEAN]
    BY DEF Takes, Outcomes
  <2>3. torn' \subseteq Units
    BY DEF IInv, TypeOK, Meets
  <2> QED BY <2>1, <2>2, <2>3 DEF IInv, TypeOK
<1>2. UnitsFit'
  <2> SUFFICES ASSUME NEW v \in Units, v \notin torn'
               PROVE  ~Mounting(v)' /\ Settled(v)'
    BY DEF UnitsFit
  <2>1. v \notin torn /\ ~Mounting(v) /\ ~Mounting(v)'
    BY DEF Meets, Mounting, IInv, TypeOK
  <2>2. Settled(v)
    BY <2>1 DEF IInv, UnitsFit
  <2>3. HoldsFileOf(v)'
    BY <2>2 DEF Settled, HoldsFileOf, Takes, Proper
  <2> QED BY <2>1, <2>2, <2>3 DEF Settled, SizeFits
<1>3. TableSent'
  BY DEF IInv, TableSent, SizesFollow
<1> QED BY <1>1, <1>2, <1>3

LEMMA SelectKeeps == ASSUME IInv, NEW u \in Units, Select(u) PROVE IInv'
<1>1. PICK o \in unit_open(u) : Takes(o)
  BY DEF Select
<1>2. o \in Outcomes /\ Proper(o)
  BY <1>1, OpenIs DEF IInv
<1>3. TypeOK' /\ UnitsFit' /\ TableSent'
  BY <1>1, <1>2, CommandKeeps DEF Select
<1> QED BY <1>3 DEF IInv, Select, ServedFromMounted

\* A read or write that is answered without an error moved the right block.
LEMMA MovesKeeps ==
    ASSUME IInv, NEW u \in Units, NEW b \in Blocks, NEW t \in Outcomes, Proper(t),
           t.ok => b < blocks[u] /\ t.unit = u /\ t.open /\ t.fil.file # NoImage,
           Takes(t), Moves(t, u, b), Meets({}), UNCHANGED <<path, blocks, usize, osdVars, stale>>
    PROVE  IInv'
<1>1. moved' \in [unit : Units, right : BOOLEAN] \union {NoBlock}
  BY DEF Moves
<1>2. TypeOK' /\ UnitsFit' /\ TableSent'
  BY <1>1, CommandKeeps
<1>3. ServedFromMounted'
  <2> SUFFICES ASSUME moved' # NoBlock, moved'.unit \notin torn', ~Mounting(moved.unit)'
               PROVE  moved'.right
    BY DEF ServedFromMounted
  <2>1. t.ok /\ moved'.unit = u
        /\ moved'.right = (t.fil.file = path[u] /\ Seek(t.fil.file, b) = b)
    BY DEF Moves
  <2>2. cur_unit' = u /\ cur_open' /\ cur_fil'.file # NoImage /\ cur_fil' = t.fil
    BY <2>1 DEF Takes
  <2>3. Settled(u)'
    <3>1. ~Mounting(u)' /\ u \notin torn'
      BY <2>1 DEF Mounting
    <3> QED BY <1>2, <3>1 DEF UnitsFit
  <2>4. path' = path /\ blocks' = blocks
    OBVIOUS
  <2>5. t.fil.file = path[u] /\ path[u] # NoImage
    BY <2>2, <2>3, <2>4 DEF Settled, HoldsFileOf
  <2>6. blocks[u] <= Size[path[u]]
    BY <2>3, <2>4, <2>5 DEF Settled, SizeFits
  <2>7. b < Size[path[u]]
    <3>1. path[u] \in Images /\ blocks[u] \in Nat
      BY <2>5 DEF IInv, TypeOK, Paths
    <3>2. Size[path[u]] \in Nat /\ b \in Nat
      BY <3>1, BlocksNat, UnitsAssumption
    <3> QED BY <2>1, <2>6, <3>1, <3>2
  <2> QED BY <2>1, <2>5, <2>7 DEF Seek
<1> QED BY <1>2, <1>3 DEF IInv

LEMMA ReadKeeps == ASSUME IInv, NEW u \in Units, NEW b \in Blocks, Read(u, b) PROVE IInv'
<1>1. PICK o \in unit_open(u) :
          \E t \in IF ~o.ok \/ b >= blocks[u] THEN {[o EXCEPT !.ok = FALSE]} ELSE Transfer(o, TRUE) :
             Takes(t) /\ Moves(t, u, b)
  BY DEF Read
<1> DEFINE no == ~o.ok \/ b >= blocks[u]
           can == TRUE
<1>2. PICK t \in IF no THEN {[o EXCEPT !.ok = FALSE]} ELSE Transfer(o, can) :
          Takes(t) /\ Moves(t, u, b)
  BY <1>1
<1>3. no \in BOOLEAN /\ (~o.ok => no) /\ can \in BOOLEAN
  OBVIOUS
<1>4. ~no => b < blocks[u]
  BY BlocksNat DEF IInv, TypeOK
<1>5. /\ t \in Outcomes /\ Proper(t)
      /\ t.ok => ~no /\ t.unit = u /\ t.open /\ t.fil.file # NoImage
  <2> HIDE DEF no, can
  <2>1. t \in IF no THEN {[o EXCEPT !.ok = FALSE]} ELSE Transfer(o, can)
    BY <1>2
  <2> QED BY <2>1, <1>3, MoveIs DEF IInv
<1>6. Meets({}) /\ UNCHANGED <<path, blocks, usize, osdVars, stale>>
  BY DEF Read
<1> QED
  <2> HIDE DEF no, can
  <2> QED BY <1>2, <1>4, <1>5, <1>6, MovesKeeps

LEMMA WriteKeeps == ASSUME IInv, NEW u \in Units, NEW b \in Blocks, Write(u, b) PROVE IInv'
<1>1. PICK o \in unit_open(u) :
          \E t \in IF ~o.ok \/ o.ro[u] \/ b >= blocks[u] THEN {[o EXCEPT !.ok = FALSE]}
                   ELSE Transfer(o, o.fil.rw /\ o.fil.file # NoImage /\ b < Size[o.fil.file]) :
             Takes(t) /\ Moves(t, u, b)
  BY DEF Write
<1> DEFINE no == ~o.ok \/ o.ro[u] \/ b >= blocks[u]
           can == o.fil.rw /\ o.fil.file # NoImage /\ b < Size[o.fil.file]
<1>2. PICK t \in IF no THEN {[o EXCEPT !.ok = FALSE]} ELSE Transfer(o, can) :
          Takes(t) /\ Moves(t, u, b)
  BY <1>1
<1>3. no \in BOOLEAN /\ (~o.ok => no) /\ can \in BOOLEAN
  <2>1. o \in Outcomes
    BY OpenIs DEF IInv
  <2> QED BY <2>1 DEF Outcomes, Handles
<1>4. ~no => b < blocks[u]
  BY BlocksNat DEF IInv, TypeOK
<1>5. /\ t \in Outcomes /\ Proper(t)
      /\ t.ok => ~no /\ t.unit = u /\ t.open /\ t.fil.file # NoImage
  <2> HIDE DEF no, can
  <2>1. t \in IF no THEN {[o EXCEPT !.ok = FALSE]} ELSE Transfer(o, can)
    BY <1>2
  <2> QED BY <2>1, <1>3, MoveIs DEF IInv
<1>6. Meets({}) /\ UNCHANGED <<path, blocks, usize, osdVars, stale>>
  BY DEF Write
<1> QED
  <2> HIDE DEF no, can
  <2> QED BY <1>2, <1>4, <1>5, <1>6, MovesKeeps

\* az_set_unit by the interrupt task: the unit is healed, unless the OSD is at it.
LEMMA SetUnitKeeps ==
    ASSUME IInv, NEW u \in Units, NEW f \in Paths, az_set_unit(u, f),
           moved' = NoBlock, Meets({u}), Resends(u), UNCHANGED osdVars
    PROVE  IInv'
<1> USE DEF osdVars
<1>1. /\ path' = [path EXCEPT ![u] = f] /\ usize' = blocks'
      /\ cur_unit = u => cur_unit' = NoUnit /\ cur_open' = FALSE /\ cur_fil' = Closed
      /\ cur_unit # u => UNCHANGED curVars
  BY DEF az_set_unit, CloseIfCurrent
<1>2. \E n \in Nat : /\ blocks' = [blocks EXCEPT ![u] = n]
                     /\ f # NoImage => n <= Size[f]
  <2>1. f # NoImage => f \in Images /\ Size[f] \in Nat
    BY UnitsAssumption DEF Paths
  <2> DEFINE seen == IF f = NoImage \/ Access[f] = "none" THEN 0 ELSE Size[f]
  <2>2. seen \in Nat /\ (f # NoImage => seen <= Size[f] /\ 0 <= Size[f])
    BY <2>1
  <2>3. blocks' = [blocks EXCEPT ![u] = seen] \/ (f # NoImage /\ blocks' = [blocks EXCEPT ![u] = 0])
    BY DEF az_set_unit, SetBlocks
  <2> HIDE DEF seen
  <2> QED BY <2>2, <2>3
<1>3. TypeOK'
  <2>1. path' \in [Units -> Paths] /\ blocks' \in [Units -> Nat] /\ usize' \in [Units -> Nat]
    BY <1>1, <1>2 DEF IInv, TypeOK
  <2>2. ro' \in [Units -> BOOLEAN]
    BY DEF IInv, TypeOK, az_set_unit, SetRo
  <2>3. faults' \in 0..MaxFaults
    BY UnitsAssumption DEF IInv, TypeOK, az_set_unit, SetBlocks, Fault
  <2>4. cur_unit' \in Units \union {NoUnit} /\ cur_open' \in BOOLEAN /\ cur_fil' \in Handles
    <3>1. Closed \in Handles
      BY DEF Closed, Handles, Paths
    <3>2. cur_unit \in Units \union {NoUnit} /\ cur_open \in BOOLEAN /\ cur_fil \in Handles
      BY DEF IInv, TypeOK
    <3>3. CASE cur_unit = u
      BY <1>1, <3>1, <3>3
    <3>4. CASE cur_unit # u
      BY <1>1, <3>2, <3>4 DEF curVars
    <3> QED BY <3>3, <3>4
  <2>5. torn' \subseteq Units /\ stale' \subseteq Units
    BY DEF IInv, TypeOK, Meets, Resends
  <2> QED BY <2>1, <2>2, <2>3, <2>4, <2>5 DEF IInv, TypeOK
<1>4. UnitsFit'
  <2> SUFFICES ASSUME NEW v \in Units, v \notin torn'
               PROVE  ~Mounting(v)' /\ Settled(v)'
    BY DEF UnitsFit
  <2>1. ~Mounting(v) /\ ~Mounting(v)' /\ (v # u => v \notin torn)
    BY DEF Meets, Mounting, IInv, TypeOK
  <2>2. CASE v = u
    <3>1. cur_unit' # u
      BY <1>1, UnitsAssumption DEF curVars
    <3>2. path'[u] = f
      BY <1>1 DEF IInv, TypeOK
    <3>3. f # NoImage => blocks'[u] <= Size[f]
      BY <1>2 DEF IInv, TypeOK
    <3> QED BY <2>1, <2>2, <3>1, <3>2, <3>3 DEF Settled, HoldsFileOf, SizeFits
  <2>3. CASE v # u
    <3>1. Settled(v)
      BY <2>1, <2>3 DEF IInv, UnitsFit
    <3>2. path'[v] = path[v] /\ blocks'[v] = blocks[v]
      BY <1>1, <1>2, <2>3 DEF IInv, TypeOK
    <3>3. HoldsFileOf(v)'
      BY <1>1, <3>1, <3>2, UnitsAssumption DEF Settled, HoldsFileOf, curVars
    <3> QED BY <2>1, <3>1, <3>2, <3>3 DEF Settled, SizeFits
  <2> QED BY <2>2, <2>3
<1>5. TableSent'
  <2>1. SizesFollow'
    BY <1>1 DEF SizesFollow
  <2>2. ASSUME osd = "push", NEW v \in Units \ stale' PROVE w[v] = blocks'[v]
    <3>1. v \in Units \ stale /\ v # u
      BY <2>2 DEF Resends
    <3> QED BY <1>2, <2>2, <3>1 DEF IInv, TypeOK, TableSent
  <2> QED BY <2>1, <2>2 DEF TableSent
<1>6. ServedFromMounted'
  BY DEF ServedFromMounted
<1> QED BY <1>6, <1>3, <1>4, <1>5 DEF IInv

LEMMA ServeKeeps == ASSUME IInv, Serve PROVE IInv'
<1> PICK u \in Units :
        \/ Select(u) \/ Unmount(u)
        \/ \E b \in Blocks : Read(u, b) \/ Write(u, b)
        \/ \E f \in Paths : Mount(u, f)
  BY DEF Serve
<1>1. CASE Select(u)
  BY <1>1, SelectKeeps
<1>2. CASE Unmount(u)
  <2>1. NoImage \in Paths
    BY DEF Paths
  <2> QED BY <1>2, <2>1, SetUnitKeeps DEF Unmount
<1>3. CASE \E b \in Blocks : Read(u, b) \/ Write(u, b)
  BY <1>3, ReadKeeps, WriteKeeps
<1>4. CASE \E f \in Paths : Mount(u, f)
  BY <1>4, SetUnitKeeps DEF Mount
<1> QED BY <1>1, <1>2, <1>3, <1>4

-----------------------------------------------------------------------------
(* The OSD task's steps.                                                   *)

\* A step of the OSD's disturbs no unit but its own.
Others == \A v \in Units \ torn : want.unit # v => Settled(v)

LEMMA OthersSettled ==
    ASSUME IInv, osd # "idle"
    PROVE  Others /\ want.unit \in Units /\ want.file \in Paths
               /\ (want.unit \notin torn => Midway(want.unit))
<1>1. want.unit \in Units
  BY DEF IInv, TypeOK
<1>2. want.file \in Paths
  <2>1. NoImage \in Paths
    BY DEF Paths
  <2> QED BY <2>1 DEF IInv, TypeOK, NoWant
<1>3. ASSUME NEW v \in Units \ torn
      PROVE  IF Mounting(v) THEN Midway(v) ELSE Settled(v)
  BY <1>3 DEF IInv, UnitsFit
<1>4. Others
  BY <1>3 DEF Mounting, Others
<1>5. want.unit \notin torn => Midway(want.unit)
  BY <1>1, <1>3 DEF Mounting
<1> QED BY <1>1, <1>2, <1>4, <1>5

LEMMA MenuMountKeeps == ASSUME IInv, NEW u \in Units, NEW f \in Paths, MenuMount(u, f) PROVE IInv'
<1> USE DEF MenuMount, unitVars, curVars
<1>1. TypeOK'
  BY DEF IInv, TypeOK, OsdStates
<1>2. UnitsFit'
  <2> SUFFICES ASSUME NEW v \in Units, v \notin torn'
               PROVE  IF Mounting(v)' THEN Midway(v)' ELSE Settled(v)'
    BY DEF UnitsFit
  <2>1. CASE v = u
    BY <2>1 DEF Mounting, Midway
  <2>2. CASE v # u
    <3>1. Settled(v)
      BY <2>2 DEF IInv, UnitsFit, Mounting
    <3> QED BY <2>2, <3>1 DEF Mounting, Settled, HoldsFileOf, SizeFits
  <2> QED BY <2>1, <2>2
<1>3. TableSent' /\ ServedFromMounted'
  BY DEF TableSent, SizesFollow, ServedFromMounted
<1> QED BY <1>1, <1>2, <1>3 DEF IInv

\* All the others: the OSD stays at its unit, or is done.
LEMMA OsdStepKeeps ==
    ASSUME IInv, osd # "idle", NEW u \in Units, u = want.unit, moved' = NoBlock, torn' = torn, TypeOK', TableSent',
           \A v \in Units \ torn : u # v => Settled(v)',
           u \notin torn => IF osd' = "idle" THEN Settled(u)' ELSE Midway(u)',
           osd' # "idle" => want' = want
    PROVE  IInv'
<1>1. UnitsFit'
  <2> SUFFICES ASSUME NEW v \in Units, v \notin torn'
               PROVE  IF Mounting(v)' THEN Midway(v)' ELSE Settled(v)'
    BY DEF UnitsFit
  <2>1. v \in Units \ torn
    OBVIOUS
  <2>2. CASE osd' = "idle"
    BY <2>1, <2>2 DEF Mounting
  <2>3. CASE osd' # "idle"
    BY <2>1, <2>3 DEF Mounting
  <2> QED BY <2>2, <2>3
<1>2. ServedFromMounted'
  BY DEF ServedFromMounted
<1> QED BY <1>1, <1>2 DEF IInv

LEMMA OsdCheckKeeps == ASSUME IInv, OsdCheck PROVE IInv'
<1> USE DEF OsdCheck, OsdAt, unitVars, curVars
<1> DEFINE u == want.unit
<1>1. Others /\ u \in Units /\ (u \notin torn => Midway(u))
  BY OthersSettled
<1>2. osd' \in {"path", "close", "leave"} /\ want' = want
  OBVIOUS
<1>3. TypeOK' /\ TableSent'
  BY <1>2 DEF IInv, TypeOK, OsdStates, TableSent, SizesFollow
<1>4. \A v \in Units \ torn : u # v => Settled(v)'
  BY <1>1 DEF Others, Settled, HoldsFileOf, SizeFits
<1>5. Midway(u)'
  BY <1>2, <1>1 DEF Midway
<1> QED
  <2> HIDE DEF u
  <2> QED BY <1>1, <1>2, <1>3, <1>4, <1>5, OsdStepKeeps DEF u
LEMMA OsdCloseKeeps == ASSUME IInv, OsdClose PROVE IInv'
<1> USE DEF OsdClose, OsdAt, unitVars, curVars
<1> DEFINE u == want.unit
<1>1. Others /\ u \in Units /\ want.file \in Paths /\ (u \notin torn => Midway(u))
  BY OthersSettled
<1>3. TypeOK' /\ TableSent'
  BY <1>1 DEF IInv, TypeOK, OsdStates, TableSent, SizesFollow, Closed, Handles, Paths
<1>4. ASSUME NEW v \in Units \ torn, u # v PROVE Settled(v)'
  <2>1. Settled(v)
    BY <1>1, <1>4 DEF Others
  <2> QED BY <2>1 DEF Settled, HoldsFileOf, SizeFits, Closed
<1>5. u \notin torn => Midway(u)'
  BY <1>1 DEF Midway
<1> QED
  <2>1. osd' # "idle" /\ want' = want
    OBVIOUS
  <2> HIDE DEF u
  <2> QED BY <1>1, <1>3, <1>4, <1>5, <2>1, OsdStepKeeps DEF u

LEMMA OsdForgetKeeps == ASSUME IInv, OsdForget PROVE IInv'
<1> USE DEF OsdForget, OsdAt, unitVars, curVars
<1> DEFINE u == want.unit
<1>1. Others /\ u \in Units /\ want.file \in Paths /\ (u \notin torn => Midway(u))
  BY OthersSettled
<1>3. TypeOK' /\ TableSent'
  BY <1>1 DEF IInv, TypeOK, OsdStates, TableSent, SizesFollow
<1>4. ASSUME NEW v \in Units \ torn, u # v PROVE Settled(v)'
  <2>1. Settled(v)
    BY <1>1, <1>4 DEF Others
  <2> QED BY <2>1 DEF Settled, HoldsFileOf, SizeFits
<1>5. u \notin torn => Midway(u)'
  BY <1>1 DEF Midway
<1> QED
  <2>1. osd' # "idle" /\ want' = want
    OBVIOUS
  <2> HIDE DEF u
  <2> QED BY <1>1, <1>3, <1>4, <1>5, <2>1, OsdStepKeeps DEF u

LEMMA OsdLeaveKeeps == ASSUME IInv, OsdLeave PROVE IInv'
<1> USE DEF OsdLeave, OsdAt, unitVars, curVars
<1> DEFINE u == want.unit
<1>1. Others /\ u \in Units /\ want.file \in Paths /\ (u \notin torn => Midway(u))
  BY OthersSettled
<1>3. TypeOK' /\ TableSent'
  BY <1>1 DEF IInv, TypeOK, OsdStates, TableSent, SizesFollow
<1>4. ASSUME NEW v \in Units \ torn, u # v PROVE Settled(v)'
  <2>1. Settled(v)
    BY <1>1, <1>4 DEF Others
  <2> QED BY <2>1, UnitsAssumption DEF Settled, HoldsFileOf, SizeFits
<1>5. u \notin torn => Midway(u)'
  BY <1>1, UnitsAssumption DEF Midway
<1> QED
  <2>1. osd' # "idle" /\ want' = want
    OBVIOUS
  <2> HIDE DEF u
  <2> QED BY <1>1, <1>3, <1>4, <1>5, <2>1, OsdStepKeeps DEF u

LEMMA OsdPathKeeps == ASSUME IInv, OsdPath PROVE IInv'
<1> USE DEF OsdPath, OsdAt, unitVars, curVars
<1> DEFINE u == want.unit
<1>1. Others /\ u \in Units /\ want.file \in Paths /\ (u \notin torn => Midway(u))
  BY OthersSettled
<1>2. path' = [path EXCEPT ![u] = want.file] /\ path' \in [Units -> Paths] /\ path'[u] = want.file
  BY <1>1 DEF IInv, TypeOK
<1>3. TypeOK' /\ TableSent'
  BY <1>1 DEF IInv, TypeOK, OsdStates, TableSent, SizesFollow
<1>4. ASSUME NEW v \in Units \ torn, u # v PROVE Settled(v)'
  <2>1. Settled(v)
    BY <1>1, <1>4 DEF Others
  <2> QED BY <2>1, <1>4, <1>2 DEF Settled, HoldsFileOf, SizeFits
<1>5. u \notin torn => Midway(u)'
  BY <1>1, <1>2 DEF Midway
<1> QED
  <2>1. osd' # "idle" /\ want' = want
    OBVIOUS
  <2> HIDE DEF u
  <2> QED BY <1>1, <1>3, <1>4, <1>5, <2>1, OsdStepKeeps DEF u

LEMMA OsdBlocksKeeps == ASSUME IInv, OsdBlocks PROVE IInv'
<1> USE DEF OsdBlocks, OsdAt, unitVars, curVars
<1> DEFINE u == want.unit
<1>1. Others /\ u \in Units /\ want.file \in Paths /\ (u \notin torn => Midway(u))
  BY OthersSettled
<1>2. /\ blocks' \in [Units -> Nat] /\ \A v \in Units \ {u} : blocks'[v] = blocks[v]
      /\ want.file # NoImage => blocks'[u] <= Size[want.file]
  <2> DEFINE f == want.file
             seen == IF f = NoImage \/ Access[f] = "none" THEN 0 ELSE Size[f]
  <2>1. f # NoImage => f \in Images /\ Size[f] \in Nat
    BY <1>1, UnitsAssumption DEF Paths
  <2>2. seen \in Nat /\ (f # NoImage => seen <= Size[f] /\ 0 <= Size[f])
    BY <2>1
  <2>3. blocks' = [blocks EXCEPT ![u] = seen] \/ (f # NoImage /\ blocks' = [blocks EXCEPT ![u] = 0])
    BY DEF SetBlocks
  <2>4. blocks \in [Units -> Nat]
    BY DEF IInv, TypeOK
  <2> HIDE DEF seen, f, u
  <2> QED BY <2>2, <2>3, <2>4, <1>1 DEF f
<1>3. TypeOK' /\ TableSent'
  <2>1. faults' \in 0..MaxFaults
    BY UnitsAssumption DEF IInv, TypeOK, SetBlocks, Fault
  <2> QED BY <1>2, <2>1 DEF IInv, TypeOK, OsdStates, TableSent, SizesFollow
<1>4. ASSUME NEW v \in Units \ torn, u # v PROVE Settled(v)'
  <2>1. Settled(v)
    BY <1>1, <1>4 DEF Others
  <2> QED BY <2>1, <1>4, <1>2 DEF Settled, HoldsFileOf, SizeFits
<1>5. u \notin torn => Midway(u)'
  BY <1>1, <1>2 DEF Midway, SizeFits
<1> QED
  <2>1. osd' # "idle" /\ want' = want
    OBVIOUS
  <2> HIDE DEF u
  <2> QED BY <1>1, <1>3, <1>4, <1>5, <2>1, OsdStepKeeps DEF u

LEMMA OsdRoKeeps == ASSUME IInv, OsdRo PROVE IInv'
<1> USE DEF OsdRo, OsdAt, unitVars, curVars
<1> DEFINE u == want.unit
<1>1. Others /\ u \in Units /\ want.file \in Paths /\ (u \notin torn => Midway(u))
  BY OthersSettled
<1>3. TypeOK' /\ TableSent'
  BY <1>1 DEF IInv, TypeOK, OsdStates, TableSent, SizesFollow, SetRo
<1>4. ASSUME NEW v \in Units \ torn, u # v PROVE Settled(v)'
  <2>1. Settled(v)
    BY <1>1, <1>4 DEF Others
  <2> QED BY <2>1 DEF Settled, HoldsFileOf, SizeFits
<1>5. u \notin torn => Midway(u)'
  BY <1>1 DEF Midway, SizeFits
<1> QED
  <2>1. osd' # "idle" /\ want' = want
    OBVIOUS
  <2> HIDE DEF u
  <2> QED BY <1>1, <1>3, <1>4, <1>5, <2>1, OsdStepKeeps DEF u

LEMMA OsdSizesKeeps == ASSUME IInv, OsdSizes PROVE IInv'
<1> USE DEF OsdSizes, OsdAt, unitVars, curVars
<1> DEFINE u == want.unit
<1>1. Others /\ u \in Units /\ want.file \in Paths /\ (u \notin torn => Midway(u))
  BY OthersSettled
<1>3. TypeOK' /\ TableSent'
  BY <1>1 DEF IInv, TypeOK, OsdStates, TableSent, SizesFollow
<1>4. ASSUME NEW v \in Units \ torn, u # v PROVE Settled(v)'
  <2>1. Settled(v)
    BY <1>1, <1>4 DEF Others
  <2> QED BY <2>1 DEF Settled, HoldsFileOf, SizeFits
<1>5. u \notin torn => Midway(u)'
  BY <1>1 DEF Midway, SizeFits
<1> QED
  <2>1. osd' # "idle" /\ want' = want
    OBVIOUS
  <2> HIDE DEF u
  <2> QED BY <1>1, <1>3, <1>4, <1>5, <2>1, OsdStepKeeps DEF u

LEMMA OsdPushKeeps == ASSUME IInv, OsdPush PROVE IInv'
<1> USE DEF OsdPush, OsdAt, unitVars, curVars
<1> DEFINE u == want.unit
<1>1. Others /\ u \in Units /\ (u \notin torn => Midway(u))
  BY OthersSettled
<1>2. TypeOK' /\ TableSent'
  BY DEF IInv, TypeOK, OsdStates, TableSent, SizesFollow
<1>3. ASSUME NEW v \in Units \ torn PROVE Settled(v)'
  <2>1. CASE u # v
    <3>1. Settled(v)
      BY <1>1, <2>1 DEF Others
    <3> QED BY <3>1 DEF Settled, HoldsFileOf, SizeFits
  <2>2. CASE u = v
    BY <1>1, <2>2 DEF Midway, Settled, HoldsFileOf, SizeFits
  <2> QED BY <2>1, <2>2
<1>4. UnitsFit'
  BY <1>3 DEF UnitsFit, Mounting
<1> QED BY <1>2, <1>4 DEF IInv, ServedFromMounted

-----------------------------------------------------------------------------
LEMMA InitFits == Init => IInv
<1> SUFFICES ASSUME Init PROVE IInv
  OBVIOUS
<1>1. blocks \in [Units -> Nat] /\ \A u \in Units : path[u] # NoImage => blocks[u] <= Size[path[u]]
  <2>1. ASSUME NEW u \in Units
        PROVE  /\ blocks[u] = IF path[u] = NoImage \/ Access[path[u]] = "none" THEN 0 ELSE Size[path[u]]
               /\ path[u] # NoImage => path[u] \in Images /\ Size[path[u]] \in Nat
    BY UnitsAssumption DEF Init, Paths
  <2>2. ASSUME NEW u \in Units PROVE blocks[u] \in Nat
    <3>1. CASE path[u] = NoImage \/ Access[path[u]] = "none"
      BY <2>1, <3>1
    <3>2. CASE path[u] # NoImage /\ Access[path[u]] # "none"
      BY <2>1, <3>2
    <3> QED BY <3>1, <3>2
  <2>3. \A u \in Units : path[u] # NoImage => blocks[u] <= Size[path[u]]
    BY <2>1
  <2>4. blocks = [u \in Units |-> blocks[u]]
    BY DEF Init
  <2> QED BY <2>2, <2>3, <2>4
<1>2. TypeOK
  <2>1. path \in [Units -> Paths] /\ blocks \in [Units -> Nat] /\ usize \in [Units -> Nat]
    BY <1>1 DEF Init
  <2>2. ro \in [Units -> BOOLEAN] /\ w \in [Units -> Nat] /\ torn \subseteq Units
    BY DEF Init
  <2>5. stale \subseteq Units
    BY DEF Init
  <2>3. cur_unit \in Units \union {NoUnit} /\ cur_open \in BOOLEAN /\ faults \in 0..MaxFaults
    <3>1. cur_unit = NoUnit /\ cur_open = FALSE /\ faults = MaxFaults
      BY DEF Init
    <3>2. MaxFaults \in Nat
      BY UnitsAssumption
    <3>3. MaxFaults \in 0..MaxFaults
      BY <3>2
    <3>4. cur_open \in BOOLEAN
      BY <3>1, Zenon
    <3> QED BY <3>1, <3>3, <3>4
  <2>4. cur_fil \in Handles
    BY DEF Init, Closed, Handles, Paths
  <2> QED BY <2>1, <2>2, <2>3, <2>4, <2>5 DEF Init, TypeOK, OsdStates
<1>3. UnitsFit
  BY <1>1 DEF Init, UnitsFit, Mounting, Settled, HoldsFileOf, SizeFits
<1>4. TableSent /\ ServedFromMounted
  BY DEF Init, TableSent, SizesFollow, ServedFromMounted
<1> QED BY <1>2, <1>3, <1>4 DEF IInv

LEMMA StepKeeps == IInv /\ [Next]_vars => IInv'
<1> SUFFICES ASSUME IInv, [Next]_vars PROVE IInv'
  OBVIOUS
<1>1. CASE Serve
  BY <1>1, ServeKeeps
<1>2. CASE Osd
  BY <1>2, MenuMountKeeps, OsdCheckKeeps, OsdCloseKeeps, OsdForgetKeeps, OsdLeaveKeeps, OsdPathKeeps,
     OsdBlocksKeeps, OsdRoKeeps, OsdSizesKeeps, OsdPushKeeps DEF Osd
<1>3. CASE UNCHANGED vars
  BY <1>3 DEF vars, unitVars, curVars, osdVars, IInv, TypeOK, UnitsFit, Mounting, Midway, Settled,
     HoldsFileOf, SizeFits, ServedFromMounted, TableSent, SizesFollow
<1> QED BY <1>1, <1>2, <1>3 DEF Next

(* However commands and mounts meet, every variable keeps its type.        *)
THEOREM TypeCorrect == Spec => []TypeOK
<1>1. IInv => TypeOK
  BY DEF IInv
<1> QED BY InitFits, StepKeeps, <1>1, PTL DEF Spec

(* A block comes from the image mounted in its unit, and from its place,   *)
(* for every unit whose last mount from the OSD met no command: one task's *)
(* unlucky mount of one unit never reaches another (azbk.c:61-78, 92-107). *)
THEOREM OthersServedRight == Spec => []ServedFromMounted
<1>1. IInv => ServedFromMounted
  BY DEF IInv
<1> QED BY InitFits, StepKeeps, <1>1, PTL DEF Spec

(* A table of sizes that was made before a command and sent after it       *)
(* spoils that command's unit at most, until the next one (azbk.c:82-90).  *)
THEOREM TableFollows == Spec => []SizesFollow
<1>1. IInv => SizesFollow
  BY DEF IInv, TableSent
<1> QED BY InitFits, StepKeeps, <1>1, PTL DEF Spec
=============================================================================
