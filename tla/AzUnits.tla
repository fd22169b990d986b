------------------------------ MODULE AzUnits ------------------------------
(***************************************************************************)
(* The AZ controller's disk units on the BK (azbk.c).  The interrupt task  *)
(* serves the machine's commands in az_handle_event, with one file kept    *)
(* open for the unit used last.  The OSD task mounts images through the    *)
(* same az_set_unit (menu.c, menu_bk_mount), without the card's lock, and  *)
(* has the lower priority: a command is served whole between two of its    *)
(* steps.                                                                  *)
(*                                                                         *)
(* A block is 512 bytes.  An image's clusters end with its last block and  *)
(* its link map fits cur_clmt, so no write makes it longer.                *)
(***************************************************************************)
EXTENDS Naturals

CONSTANTS
    Units,      \* 0..AZ_UNITS - 1
    NoUnit,     \* cur_unit = -1
    Images,     \* the files that are named
    NoImage,    \* the empty path
    Size,       \* each image's size in blocks
    Access,     \* how it can be opened: "rw", "r" or, not on the card, "none"
    MaxFaults   \* how often a card access fails

ASSUME UnitsAssumption ==
    /\ NoUnit \notin Units /\ NoImage \notin Images
    /\ Size \in [Images -> Nat]
    /\ Access \in [Images -> {"rw", "r", "none"}]
    /\ MaxFaults \in Nat

VARIABLES
    path, blocks, ro,    \* units[]
    cur_unit, cur_open,
    cur_fil,    \* the FIL: its file or NoImage if closed, its mode, its sticky error
    usize,      \* the FPGA's table of sizes, AZ_R_USIZE
    osd,        \* where the OSD task is in az_set_unit
    want,       \* the unit and the image it mounts
    w,          \* the sizes it is about to send
    moved,      \* whether the block the last command moved was the one asked for
    torn,       \* the units whose last mount from the OSD met a command
    stale,      \* the units mounted by a command after the OSD had made its table
    faults      \* failures of the card still to come

unitVars == <<path, blocks, ro>>
curVars == <<cur_unit, cur_open, cur_fil>>
osdVars == <<osd, want, w>>
vars == <<unitVars, curVars, usize, osdVars, moved, torn, stale, faults>>

Closed == [file |-> NoImage, rw |-> FALSE, bad |-> FALSE]
Opened(f, rw) == [file |-> f, rw |-> rw, bad |-> FALSE]
NoBlock == <<>>
NoWant == [unit |-> NoUnit, file |-> NoImage]
Paths == Images \union {NoImage}
Blocks == UNION {0 .. Size[f] - 1 : f \in Images}

Fault == faults > 0 /\ faults' = faults - 1

-----------------------------------------------------------------------------
(* The file kept open.                                                     *)

\* What a step of the interrupt task leaves of it and of units[].ro; cost is
\* the failures of the card it met.
Outcome(ok, u, open, fil, r, cost) ==
    [ok |-> ok, unit |-> u, open |-> open, fil |-> fil, ro |-> r, cost |-> cost]
Stays(ok) == Outcome(ok, cur_unit, cur_open, cur_fil, ro, 0)

Takes(o) ==
    /\ o.cost <= faults /\ faults' = faults - o.cost
    /\ cur_unit' = o.unit /\ cur_open' = o.open /\ cur_fil' = o.fil /\ ro' = o.ro

\* The file is kept if it is the unit's; or else it is opened for writing, or
\* else the unit becomes read-only and it is opened for reading.
unit_open(u) ==
    LET f == path[u]
        mode == Access[f]
        asRo == [ro EXCEPT ![u] = TRUE]
        writable == Outcome(TRUE, u, TRUE, Opened(f, TRUE), ro, 0)
        readable(cost) == Outcome(TRUE, u, TRUE, Opened(f, FALSE), asRo, cost)
        neither(cost) == Outcome(FALSE, NoUnit, FALSE, Closed, asRo, cost)
    IN  IF f = NoImage THEN {Stays(FALSE)}
        ELSE IF cur_unit = u /\ cur_open THEN {Stays(TRUE)}
        ELSE IF mode = "rw" THEN {writable, readable(1), neither(1)}
        ELSE IF mode = "r" THEN {readable(0), neither(1)}
        ELSE {neither(0)}

\* f_lseek and f_read or f_write with the file that is open: a file closed
\* meanwhile refuses, one that the card failed refuses from then on.
Transfer(o, can) ==
    {[o EXCEPT !.ok = o.fil.file # NoImage /\ ~o.fil.bad /\ can]}
    \union (IF o.fil.file = NoImage THEN {}
            ELSE {Outcome(FALSE, o.unit, o.open, [o.fil EXCEPT !.bad = TRUE], o.ro, o.cost + 1)})

\* A seek behind the end of the file stops there.
Seek(f, b) == IF b < Size[f] THEN b ELSE Size[f]

-----------------------------------------------------------------------------
(* az_set_unit in its parts, for unit u and image f.                       *)

\* Mutant: the file kept open is not closed.
KeepFile(u) == UNCHANGED curVars

\* unit_close, if the file kept open is the unit's.
CloseIfCurrent(u) ==
    IF cur_unit = u THEN cur_unit' = NoUnit /\ cur_open' = FALSE /\ cur_fil' = Closed
                    ELSE UNCHANGED curVars

\* file_blocks: a file that cannot be looked up has no blocks.
SetBlocks(u, f) ==
    \/ /\ blocks' = [blocks EXCEPT ![u] = IF f = NoImage \/ Access[f] = "none"
                                          THEN 0 ELSE Size[f]]
       /\ UNCHANGED faults
    \/ f # NoImage /\ blocks' = [blocks EXCEPT ![u] = 0] /\ Fault

SetRo(u, f) == ro' = IF f = NoImage THEN ro ELSE [ro EXCEPT ![u] = FALSE]

\* Mutant: the table is not sent when a unit is emptied.
SetUnitQuietly(u, f) ==
    /\ CloseIfCurrent(u)
    /\ path' = [path EXCEPT ![u] = f]
    /\ SetBlocks(u, f) /\ SetRo(u, f)
    /\ usize' = IF f = NoImage THEN usize ELSE blocks'

\* All of it, with az_push_sizes last.
az_set_unit(u, f) ==
    /\ CloseIfCurrent(u)
    /\ path' = [path EXCEPT ![u] = f]
    /\ SetBlocks(u, f) /\ SetRo(u, f)
    /\ usize' = blocks'

-----------------------------------------------------------------------------
(* The machine's commands, each served whole by the interrupt task.        *)

\* A mount of the OSD's that is under way meets this command.
Meets(healed) ==
    torn' = (torn \ healed) \union (IF osd = "idle" THEN {} ELSE {want.unit})

\* The table goes out whole, but one that the OSD has made already comes after.
Resends(u) == stale' = IF osd = "push" THEN stale \union {u} ELSE {}

\* 001.
Select(u) ==
    /\ \E o \in unit_open(u) : Takes(o)
    /\ moved' = NoBlock /\ Meets({})
    /\ UNCHANGED <<path, blocks, usize, osdVars, stale>>

\* Without an error the block of the image in the unit is moved, or another.
Moves(o, u, b) ==
    moved' = IF ~o.ok THEN NoBlock
             ELSE [unit |-> u, right |-> o.fil.file = path[u] /\ Seek(o.fil.file, b) = b]

\* 005, from the unit the FPGA's select chose.
Read(u, b) ==
    /\ \E o \in unit_open(u) :
          \E t \in IF ~o.ok \/ b >= blocks[u] THEN {[o EXCEPT !.ok = FALSE]}
                                             ELSE Transfer(o, TRUE) :
             Takes(t) /\ Moves(t, u, b)
    /\ Meets({})
    /\ UNCHANGED <<path, blocks, usize, osdVars, stale>>

\* 006: nothing is written to a unit that is read-only, to a file opened for
\* reading or behind the end of the file.
Write(u, b) ==
    /\ \E o \in unit_open(u) :
          \E t \in IF ~o.ok \/ o.ro[u] \/ b >= blocks[u] THEN {[o EXCEPT !.ok = FALSE]}
                   ELSE Transfer(o, o.fil.rw /\ o.fil.file # NoImage /\ b < Size[o.fil.file]) :
             Takes(t) /\ Moves(t, u, b)
    /\ Meets({})
    /\ UNCHANGED <<path, blocks, usize, osdVars, stale>>

\* 004, Dn=path; the path may be empty.
Mount(u, f) ==
    /\ az_set_unit(u, f)
    /\ moved' = NoBlock /\ Meets({u}) /\ Resends(u)
    /\ UNCHANGED osdVars

\* 014; a unit with nothing mounted is an error.
Unmount(u) ==
    /\ path[u] # NoImage
    /\ az_set_unit(u, NoImage)
    /\ moved' = NoBlock /\ Meets({u}) /\ Resends(u)
    /\ UNCHANGED osdVars

Serve ==
    \E u \in Units :
        \/ Select(u) \/ Unmount(u)
        \/ \E b \in Blocks : Read(u, b) \/ Write(u, b)
        \/ \E f \in Paths : Mount(u, f)

-----------------------------------------------------------------------------
(* The OSD task's mount: menu_bk_mount and az_set_unit, step by step.      *)

OsdAt(s, next) == osd = s /\ osd' = next /\ moved' = NoBlock
                 /\ want' = IF next = "idle" THEN NoWant ELSE want

MenuMount(u, f) ==
    /\ osd = "idle" /\ osd' = "check"
    /\ want' = [unit |-> u, file |-> f]
    /\ torn' = torn \ {u} /\ stale' = {} /\ moved' = NoBlock
    /\ UNCHANGED <<unitVars, curVars, usize, w, faults>>

\* if(cur_unit == unit), and within unit_close if(cur_open).
OsdCheck ==
    /\ OsdAt("check", IF cur_unit # want.unit THEN "path" ELSE IF cur_open THEN "close" ELSE "leave")
    /\ UNCHANGED <<unitVars, curVars, usize, w, torn, stale, faults>>

OsdClose ==
    /\ OsdAt("close", "forget")
    /\ cur_fil' = Closed
    /\ UNCHANGED <<unitVars, cur_unit, cur_open, usize, w, torn, stale, faults>>

OsdForget ==
    /\ OsdAt("forget", "leave")
    /\ cur_open' = FALSE
    /\ UNCHANGED <<unitVars, cur_unit, cur_fil, usize, w, torn, stale, faults>>

OsdLeave ==
    /\ OsdAt("leave", "path")
    /\ cur_unit' = NoUnit
    /\ UNCHANGED <<unitVars, cur_open, cur_fil, usize, w, torn, stale, faults>>

OsdPath ==
    /\ OsdAt("path", "blocks")
    /\ path' = [path EXCEPT ![want.unit] = want.file]
    /\ UNCHANGED <<blocks, ro, curVars, usize, w, torn, stale, faults>>

OsdBlocks ==
    /\ OsdAt("blocks", "ro")
    /\ SetBlocks(want.unit, want.file)
    /\ UNCHANGED <<path, ro, curVars, usize, w, torn, stale>>

OsdRo ==
    /\ OsdAt("ro", "sizes")
    /\ SetRo(want.unit, want.file)
    /\ UNCHANGED <<path, blocks, curVars, usize, w, torn, stale, faults>>

\* az_push_sizes: the table is made, then sent.
OsdSizes ==
    /\ OsdAt("sizes", "push")
    /\ w' = blocks
    /\ UNCHANGED <<unitVars, curVars, usize, torn, stale, faults>>

OsdPush ==
    /\ OsdAt("push", "idle")
    /\ usize' = w /\ w' = [u \in Units |-> 0]
    /\ UNCHANGED <<unitVars, curVars, torn, stale, faults>>

Osd ==
    \/ \E u \in Units, f \in Paths : MenuMount(u, f)
    \/ OsdCheck \/ OsdClose \/ OsdForget \/ OsdLeave \/ OsdPath \/ OsdBlocks \/ OsdRo
    \/ OsdSizes \/ OsdPush

-----------------------------------------------------------------------------
\* az_boot has read AZ.INI with the machine held in reset.
Init ==
    /\ path \in [Units -> Paths]
    /\ blocks = [u \in Units |-> IF path[u] = NoImage \/ Access[path[u]] = "none"
                                 THEN 0 ELSE Size[path[u]]]
    /\ usize = blocks
    /\ ro = [u \in Units |-> FALSE]
    /\ cur_unit = NoUnit /\ cur_open = FALSE /\ cur_fil = Closed
    /\ osd = "idle" /\ want = NoWant
    /\ w = [u \in Units |-> 0]
    /\ moved = NoBlock /\ torn = {} /\ stale = {} /\ faults = MaxFaults

Next == Serve \/ Osd

Spec == Init /\ [][Next]_vars

-----------------------------------------------------------------------------
Handles == [file : Paths, rw : BOOLEAN, bad : BOOLEAN]
OsdStates == {"idle", "check", "close", "forget", "leave", "path", "blocks", "ro", "sizes", "push"}

\* Every variable keeps its type.
TypeOK ==
    /\ path \in [Units -> Paths] /\ blocks \in [Units -> Nat] /\ ro \in [Units -> BOOLEAN]
    /\ cur_unit \in Units \union {NoUnit} /\ cur_open \in BOOLEAN /\ cur_fil \in Handles
    /\ usize \in [Units -> Nat] /\ w \in [Units -> Nat]
    /\ osd \in OsdStates
    /\ want \in [unit : Units, file : Paths] \union {NoWant} /\ (osd # "idle" => want.unit \in Units)
    /\ moved \in [unit : Units, right : BOOLEAN] \union {NoBlock}
    /\ torn \subseteq Units /\ stale \subseteq Units /\ faults \in 0..MaxFaults

Mounting(u) == osd # "idle" /\ want.unit = u

(* A block is read from and written to the image that is mounted in the    *)
(* unit, at its own place (azbk.c:471-495): a mount of the OSD's that met  *)
(* a command may spoil its own unit and no other, and only until the next  *)
(* mount of that unit.                                                     *)
ServedFromMounted ==
    moved # NoBlock /\ moved.unit \notin torn /\ ~Mounting(moved.unit) =>
        moved.right

(* The FPGA's select answers from the sizes the units have (azbk.c:82-86). *)
(* The OSD task's table may be older than a command that mounted a unit    *)
(* before it went out: it then spoils the size of that unit at most, and   *)
(* only until the next mount of any.                                       *)
SizesFollow == osd = "idle" => \A u \in Units \ stale : usize[u] = blocks[u]

(* An image chosen in the OSD becomes the AZ's unit (menu.c:581-582): once *)
(* the menu is done, the unit's blocks come from it.                       *)
ChosenIsServed == moved # NoBlock /\ osd = "idle" => moved.right

-----------------------------------------------------------------------------
(* Why units and handle fit: inductive together with TypeOK.               *)

HoldsFileOf(u) == cur_unit = u /\ cur_open => cur_fil.file \in {path[u], NoImage}
SizeFits(u) == path[u] # NoImage => blocks[u] <= Size[path[u]]

\* A unit that no mount of the OSD's is changing.
Settled(u) == HoldsFileOf(u) /\ SizeFits(u)

\* The unit the OSD is mounting, as long as no command came between.
Midway(u) ==
    /\ osd \in {"close", "forget", "leave"} => cur_unit = u
    /\ osd = "leave" => ~cur_open
    /\ osd \in {"path", "blocks", "ro", "sizes", "push"} => cur_unit # u
    /\ osd = "blocks" => path[u] = want.file
    /\ osd \in {"ro", "sizes", "push"} => SizeFits(u)

UnitsFit == \A u \in Units \ torn : IF Mounting(u) THEN Midway(u) ELSE Settled(u)

TableSent ==
    /\ SizesFollow
    /\ osd = "push" => \A u \in Units \ stale : w[u] = blocks[u]

IInv == TypeOK /\ UnitsFit /\ ServedFromMounted /\ TableSent
=============================================================================
