------------------------------ MODULE EvoCmos ------------------------------
(***************************************************************************)
(* The Evo's clock memory and its copy on the card: cmos_load, cmos_save   *)
(* and evo_poll (src/mnano/evo.c), run by the OSD task.  The memory is in  *)
(* the FPGA (gluk.v, external): the machine writes a cell whenever it      *)
(* likes, which sets the changed flag; the first byte of the command that  *)
(* reads the memory clears the flag, before the cells go by one by one.    *)
(***************************************************************************)
EXTENDS CardLock, Sequences

CONSTANTS
    CmosCells,   \* cells of the clock memory
    NoFile

ASSUME CmosAssumption == CmosCells \in Nat

Cells == 1 .. CmosCells
Memory == [Cells -> {0, 1}]

VARIABLES
    nv,        \* the clock memory
    changed,   \* its changed flag
    buf,       \* the cells cmos_save has read so far
    cmosFile,  \* the file on the card
    lost       \* history: the last save's write failed

cmosVars == <<nv, changed, buf, cmosFile, lost>>

Fresh == [c \in Cells |-> 0]

\* The machine writes a cell.
NvramWrite(c, v) ==
    /\ osd # "boot"
    /\ nv' = [nv EXCEPT ![c] = v] /\ changed' = TRUE
    /\ UNCHANGED <<taskVars, buf, cmosFile, lost>>

\* evo_poll sees the changed flag.
Poll ==
    /\ osd = "idle" /\ OsdHasSpi
    /\ changed /\ OsdGoes("cmosGet")
    /\ UNCHANGED <<lock, cmosVars>>

\* cmos_get: the flag goes with the command's first byte.
CmosGet ==
    /\ osd = "cmosGet" /\ OsdHasSpi
    /\ buf' = <<>> /\ changed' = FALSE
    /\ OsdGoes("cmosRead")
    /\ UNCHANGED <<lock, nv, cmosFile, lost>>

\* Mutant: the flag is cleared with the last cell.
ReadCellClears ==
    /\ osd = "cmosRead"
    /\ IF Len(buf) < CmosCells
       THEN buf' = Append(buf, nv[Len(buf) + 1]) /\ OsdGoes(osd) /\ UNCHANGED changed
       ELSE OsdGoes("cmosSave") /\ changed' = FALSE /\ UNCHANGED buf
    /\ UNCHANGED <<lock, nv, cmosFile, lost>>

ReadCell ==
    /\ osd = "cmosRead"
    /\ IF Len(buf) < CmosCells
       THEN buf' = Append(buf, nv[Len(buf) + 1]) /\ OsdGoes(osd)
       ELSE OsdGoes("cmosSave") /\ UNCHANGED buf
    /\ UNCHANGED <<lock, nv, changed, cmosFile, lost>>

\* f_open, f_write and f_close under the lock; what they return is not
\* looked at.
CmosWrite ==
    /\ osd = "cmosSave" /\ Locked
    /\ \/ cmosFile' = buf /\ lost' = FALSE /\ OsdGoes("idle")
       \/ UNCHANGED cmosFile /\ lost' = TRUE /\ OsdFails("idle")
    /\ buf' = <<>>
    /\ UNCHANGED <<nv, changed>>

CmosStep == CmosGet \/ ReadCell \/ CmosWrite

\* evo_boot: cmos_load, and with no file read a cmos_save of what the
\* memory holds after the FPGA's start.
CmosBoot ==
    /\ osd = "boot" /\ Locked
    /\ changed' = FALSE
    /\ \/ /\ cmosFile # NoFile /\ nv' = cmosFile
          /\ OsdGoes("idle") /\ lost' = FALSE
       \/ /\ nv' = Fresh /\ UNCHANGED lost
          /\ IF cmosFile = NoFile THEN OsdGoes("cmosGet") ELSE OsdFails("cmosGet")
    /\ UNCHANGED <<buf, cmosFile>>

CmosInit ==
    /\ nv = Fresh /\ changed = FALSE /\ buf = <<>>
    /\ cmosFile = NoFile /\ lost = FALSE

CmosTypeOK ==
    /\ nv \in Memory /\ changed \in BOOLEAN /\ lost \in BOOLEAN
    /\ buf \in Seq({0, 1}) /\ Len(buf) <= CmosCells
    /\ cmosFile \in Memory \union {NoFile}
=============================================================================
