----------------------------- MODULE SdcImages -----------------------------
(***************************************************************************)
(* The image slots of src/mnano/sdc.c: sdc_image_open, run by the OSD task *)
(* to open, replace and eject an image, against sdc_handle_event, run by   *)
(* the interrupt task when the machine asks for a sector of one.  The      *)
(* answer to a request is the place on the card that the image's link      *)
(* table gives; the machine's sd_card.v, which is external, then moves the *)
(* sector by itself.                                                       *)
(***************************************************************************)
EXTENDS CardLock

CONSTANTS
    MAX_DRIVES,   \* image slots
    Images,       \* the image files of the card
    NoImage, NoReq

ASSUME SlotsAssumption ==
    /\ MAX_DRIVES \in Nat \ {0}
    /\ NoImage \notin Images

Drives == 0 .. MAX_DRIVES - 1

\* A link table: none (NULL), being built, or that of an image.
Tables == {"null", "partial"} \union Images

VARIABLES
    inserted,   \* the image the machine was last told is in the drive
    request,    \* the sector request the machine waits on
    line,       \* the card's interrupt is pending
    open,       \* the file of fil[drive], NoImage once it is closed
    flag,       \* fil[drive].flag is set; f_close does not clear it
    cltbl,      \* fil[drive].cltbl, which is lktbl[drive]
    op,         \* what sdc_image_open is about, and what comes after it
    req         \* what sdc_handle_event read from the status

machineVars == <<inserted, request, line>>
filVars == <<open, flag, cltbl>>
imgVars == <<machineVars, filVars, op, req>>

\* A request: image is history, the image the machine knew in the drive.
Request == [drive : Drives, image : Images]
Asked == Request \union {NoReq}
Afters == {"idle", "check", "switch"}
NoCall == [drive |-> 0, image |-> NoImage, after |-> "idle"]

-----------------------------------------------------------------------------
(* sdc_image_open, in the OSD task.                                        *)

\* sdc_image_inserted: the machine learns which image is in the drive.  A
\* request for the drive may outlive that or be dropped: sd_card.v decides.
sdc_image_inserted(d, f) ==
    /\ inserted' = [inserted EXCEPT ![d] = f]
    /\ \/ UNCHANGED request
       \/ request # NoReq /\ request.drive = d /\ request' = NoReq
    /\ UNCHANGED <<line, req>>

\* Mutant: the machine is not told that the old image goes.
CallUntold(d, f, after) ==
    /\ OsdHasSpi
    /\ op' = [drive |-> d, image |-> f, after |-> after]
    /\ UNCHANGED <<machineVars, req>>
    /\ OsdGoes("openLock")
    /\ UNCHANGED <<lock, filVars>>

\* The call, up to the wait for the lock: f is NoImage to eject.
Call(d, f, after) ==
    /\ OsdHasSpi
    /\ op' = [drive |-> d, image |-> f, after |-> after]
    /\ sdc_image_inserted(d, NoImage)
    /\ OsdGoes("openLock")
    /\ UNCHANGED <<lock, filVars>>

\* The menu opens or ejects an image, or the settings are restored.
ImageOpen(d, f) == osd = "idle" /\ Call(d, f, "idle")

\* ultima_install and ultima_switch eject every drive first, in a loop.
EjectAll(after) ==
    /\ osd = "idle"
    /\ op' = [NoCall EXCEPT !.after = after]
    /\ OsdGoes("eject")
    /\ UNCHANGED <<lock, machineVars, filVars, req>>

EjectLoop(n) ==
    /\ osd = "eject"
    /\ IF op.drive < n
       THEN Call(op.drive, NoImage, op.after)
       ELSE /\ OsdGoes(op.after) /\ op' = NoCall
            /\ UNCHANGED <<lock, machineVars, filVars, req>>

\* Mutant: the last drive is missed.
EjectShort == EjectLoop(MAX_DRIVES - 1)

EjectNext == EjectLoop(MAX_DRIVES)

SetFile(f, t) ==
    /\ open' = [open EXCEPT ![op.drive] = f]
    /\ cltbl' = [cltbl EXCEPT ![op.drive] = t]

\* What follows the eject of a drive.
Ejected ==
    IF op.after = "idle"
    THEN OsdGoes("idle") /\ op' = NoCall
    ELSE OsdGoes("eject") /\ op' = [op EXCEPT !.drive = @ + 1]

\* With the lock: the old image is closed and its table freed; an eject is
\* done with that.
CloseOld ==
    /\ osd = "openLock" /\ lock = "free"
    /\ SetFile(NoImage, "null")
    /\ IF op.image # NoImage
       THEN sdc_lock("osd") /\ OsdGoes("open") /\ UNCHANGED op
       ELSE UNCHANGED lock /\ Ejected
    /\ UNCHANGED <<machineVars, flag, req>>

OpenFails ==
    /\ SetFile(NoImage, "null") /\ sdc_unlock /\ OsdFails("idle") /\ op' = NoCall

\* f_open, and the memory for a table of 16 entries.
OpenFile ==
    /\ osd = "open"
    /\ \/ OpenFails /\ flag' \in {flag, [flag EXCEPT ![op.drive] = TRUE]}
       \/ /\ SetFile(op.image, "partial")
          /\ flag' = [flag EXCEPT ![op.drive] = TRUE]
          /\ OsdGoes("table") /\ UNCHANGED <<lock, op>>
    /\ UNCHANGED <<machineVars, req>>

\* f_lseek(CREATE_LINKMAP), with a larger table on the second try; with that
\* the lock is given back.
LinkTable ==
    /\ osd = "table"
    /\ \/ OpenFails
       \/ SetFile(op.image, op.image) /\ sdc_unlock /\ OsdGoes("insert") /\ UNCHANGED op
    /\ UNCHANGED <<machineVars, flag, req>>

\* The size of the image is reported: the machine may ask for its sectors.
Insert ==
    /\ osd = "insert" /\ OsdHasSpi
    /\ sdc_image_inserted(op.drive, open[op.drive])
    /\ OsdGoes("idle") /\ op' = NoCall
    /\ UNCHANGED <<lock, filVars>>

ImageStep == CloseOld \/ OpenFile \/ LinkTable \/ Insert \/ EjectNext

-----------------------------------------------------------------------------
(* sdc_handle_event, in the interrupt task.                                *)

\* sys_irq_ctrl acknowledges what is pending.
Wake ==
    /\ irq = "wait" /\ line /\ IrqHasSpi
    /\ line' = FALSE
    /\ IrqGoes("status")
    /\ UNCHANGED <<lock, inserted, request, filVars, op, req>>

ReadStatus ==
    /\ irq = "status" /\ IrqHasSpi
    /\ req' = request
    /\ IrqGoes(IF request = NoReq THEN "wait" ELSE "check")
    /\ UNCHANGED <<lock, machineVars, filVars, op>>

CheckFlag ==
    /\ irq = "check"
    /\ IrqGoes(IF flag[req.drive] THEN "lock" ELSE "wait")
    /\ UNCHANGED <<lock, imgVars>>

\* Mutant: with the lock taken the request is left for the next event.
TakeLockOrLeave ==
    /\ irq = "lock"
    /\ IF lock = "free" THEN sdc_lock("irq") /\ IrqGoes("answer")
                        ELSE UNCHANGED lock /\ IrqGoes("wait")
    /\ UNCHANGED imgVars

TakeLock ==
    /\ irq = "lock" /\ sdc_lock("irq")
    /\ IrqGoes("answer")
    /\ UNCHANGED imgVars

\* The sector is translated with the drive's table and sent to the machine,
\* which starts its own card access.
Answer ==
    /\ irq = "answer" /\ IrqHasSpi
    /\ request' = NoReq
    /\ IrqGoes("busy")
    /\ UNCHANGED <<lock, inserted, line, filVars, op, req>>

\* Mutant: the lock is kept.
CoreDoneKeepsLock ==
    /\ irq = "busy"
    /\ req' = NoReq /\ IrqGoes("wait")
    /\ UNCHANGED <<lock, machineVars, filVars, op>>

\* The machine is no longer busy: the link and the lock are given back.
CoreDone ==
    /\ irq = "busy"
    /\ req' = NoReq /\ sdc_unlock /\ IrqGoes("wait")
    /\ UNCHANGED <<machineVars, filVars, op>>

HandleEvent == Wake \/ ReadStatus \/ CheckFlag \/ TakeLock \/ Answer \/ CoreDone

\* The machine asks for a sector of an image it knows to be inserted.
MachineAsks(d) ==
    /\ request = NoReq /\ inserted[d] # NoImage /\ irq # "busy"
    /\ request' = [drive |-> d, image |-> inserted[d]]
    /\ line' = TRUE
    /\ UNCHANGED <<taskVars, inserted, filVars, op, req>>

-----------------------------------------------------------------------------
\* The MCU and the FPGA start: no image is open.
ImagesInit ==
    /\ inserted = [d \in Drives |-> NoImage]
    /\ request = NoReq /\ line = FALSE
    /\ open = [d \in Drives |-> NoImage]
    /\ flag = [d \in Drives |-> FALSE]
    /\ cltbl = [d \in Drives |-> "null"]
    /\ op = NoCall
    /\ req = NoReq

ImagesTypeOK ==
    /\ inserted \in [Drives -> Images \union {NoImage}]
    /\ request \in Asked /\ req \in Asked /\ line \in BOOLEAN
    /\ open \in [Drives -> Images \union {NoImage}]
    /\ flag \in [Drives -> BOOLEAN]
    /\ cltbl \in [Drives -> Tables]
    /\ op \in [drive : 0 .. MAX_DRIVES, image : Images \union {NoImage}, after : Afters]
=============================================================================
