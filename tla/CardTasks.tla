----------------------------- MODULE CardTasks -----------------------------
(***************************************************************************)
(* The two tasks of the dock that use the card, over everything they use   *)
(* it for: the OSD task opens and ejects images, saves a core to the       *)
(* flash, saves the Evo's clock memory and switches to another core; the   *)
(* interrupt task answers the machine's sector requests.  The MCU has one  *)
(* processor and the interrupt task the higher priority.  A power cut may  *)
(* come between any two steps.                                             *)
(***************************************************************************)
EXTENDS SdcImages, FlashInstall, EvoCmos

CONSTANTS
    Evo,         \* the core whose clock memory is kept on the card
    Az,          \* the core whose disks are units of the AZ controller
    MaxFaults    \* failures of the card, the flash and the power in a run

ASSUME TasksAssumption == MaxFaults \in Nat

vars == <<taskVars, imgVars, flashVars, cmosVars>>

OsdStates == {"boot", "idle", "openLock", "open", "table", "insert", "eject",
              "check", "erase", "rewind", "program", "rewind2", "verify", "record", "switch",
              "cmosGet", "cmosRead", "cmosSave"}
IrqStates == {"wait", "status", "check", "lock", "answer", "busy"}

-----------------------------------------------------------------------------
(* Starting again.                                                         *)

\* What the MCU and the FPGA lose when both start.
Restart ==
    /\ lock' = "free" /\ osd' = "boot" /\ irq' = "wait"
    /\ inserted' = [d \in Drives |-> NoImage]
    /\ request' = NoReq /\ line' = FALSE
    /\ open' = [d \in Drives |-> NoImage]
    /\ flag' = [d \in Drives |-> FALSE]
    /\ cltbl' = [d \in Drives |-> "null"]
    /\ op' = NoCall /\ req' = NoReq
    /\ at' = 0 /\ glitch' = FALSE
    /\ nv' = Fresh /\ changed' = FALSE /\ buf' = <<>>
    /\ UNCHANGED <<cmosFile, lost>>

\* A block or page under way is left as it was, done or half done.
AfterCut ==
    {flash}
    \union (IF osd = "erase" THEN {WithBlock(at, Erased), WithBlock(at, Mixed)} ELSE {})
    \union (IF osd = "program" /\ at < CoreSize[running] THEN {Garbled} ELSE {})

\* The power goes; when it is back the FPGA loads what the flash holds.
PowerCut ==
    /\ Fault /\ Restart
    /\ \E f \in AfterCut : flash' = f /\ running' = Boots(f)

\* With nothing to boot somebody has to write a core with openFPGALoader.
Rescue ==
    /\ running = NoCore
    /\ Restart /\ UNCHANGED faults
    /\ \E c \in Cores :
          /\ CoreSize[c] <= SlotPages
          /\ flash' = [p \in Pages |-> IF p < CoreSize[c] THEN c ELSE Erased]
          /\ running' = c

\* ultima_switch: a refusal leaves everything as it was; otherwise the FPGA
\* takes another core and the MCU restarts.
SwitchCore ==
    /\ osd = "switch"
    /\ \/ OsdGoes("idle") /\ UNCHANGED <<lock, imgVars, flashVars, cmosVars>>
       \/ \E c \in Cores \ {running} : running' = c /\ Restart /\ UNCHANGED <<flash, faults>>

\* The OSD task comes up: on the Evo the clock memory is loaded.
BootStep ==
    /\ osd = "boot" /\ running # NoCore
    /\ IF running = Evo THEN CmosBoot
                        ELSE OsdGoes("idle") /\ UNCHANGED <<lock, cmosVars>>
    /\ UNCHANGED <<imgVars, flashVars>>

-----------------------------------------------------------------------------
(* The processor.                                                          *)

\* The interrupt task sleeps, or waits for what the OSD task holds.
IrqBlocked ==
    \/ irq = "wait" /\ ~line
    \/ irq = "lock" /\ lock = "osd"
    \/ irq \in {"wait", "status", "answer"} /\ ~IrqHasSpi

\* Where the next step of the OSD task is a transaction on the link: one that
\* is under way ends before an interrupt can be read.
OnLink == {"idle", "eject", "insert", "check", "erase", "program", "verify", "cmosGet"}

\* Mutant: two tasks of the same priority.
OsdRunsAlways == TRUE

\* The OSD task has the processor.
OsdRuns == IrqBlocked \/ (irq = "wait" /\ osd \in OnLink)

\* The menu: an image is opened or ejected, the core saved or switched.  The
\* images of the BK go to the AZ instead.
User ==
    /\ OsdRuns
    /\ \/ running # Az /\ \E d \in Drives, f \in Images \union {NoImage} : ImageOpen(d, f)
       \/ EjectAll("check")
       \/ EjectAll("switch")
    /\ UNCHANGED <<flashVars, cmosVars>>

OsdStep ==
    /\ OsdRuns
    /\ \/ ImageStep /\ UNCHANGED <<flashVars, cmosVars>>
       \/ InstallStep /\ UNCHANGED <<imgVars, cmosVars>>
       \/ CmosStep /\ UNCHANGED <<imgVars, flashVars>>
       \/ BootStep
       \/ SwitchCore

PollStep == OsdRuns /\ running = Evo /\ Poll /\ UNCHANGED <<imgVars, flashVars>>

IrqStep == HandleEvent /\ UNCHANGED <<flashVars, cmosVars>>

Machine ==
    \/ /\ osd # "boot"
       /\ \E d \in Drives : MachineAsks(d)
       /\ UNCHANGED <<flashVars, cmosVars>>
    \/ /\ running = Evo
       /\ \E c \in Cells, v \in {0, 1} : NvramWrite(c, v)
       /\ UNCHANGED <<imgVars, flashVars>>

Init ==
    /\ lock = "free" /\ osd = "boot" /\ irq = "wait"
    /\ ImagesInit /\ FlashInit /\ CmosInit
    /\ faults = MaxFaults

Next == User \/ OsdStep \/ PollStep \/ IrqStep \/ Machine \/ PowerCut \/ Rescue

Spec == Init /\ [][Next]_vars

\* The interrupt task has nothing more to do.
Sleeps == IrqStep /\ irq' = "wait" /\ ~line'

\* The interrupt task runs when it can.  The machine's requests do not always
\* fall between its look at the interrupts and its look at the status, so that
\* it sleeps between two events now and then; the OSD task gets on in the gaps,
\* however often the machine asks.
Fairness == WF_vars(IrqStep) /\ SF_vars(Sleeps) /\ SF_vars(OsdStep)

FairSpec == Spec /\ Fairness

-----------------------------------------------------------------------------
\* Every variable keeps its type.
TypeOK ==
    /\ lock \in {"free", "osd", "irq"} /\ osd \in OsdStates /\ irq \in IrqStates
    /\ ImagesTypeOK /\ FlashTypeOK /\ CmosTypeOK
    /\ faults \in 0 .. MaxFaults

(* The machine believes an image to be in a drive only while its file is   *)
(* open and its link table is that of the file: sdc_image_open takes the   *)
(* old one back before it closes the file, and reports the new one last.   *)
InsertedIsOpen ==
    \A d \in Drives : inserted[d] # NoImage =>
        open[d] = inserted[d] /\ cltbl[d] = inserted[d]

(* Every answer is for the request the machine still waits on and names    *)
(* the right sector (sdc.c:404-405): the place comes from the link table   *)
(* of the very image asked for, also when the OSD task takes that image    *)
(* out at the same moment.                                                 *)
RightSector ==
    [][irq = "answer" /\ irq' = "busy" =>
          req = request /\ cltbl[req.drive] = req.image]_vars

(* While the machine moves a sector by itself the dock is not in the       *)
(* middle of a card access of its own (sdc.c:412-414).                     *)
OneMaster ==
    irq \in {"answer", "busy"} => lock = "irq" /\ osd \notin {"open", "table"}

\* The lock is held by whoever is inside a locked section of several steps.
LockHeld ==
    /\ lock = "osd" <=> osd \in {"open", "table"}
    /\ lock = "irq" <=> irq \in {"answer", "busy"}

\* sdc_image_open is at work on a drive the machine believes to be empty.
OpenWork ==
    /\ osd \in {"openLock", "open", "table", "insert"} =>
          op.drive \in Drives /\ inserted[op.drive] = NoImage
    /\ osd \in {"open", "table", "insert"} => op.image # NoImage
    /\ osd \in {"open", "table"} => op.after = "idle"
    /\ osd \in {"table", "insert"} => open[op.drive] = op.image /\ flag[op.drive]
    /\ osd = "insert" => cltbl[op.drive] = op.image

\* A drive with an image has been opened since the start.
FlagSet == \A d \in Drives : inserted[d] # NoImage => flag[d]

\* A request is pending, being handled or answered; and while the OSD task is
\* in the middle of an image, it is about another drive.
RequestKept ==
    /\ irq = "wait" /\ request # NoReq => line
    /\ irq \in {"check", "lock", "answer"} => req # NoReq /\ request = req
    /\ irq = "busy" => request = NoReq
    /\ request # NoReq =>
          /\ flag[request.drive] /\ cltbl[request.drive] = request.image
          /\ osd \in {"open", "table"} => request.drive # op.drive

(* No image is open while the flash is erased and written (ultima.c:238).  *)
NoImageWhileWriting ==
    osd \in {"erase", "rewind", "program", "rewind2", "verify", "record"} =>
        \A d \in Drives : inserted[d] = NoImage /\ cltbl[d] = "null"

\* The loop over the drives that comes before: those it has passed are empty.
EjectWork ==
    LET Empty(d) == inserted[d] = NoImage /\ cltbl[d] = "null" IN
    /\ osd \in {"eject", "openLock"} /\ op.after # "idle" =>
          op.image = NoImage /\ \A d \in Drives : d < op.drive => Empty(d)
    /\ osd = "check" => \A d \in Drives : Empty(d)

(* flash_install returns 0 only with the whole of the running core in the  *)
(* flash, whatever the flash did silently.                                 *)
OkMeansWhole == osd = "record" => Holds(flash, running)

(* Every page is programmed over an erased one, the last, short block of a *)
(* core included, and whatever an earlier attempt left behind.             *)
ErasedAhead ==
    osd \in {"rewind", "program"} /\ ~glitch =>
        \A p \in at .. CoreSize[running] - 1 : p \in Pages /\ flash[p] = Erased

\* How far flash_install has come.
InstallWork ==
    /\ osd \in {"erase", "rewind", "program", "rewind2", "verify", "record"} =>
          CoreSize[running] <= SlotPages
    /\ osd # "boot" => running \in Cores
    /\ osd \notin {"erase", "program", "verify", "record"} => at = 0
    /\ osd = "erase" /\ ~glitch =>
          \A p \in Pages : p \div BlockPages < at => flash[p] = Erased
    /\ osd \in {"program", "verify"} => at <= CoreSize[running]
    /\ osd = "verify" => \A p \in 0 .. at - 1 : flash[p] = running

(* What the Evo's machine changed in the clock memory is on the card, or   *)
(* the changed flag or a save under way still knows of it, but for a save  *)
(* whose write failed.                                                     *)
NothingForgotten ==
    (/\ running = Evo /\ ~changed /\ ~lost
     /\ osd \notin {"boot", "cmosGet", "cmosRead", "cmosSave"})
    => cmosFile = nv

\* What cmos_save has read is still so, unless the flag says otherwise.
SaveWork ==
    /\ osd \in {"cmosRead", "cmosSave"} /\ ~changed =>
          \A i \in 1 .. Len(buf) : buf[i] = nv[i]
    /\ osd = "cmosSave" => Len(buf) = CmosCells

(* A sector request is answered or withdrawn, whatever the OSD task does:  *)
(* the machine never waits on its disk for ever.                           *)
EveryRequestAnswered == request # NoReq ~> request = NoReq

(* The OSD task comes back to its queue from everything it does, as long   *)
(* as there is a core to run.                                              *)
OsdReturns == osd # "idle" ~> osd = "idle" \/ running = NoCore
=============================================================================
