-------------------------- MODULE CardTasksProofs --------------------------
(***************************************************************************)
(* What the two tasks guarantee for any number of drives, images, cores    *)
(* and pages, and however often the card, the flash and the power fail:    *)
(* every sector request is answered from the image it was asked of, and a  *)
(* core that is reported as saved is in the flash as a whole.              *)
(***************************************************************************)
EXTENDS CardTasks, TLAPS

Busy == {"eject", "openLock", "open", "table", "insert", "check"}
Writing == {"erase", "rewind", "program", "rewind2", "verify", "record"}

TaskOK ==
    /\ lock \in {"free", "osd", "irq"} /\ osd \in OsdStates /\ irq \in IrqStates
    /\ faults \in 0 .. MaxFaults

(* What the slots, the machine and the two tasks know of each other.       *)
ImagesOK ==
    /\ TaskOK /\ ImagesTypeOK /\ LockHeld /\ OpenWork /\ FlagSet /\ InsertedIsOpen
    /\ RequestKept /\ EjectWork /\ NoImageWhileWriting

-----------------------------------------------------------------------------
LEMMA SlotsAre ==
    /\ MAX_DRIVES \in Nat /\ 0 \in 0 .. MAX_DRIVES
    /\ 0 \in Drives /\ Drives \subseteq 0 .. MAX_DRIVES
BY SlotsAssumption DEF Drives

LEMMA NoCallIs ==
    /\ NoCall \in [drive : 0 .. MAX_DRIVES, image : Images \union {NoImage}, after : Afters]
    /\ NoCall.after = "idle" /\ NoCall.drive = 0 /\ NoCall.image = NoImage
BY SlotsAre DEF NoCall, Afters

\* The call of sdc_image_open.
LEMMA CallKeeps ==
    ASSUME ImagesOK, NEW d \in Drives, NEW f \in Images \union {NoImage}, OsdRuns, ImageOpen(d, f)
    PROVE  ImagesOK'
<1>1. TaskOK'
  BY SlotsAre, NoCallIs
  DEF ImagesOK, TaskOK, ImagesTypeOK, ImageOpen, Call, OsdHasSpi, OsdGoes, filVars,
      sdc_image_inserted, Tables, Asked, Request, Afters, OsdStates, IrqStates
<1>2. ImagesTypeOK'
  BY SlotsAre, NoCallIs
  DEF ImagesOK, ImagesTypeOK, OpenWork, ImageOpen, Call, OsdHasSpi, OsdGoes, filVars,
      sdc_image_inserted, Tables, Asked, Request, Afters
<1>3. LockHeld'
  BY SlotsAre, NoCallIs
  DEF ImagesOK, LockHeld, OpenWork, ImageOpen, Call, OsdHasSpi, OsdGoes, filVars,
      sdc_image_inserted
<1>4. OpenWork'
  BY SlotsAre, NoCallIs
  DEF ImagesOK, ImagesTypeOK, OpenWork, ImageOpen, Call, OsdHasSpi, OsdGoes, filVars,
      sdc_image_inserted, Tables, Asked, Request, Afters
<1>5. FlagSet' /\ InsertedIsOpen'
  BY SlotsAre, NoCallIs
  DEF ImagesOK, ImagesTypeOK, OpenWork, FlagSet, InsertedIsOpen, ImageOpen, Call, OsdHasSpi,
      OsdGoes, filVars, sdc_image_inserted, Tables, Asked, Request, Afters
<1>6. RequestKept'
  BY SlotsAre, NoCallIs
  DEF ImagesOK, ImagesTypeOK, LockHeld, OpenWork, FlagSet, InsertedIsOpen, RequestKept,
      ImageOpen, Call, OsdRuns, IrqBlocked, OnLink, OsdHasSpi, IrqHasSpi, OsdGoes, filVars,
      sdc_image_inserted, Tables, Asked, Request, Afters
<1>7. EjectWork'
  BY SlotsAre, NoCallIs
  DEF ImagesOK, ImagesTypeOK, OpenWork, EjectWork, ImageOpen, Call, OsdHasSpi, OsdGoes,
      filVars, sdc_image_inserted, Tables, Asked, Request, Afters
<1>8. NoImageWhileWriting'
  BY SlotsAre, NoCallIs
  DEF ImagesOK, EjectWork, NoImageWhileWriting, ImageOpen, Call, OsdHasSpi, OsdGoes, filVars,
      sdc_image_inserted
<1> QED BY <1>1, <1>2, <1>3, <1>4, <1>5, <1>6, <1>7, <1>8 DEF ImagesOK

\* The start of the loop over the drives.
LEMMA EjectAllKeeps ==
    ASSUME ImagesOK, NEW s \in {"check", "switch"}, OsdRuns, EjectAll(s)
    PROVE  ImagesOK'
<1>1. TaskOK'
  BY SlotsAre, NoCallIs
  DEF ImagesOK, TaskOK, ImagesTypeOK, EjectAll, OsdGoes, machineVars, filVars, Tables, Asked,
      Request, Afters, OsdStates, IrqStates
<1>2. ImagesTypeOK'
  BY SlotsAre, NoCallIs
  DEF ImagesOK, ImagesTypeOK, OpenWork, EjectAll, OsdGoes, machineVars, filVars, Tables,
      Asked, Request, Afters
<1>3. LockHeld'
  BY SlotsAre, NoCallIs
  DEF ImagesOK, LockHeld, OpenWork, EjectAll, OsdGoes, machineVars, filVars
<1>4. OpenWork'
  BY SlotsAre, NoCallIs
  DEF ImagesOK, ImagesTypeOK, OpenWork, EjectAll, OsdGoes, machineVars, filVars, Tables,
      Asked, Request, Afters
<1>5. FlagSet' /\ InsertedIsOpen'
  BY SlotsAre, NoCallIs
  DEF ImagesOK, ImagesTypeOK, OpenWork, FlagSet, InsertedIsOpen, EjectAll, OsdGoes,
      machineVars, filVars, Tables, Asked, Request, Afters
<1>6. RequestKept'
  BY SlotsAre, NoCallIs
  DEF ImagesOK, ImagesTypeOK, LockHeld, OpenWork, FlagSet, InsertedIsOpen, RequestKept,
      EjectAll, OsdRuns, IrqBlocked, OnLink, IrqHasSpi, OsdGoes, machineVars, filVars, Tables,
      Asked, Request, Afters
<1>7. EjectWork'
  BY SlotsAre, NoCallIs
  DEF ImagesOK, ImagesTypeOK, OpenWork, EjectWork, EjectAll, OsdGoes, machineVars, filVars,
      Tables, Asked, Request, Afters
<1>8. NoImageWhileWriting'
  BY SlotsAre, NoCallIs
  DEF ImagesOK, EjectWork, NoImageWhileWriting, EjectAll, OsdGoes, machineVars, filVars
<1> QED BY <1>1, <1>2, <1>3, <1>4, <1>5, <1>6, <1>7, <1>8 DEF ImagesOK

\* Its next turn, or its end.
LEMMA EjectNextKeeps ==
    ASSUME ImagesOK, OsdRuns, EjectNext
    PROVE  ImagesOK'
<1>1. TaskOK'
  BY SlotsAre, NoCallIs
  DEF ImagesOK, TaskOK, ImagesTypeOK, EjectNext, EjectLoop, Call, Drives, OsdHasSpi, OsdGoes,
      machineVars, filVars, sdc_image_inserted, Tables, Asked, Request, Afters, OsdStates,
      IrqStates
<1>2. ImagesTypeOK'
  <2>1. CASE op.drive < MAX_DRIVES
    <3>1. op.drive \in Drives
      BY <2>1, SlotsAre DEF Drives, ImagesOK, ImagesTypeOK
    <3>2. /\ op' = [drive |-> op.drive, image |-> NoImage, after |-> op.after]
          /\ inserted' = [inserted EXCEPT ![op.drive] = NoImage]
          /\ request' \in {request, NoReq}
          /\ UNCHANGED <<line, req, open, flag, cltbl>>
      BY <2>1 DEF EjectNext, EjectLoop, Call, sdc_image_inserted, filVars
    <3> QED BY <3>1, <3>2 DEF ImagesOK, ImagesTypeOK, Asked
  <2>2. CASE ~(op.drive < MAX_DRIVES)
    BY <2>2, NoCallIs DEF ImagesOK, ImagesTypeOK, EjectNext, EjectLoop, filVars, machineVars
  <2> QED BY <2>1, <2>2
<1>3. LockHeld'
  <2>1. osd = "eject" /\ osd' \in {"openLock", "idle", "check", "switch"} /\ UNCHANGED <<lock, irq>>
    BY DEF ImagesOK, ImagesTypeOK, EjectNext, EjectLoop, Call, OsdGoes, Afters
  <2> QED BY <2>1 DEF ImagesOK, LockHeld
<1>4. OpenWork'
  BY SlotsAre, NoCallIs
  DEF ImagesOK, ImagesTypeOK, OpenWork, EjectNext, EjectLoop, Call, Drives, OsdHasSpi,
      OsdGoes, machineVars, filVars, sdc_image_inserted, Tables, Asked, Request, Afters
<1>5. FlagSet' /\ InsertedIsOpen'
  BY SlotsAre, NoCallIs
  DEF ImagesOK, ImagesTypeOK, OpenWork, FlagSet, InsertedIsOpen, EjectNext, EjectLoop, Call,
      Drives, OsdHasSpi, OsdGoes, machineVars, filVars, sdc_image_inserted, Tables, Asked,
      Request, Afters
<1>6. RequestKept'
  BY SlotsAre, NoCallIs
  DEF ImagesOK, ImagesTypeOK, LockHeld, OpenWork, FlagSet, InsertedIsOpen, RequestKept,
      EjectNext, EjectLoop, Call, Drives, OsdRuns, IrqBlocked, OnLink, OsdHasSpi, IrqHasSpi,
      OsdGoes, machineVars, filVars, sdc_image_inserted, Tables, Asked, Request, Afters
<1>7. EjectWork'
  BY SlotsAre, NoCallIs
  DEF ImagesOK, ImagesTypeOK, EjectWork, EjectNext, EjectLoop, Call, Drives, OsdHasSpi, OsdGoes,
      machineVars, filVars, sdc_image_inserted, Tables, Asked, Request, Afters
<1>8. NoImageWhileWriting'
  BY DEF ImagesOK, ImagesTypeOK, EjectNext, EjectLoop, Call, OsdGoes, Afters, NoImageWhileWriting
<1> QED BY <1>1, <1>2, <1>3, <1>4, <1>5, <1>6, <1>7, <1>8 DEF ImagesOK

\* The old image is closed.
LEMMA CloseOldKeeps ==
    ASSUME ImagesOK, OsdRuns, CloseOld
    PROVE  ImagesOK'
<1>1. TaskOK'
  BY SlotsAre, NoCallIs
  DEF ImagesOK, TaskOK, ImagesTypeOK, CloseOld, Drives, OsdGoes, machineVars, sdc_lock,
      SetFile, Ejected, Tables, Asked, Request, Afters, OsdStates, IrqStates
<1>2. ImagesTypeOK'
  BY SlotsAre, NoCallIs
  DEF ImagesOK, ImagesTypeOK, OpenWork, CloseOld, Drives, OsdGoes, machineVars, sdc_lock,
      SetFile, Ejected, Tables, Asked, Request, Afters
<1>3. LockHeld'
  BY SlotsAre, NoCallIs
  DEF ImagesOK, LockHeld, OpenWork, CloseOld, Drives, OsdGoes, machineVars, sdc_lock, SetFile,
      Ejected
<1>4. OpenWork'
  BY SlotsAre, NoCallIs
  DEF ImagesOK, TaskOK, ImagesTypeOK, LockHeld, OpenWork, FlagSet, InsertedIsOpen,
      RequestKept, EjectWork, NoImageWhileWriting, CloseOld, Drives, OsdRuns, IrqBlocked,
      OnLink, IrqHasSpi, OsdGoes, machineVars, sdc_lock, SetFile, Ejected, Tables, Asked,
      Request, Afters, OsdStates, IrqStates
<1>5. FlagSet' /\ InsertedIsOpen'
  BY SlotsAre, NoCallIs
  DEF ImagesOK, ImagesTypeOK, OpenWork, FlagSet, InsertedIsOpen, CloseOld, Drives, OsdGoes,
      machineVars, sdc_lock, SetFile, Ejected, Tables, Asked, Request, Afters
<1>6. RequestKept'
  BY SlotsAre, NoCallIs
  DEF ImagesOK, ImagesTypeOK, LockHeld, OpenWork, FlagSet, InsertedIsOpen, RequestKept,
      CloseOld, Drives, OsdRuns, IrqBlocked, OnLink, IrqHasSpi, OsdGoes, machineVars,
      sdc_lock, SetFile, Ejected, Tables, Asked, Request, Afters
<1>7. EjectWork'
  BY SlotsAre, NoCallIs
  DEF ImagesOK, ImagesTypeOK, OpenWork, EjectWork, CloseOld, Drives, OsdGoes, machineVars,
      sdc_lock, SetFile, Ejected, Tables, Asked, Request, Afters
<1>8. NoImageWhileWriting'
  BY SlotsAre, NoCallIs
  DEF ImagesOK, EjectWork, NoImageWhileWriting, CloseOld, Drives, OsdGoes, machineVars,
      sdc_lock, SetFile, Ejected
<1> QED BY <1>1, <1>2, <1>3, <1>4, <1>5, <1>6, <1>7, <1>8 DEF ImagesOK

\* The new one cannot be opened, or has no table.
LEMMA OpenFailsKeeps ==
    ASSUME ImagesOK, OsdRuns, osd \in {"open", "table"}, OpenFails,
           flag' \in {flag, [flag EXCEPT ![op.drive] = TRUE]}, UNCHANGED <<machineVars, req>>
    PROVE  ImagesOK'
<1>1. TaskOK'
  BY TasksAssumption
  DEF ImagesOK, TaskOK, ImagesTypeOK, OpenFails, OsdFails, Fault, machineVars, sdc_unlock,
      SetFile, Tables, Asked, Request, Afters, OsdStates, IrqStates
<1>2. ImagesTypeOK'
  BY SlotsAre, NoCallIs
  DEF ImagesOK, ImagesTypeOK, OpenWork, OpenFails, OsdFails, Fault, machineVars, sdc_unlock,
      SetFile, Tables, Asked, Request, Afters
<1>3. LockHeld'
  BY SlotsAre, NoCallIs
  DEF ImagesOK, LockHeld, OpenWork, OpenFails, OsdFails, Fault, machineVars, sdc_unlock,
      SetFile
<1>4. OpenWork'
  BY SlotsAre, NoCallIs
  DEF ImagesOK, ImagesTypeOK, OpenWork, OpenFails, OsdFails, Fault, machineVars, sdc_unlock,
      SetFile, Tables, Asked, Request, Afters
<1>5. FlagSet' /\ InsertedIsOpen'
  BY SlotsAre, NoCallIs
  DEF ImagesOK, ImagesTypeOK, OpenWork, FlagSet, InsertedIsOpen, OpenFails, OsdFails, Fault,
      machineVars, sdc_unlock, SetFile, Tables, Asked, Request, Afters
<1>6. RequestKept'
  <2>1. op.drive \in Drives /\ osd \in {"open", "table"}
    BY DEF ImagesOK, ImagesTypeOK, LockHeld, OpenWork, FlagSet, InsertedIsOpen, RequestKept,
       OpenFails, OsdRuns, IrqBlocked, OnLink, IrqHasSpi, OsdFails, Fault, machineVars,
       sdc_unlock, SetFile, Tables, Asked, Request, Afters
  <2>2. CASE request = NoReq
    BY <2>1, <2>2
    DEF ImagesOK, ImagesTypeOK, LockHeld, OpenWork, FlagSet, InsertedIsOpen, RequestKept,
        OpenFails, OsdRuns, IrqBlocked, OnLink, IrqHasSpi, OsdFails, Fault, machineVars,
        sdc_unlock, SetFile, Tables, Asked, Request, Afters
  <2>3. CASE request # NoReq
    <3>1. request \in Request /\ request.drive # op.drive /\ request.drive \in Drives
      BY <2>1, <2>3
      DEF ImagesOK, ImagesTypeOK, LockHeld, OpenWork, FlagSet, InsertedIsOpen, RequestKept,
          OpenFails, OsdRuns, IrqBlocked, OnLink, IrqHasSpi, OsdFails, Fault, machineVars,
          sdc_unlock, SetFile, Tables, Asked, Request, Afters
    <3>2. cltbl'[request.drive] = cltbl[request.drive]
      BY <2>1, <3>1
      DEF ImagesOK, ImagesTypeOK, LockHeld, OpenWork, FlagSet, InsertedIsOpen, RequestKept,
          OpenFails, OsdRuns, IrqBlocked, OnLink, IrqHasSpi, OsdFails, Fault, machineVars,
          sdc_unlock, SetFile, Tables, Asked, Request, Afters
    <3>3. flag[request.drive] => flag'[request.drive]
      BY <2>1, <3>1
      DEF ImagesOK, ImagesTypeOK, LockHeld, OpenWork, FlagSet, InsertedIsOpen, RequestKept,
          OpenFails, OsdRuns, IrqBlocked, OnLink, IrqHasSpi, OsdFails, Fault, machineVars,
          sdc_unlock, SetFile, Tables, Asked, Request, Afters
    <3>4. request' = request /\ irq' = irq /\ req' = req /\ line' = line
      BY DEF ImagesOK, ImagesTypeOK, LockHeld, OpenWork, FlagSet, InsertedIsOpen, RequestKept,
         OpenFails, OsdRuns, IrqBlocked, OnLink, IrqHasSpi, OsdFails, Fault, machineVars,
         sdc_unlock, SetFile, Tables, Asked, Request, Afters
    <3> QED BY <2>3, <3>1, <3>2, <3>3, <3>4
        DEF RequestKept, ImagesOK, ImagesTypeOK, LockHeld, OpenWork, FlagSet,
            InsertedIsOpen, OpenFails, OsdRuns, IrqBlocked, OnLink, IrqHasSpi, OsdFails,
            Fault, machineVars, sdc_unlock, SetFile, Tables, Asked, Request, Afters
  <2> QED BY <2>2, <2>3
<1>7. EjectWork'
  BY SlotsAre, NoCallIs
  DEF ImagesOK, ImagesTypeOK, OpenWork, EjectWork, OpenFails, OsdFails, Fault, machineVars,
      sdc_unlock, SetFile, Tables, Asked, Request, Afters
<1>8. NoImageWhileWriting'
  BY SlotsAre, NoCallIs
  DEF ImagesOK, EjectWork, NoImageWhileWriting, OpenFails, OsdFails, Fault, machineVars,
      sdc_unlock, SetFile
<1> QED BY <1>1, <1>2, <1>3, <1>4, <1>5, <1>6, <1>7, <1>8 DEF ImagesOK

\* The new one is open.
LEMMA OpenedKeeps ==
    ASSUME ImagesOK, OsdRuns, OpenFile, ~OpenFails
    PROVE  ImagesOK'
<1>1. TaskOK'
  BY SlotsAre, NoCallIs
  DEF ImagesOK, TaskOK, ImagesTypeOK, OpenFile, OsdGoes, OsdFails, Fault, machineVars,
      sdc_unlock, SetFile, Tables, Asked, Request, Afters, OsdStates, IrqStates
<1>2. ImagesTypeOK'
  <2>1. op.drive \in Drives /\ op.image \in Images \union {NoImage}
    BY DEF ImagesOK, ImagesTypeOK, OpenWork, OpenFile, OsdGoes, OsdFails, Fault, machineVars,
       sdc_unlock, SetFile, Tables, Asked, Request, Afters
  <2>2. op.image \in Images
    BY <2>1
    DEF ImagesOK, ImagesTypeOK, OpenWork, OpenFile, OsdGoes, OsdFails, Fault, machineVars,
        sdc_unlock, SetFile, Tables, Asked, Request, Afters
  <2>3. /\ open' = [open EXCEPT ![op.drive] = op.image]
        /\ flag' = [flag EXCEPT ![op.drive] = TRUE]
        /\ cltbl' = [cltbl EXCEPT ![op.drive] = "partial"]
        /\ UNCHANGED <<inserted, request, line, op, req>>
    BY DEF ImagesOK, ImagesTypeOK, OpenWork, OpenFile, OsdGoes, OsdFails, Fault, machineVars,
       sdc_unlock, SetFile, Tables, Asked, Request, Afters
  <2> QED BY <2>1, <2>2, <2>3 DEF ImagesOK, ImagesTypeOK, Tables
<1>3. LockHeld'
  BY SlotsAre, NoCallIs
  DEF ImagesOK, LockHeld, OpenWork, OpenFile, OsdGoes, OsdFails, Fault, machineVars,
      sdc_unlock, SetFile
<1>4. OpenWork'
  BY SlotsAre, NoCallIs
  DEF ImagesOK, ImagesTypeOK, OpenWork, OpenFile, OsdGoes, OsdFails, Fault, machineVars,
      sdc_unlock, SetFile, Tables, Asked, Request, Afters
<1>5. FlagSet' /\ InsertedIsOpen'
  BY SlotsAre, NoCallIs
  DEF ImagesOK, ImagesTypeOK, OpenWork, FlagSet, InsertedIsOpen, OpenFile, OsdGoes, OsdFails,
      Fault, machineVars, sdc_unlock, SetFile, Tables, Asked, Request, Afters
<1>6. RequestKept'
  <2>1. op.drive \in Drives /\ osd \in {"open", "table"}
    BY DEF ImagesOK, ImagesTypeOK, LockHeld, OpenWork, FlagSet, InsertedIsOpen, RequestKept,
       OpenFile, OsdRuns, IrqBlocked, OnLink, IrqHasSpi, OsdGoes, OsdFails, Fault, machineVars,
       sdc_unlock, SetFile, Tables, Asked, Request, Afters
  <2>2. CASE request = NoReq
    BY <2>1, <2>2
    DEF ImagesOK, ImagesTypeOK, LockHeld, OpenWork, FlagSet, InsertedIsOpen, RequestKept,
        OpenFile, OsdRuns, IrqBlocked, OnLink, IrqHasSpi, OsdGoes, OsdFails, Fault,
        machineVars, sdc_unlock, SetFile, Tables, Asked, Request, Afters
  <2>3. CASE request # NoReq
    <3>1. request \in Request /\ request.drive # op.drive /\ request.drive \in Drives
      BY <2>1, <2>3
      DEF ImagesOK, ImagesTypeOK, LockHeld, OpenWork, FlagSet, InsertedIsOpen, RequestKept,
          OpenFile, OsdRuns, IrqBlocked, OnLink, IrqHasSpi, OsdGoes, OsdFails, Fault,
          machineVars, sdc_unlock, SetFile, Tables, Asked, Request, Afters
    <3>2. cltbl'[request.drive] = cltbl[request.drive]
      BY <2>1, <3>1
      DEF ImagesOK, ImagesTypeOK, LockHeld, OpenWork, FlagSet, InsertedIsOpen, RequestKept,
          OpenFile, OsdRuns, IrqBlocked, OnLink, IrqHasSpi, OsdGoes, OsdFails, Fault,
          machineVars, sdc_unlock, SetFile, Tables, Asked, Request, Afters
    <3>3. flag[request.drive] => flag'[request.drive]
      BY <2>1, <3>1
      DEF ImagesOK, ImagesTypeOK, LockHeld, OpenWork, FlagSet, InsertedIsOpen, RequestKept,
          OpenFile, OsdRuns, IrqBlocked, OnLink, IrqHasSpi, OsdGoes, OsdFails, Fault,
          machineVars, sdc_unlock, SetFile, Tables, Asked, Request, Afters
    <3>4. request' = request /\ irq' = irq /\ req' = req /\ line' = line
      BY DEF ImagesOK, ImagesTypeOK, LockHeld, OpenWork, FlagSet, InsertedIsOpen, RequestKept,
         OpenFile, OsdRuns, IrqBlocked, OnLink, IrqHasSpi, OsdGoes, OsdFails, Fault, machineVars,
         sdc_unlock, SetFile, Tables, Asked, Request, Afters
    <3> QED BY <2>3, <3>1, <3>2, <3>3, <3>4
        DEF RequestKept, ImagesOK, ImagesTypeOK, LockHeld, OpenWork, FlagSet,
            InsertedIsOpen, OpenFile, OsdRuns, IrqBlocked, OnLink, IrqHasSpi, OsdGoes,
            OsdFails, Fault, machineVars, sdc_unlock, SetFile, Tables, Asked, Request,
            Afters
  <2> QED BY <2>2, <2>3
<1>7. EjectWork'
  BY SlotsAre, NoCallIs
  DEF ImagesOK, ImagesTypeOK, OpenWork, EjectWork, OpenFile, OsdGoes, OsdFails, Fault,
      machineVars, sdc_unlock, SetFile, Tables, Asked, Request, Afters
<1>8. NoImageWhileWriting'
  BY SlotsAre, NoCallIs
  DEF ImagesOK, EjectWork, NoImageWhileWriting, OpenFile, OsdGoes, OsdFails, Fault,
      machineVars, sdc_unlock, SetFile
<1> QED BY <1>1, <1>2, <1>3, <1>4, <1>5, <1>6, <1>7, <1>8 DEF ImagesOK

\* Its link table is made.
LEMMA LinkedKeeps ==
    ASSUME ImagesOK, OsdRuns, LinkTable, ~OpenFails
    PROVE  ImagesOK'
<1>1. TaskOK'
  BY SlotsAre, NoCallIs
  DEF ImagesOK, TaskOK, ImagesTypeOK, LinkTable, OsdGoes, OsdFails, Fault, machineVars,
      sdc_unlock, SetFile, Tables, Asked, Request, Afters, OsdStates, IrqStates
<1>2. ImagesTypeOK'
  BY SlotsAre, NoCallIs
  DEF ImagesOK, ImagesTypeOK, OpenWork, LinkTable, OsdGoes, OsdFails, Fault, machineVars,
      sdc_unlock, SetFile, Tables, Asked, Request, Afters
<1>3. LockHeld'
  BY SlotsAre, NoCallIs
  DEF ImagesOK, LockHeld, OpenWork, LinkTable, OsdGoes, OsdFails, Fault, machineVars,
      sdc_unlock, SetFile
<1>4. OpenWork'
  BY SlotsAre, NoCallIs
  DEF ImagesOK, ImagesTypeOK, OpenWork, LinkTable, OsdGoes, OsdFails, Fault, machineVars,
      sdc_unlock, SetFile, Tables, Asked, Request, Afters
<1>5. FlagSet' /\ InsertedIsOpen'
  BY SlotsAre, NoCallIs
  DEF ImagesOK, ImagesTypeOK, OpenWork, FlagSet, InsertedIsOpen, LinkTable, OsdGoes, OsdFails,
      Fault, machineVars, sdc_unlock, SetFile, Tables, Asked, Request, Afters
<1>6. RequestKept'
  <2>1. op.drive \in Drives /\ osd \in {"open", "table"}
    BY DEF ImagesOK, ImagesTypeOK, LockHeld, OpenWork, FlagSet, InsertedIsOpen, RequestKept,
       LinkTable, OsdRuns, IrqBlocked, OnLink, IrqHasSpi, OsdGoes, OsdFails, Fault, machineVars,
       sdc_unlock, SetFile, Tables, Asked, Request, Afters
  <2>2. CASE request = NoReq
    BY <2>1, <2>2
    DEF ImagesOK, ImagesTypeOK, LockHeld, OpenWork, FlagSet, InsertedIsOpen, RequestKept,
        LinkTable, OsdRuns, IrqBlocked, OnLink, IrqHasSpi, OsdGoes, OsdFails, Fault,
        machineVars, sdc_unlock, SetFile, Tables, Asked, Request, Afters
  <2>3. CASE request # NoReq
    <3>1. request \in Request /\ request.drive # op.drive /\ request.drive \in Drives
      BY <2>1, <2>3
      DEF ImagesOK, ImagesTypeOK, LockHeld, OpenWork, FlagSet, InsertedIsOpen, RequestKept,
          LinkTable, OsdRuns, IrqBlocked, OnLink, IrqHasSpi, OsdGoes, OsdFails, Fault,
          machineVars, sdc_unlock, SetFile, Tables, Asked, Request, Afters
    <3>2. cltbl'[request.drive] = cltbl[request.drive]
      BY <2>1, <3>1
      DEF ImagesOK, ImagesTypeOK, LockHeld, OpenWork, FlagSet, InsertedIsOpen, RequestKept,
          LinkTable, OsdRuns, IrqBlocked, OnLink, IrqHasSpi, OsdGoes, OsdFails, Fault,
          machineVars, sdc_unlock, SetFile, Tables, Asked, Request, Afters
    <3>3. flag[request.drive] => flag'[request.drive]
      BY <2>1, <3>1
      DEF ImagesOK, ImagesTypeOK, LockHeld, OpenWork, FlagSet, InsertedIsOpen, RequestKept,
          LinkTable, OsdRuns, IrqBlocked, OnLink, IrqHasSpi, OsdGoes, OsdFails, Fault,
          machineVars, sdc_unlock, SetFile, Tables, Asked, Request, Afters
    <3>4. request' = request /\ irq' = irq /\ req' = req /\ line' = line
      BY DEF ImagesOK, ImagesTypeOK, LockHeld, OpenWork, FlagSet, InsertedIsOpen, RequestKept,
         LinkTable, OsdRuns, IrqBlocked, OnLink, IrqHasSpi, OsdGoes, OsdFails, Fault, machineVars,
         sdc_unlock, SetFile, Tables, Asked, Request, Afters
    <3> QED BY <2>3, <3>1, <3>2, <3>3, <3>4
        DEF RequestKept, ImagesOK, ImagesTypeOK, LockHeld, OpenWork, FlagSet,
            InsertedIsOpen, LinkTable, OsdRuns, IrqBlocked, OnLink, IrqHasSpi, OsdGoes,
            OsdFails, Fault, machineVars, sdc_unlock, SetFile, Tables, Asked, Request,
            Afters
  <2> QED BY <2>2, <2>3
<1>7. EjectWork'
  BY SlotsAre, NoCallIs
  DEF ImagesOK, ImagesTypeOK, OpenWork, EjectWork, LinkTable, OsdGoes, OsdFails, Fault,
      machineVars, sdc_unlock, SetFile, Tables, Asked, Request, Afters
<1>8. NoImageWhileWriting'
  BY SlotsAre, NoCallIs
  DEF ImagesOK, EjectWork, NoImageWhileWriting, LinkTable, OsdGoes, OsdFails, Fault,
      machineVars, sdc_unlock, SetFile
<1> QED BY <1>1, <1>2, <1>3, <1>4, <1>5, <1>6, <1>7, <1>8 DEF ImagesOK

\* The machine is told of it.
LEMMA InsertKeeps ==
    ASSUME ImagesOK, OsdRuns, Insert
    PROVE  ImagesOK'
<1>1. TaskOK'
  BY SlotsAre, NoCallIs
  DEF ImagesOK, TaskOK, ImagesTypeOK, Insert, OsdHasSpi, OsdGoes, filVars, sdc_image_inserted,
      Tables, Asked, Request, Afters, OsdStates, IrqStates
<1>2. ImagesTypeOK'
  BY SlotsAre, NoCallIs
  DEF ImagesOK, ImagesTypeOK, OpenWork, Insert, OsdHasSpi, OsdGoes, filVars,
      sdc_image_inserted, Tables, Asked, Request, Afters
<1>3. LockHeld'
  BY SlotsAre, NoCallIs
  DEF ImagesOK, LockHeld, OpenWork, Insert, OsdHasSpi, OsdGoes, filVars, sdc_image_inserted
<1>4. OpenWork'
  BY SlotsAre, NoCallIs
  DEF ImagesOK, ImagesTypeOK, OpenWork, Insert, OsdHasSpi, OsdGoes, filVars,
      sdc_image_inserted, Tables, Asked, Request, Afters
<1>5. FlagSet' /\ InsertedIsOpen'
  <2>1. op.drive \in Drives /\ open[op.drive] = op.image /\ cltbl[op.drive] = op.image
    BY DEF Insert, ImagesOK, OpenWork
  <2>2. inserted' = [inserted EXCEPT ![op.drive] = op.image] /\ UNCHANGED <<open, flag, cltbl>>
    BY <2>1 DEF Insert, sdc_image_inserted, filVars
  <2>3. flag[op.drive]
    BY DEF ImagesOK, ImagesTypeOK, OpenWork, FlagSet, InsertedIsOpen, Insert, OsdHasSpi, OsdGoes,
       filVars, sdc_image_inserted, Tables, Asked, Request, Afters
  <2> QED BY <2>1, <2>2, <2>3 DEF ImagesOK, ImagesTypeOK, FlagSet, InsertedIsOpen
<1>6. RequestKept'
  BY SlotsAre, NoCallIs
  DEF ImagesOK, ImagesTypeOK, LockHeld, OpenWork, FlagSet, InsertedIsOpen, RequestKept,
      Insert, OsdRuns, IrqBlocked, OnLink, OsdHasSpi, IrqHasSpi, OsdGoes, filVars,
      sdc_image_inserted, Tables, Asked, Request, Afters
<1>7. EjectWork'
  BY SlotsAre, NoCallIs
  DEF ImagesOK, ImagesTypeOK, OpenWork, EjectWork, Insert, OsdHasSpi, OsdGoes, filVars,
      sdc_image_inserted, Tables, Asked, Request, Afters
<1>8. NoImageWhileWriting'
  BY SlotsAre, NoCallIs
  DEF ImagesOK, EjectWork, NoImageWhileWriting, Insert, OsdHasSpi, OsdGoes, filVars,
      sdc_image_inserted
<1> QED BY <1>1, <1>2, <1>3, <1>4, <1>5, <1>6, <1>7, <1>8 DEF ImagesOK

\* The interrupt is acknowledged.
LEMMA WakeKeeps ==
    ASSUME ImagesOK, Wake
    PROVE  ImagesOK'
<1>1. TaskOK'
  BY SlotsAre, NoCallIs
  DEF ImagesOK, TaskOK, ImagesTypeOK, Wake, IrqHasSpi, IrqGoes, filVars, Tables, Asked,
      Request, Afters, OsdStates, IrqStates
<1>2. ImagesTypeOK'
  BY SlotsAre, NoCallIs
  DEF ImagesOK, ImagesTypeOK, OpenWork, Wake, IrqHasSpi, IrqGoes, filVars, Tables, Asked,
      Request, Afters
<1>3. LockHeld'
  BY SlotsAre, NoCallIs DEF ImagesOK, LockHeld, OpenWork, Wake, IrqHasSpi, IrqGoes, filVars
<1>4. OpenWork'
  BY SlotsAre, NoCallIs
  DEF ImagesOK, ImagesTypeOK, OpenWork, Wake, IrqHasSpi, IrqGoes, filVars, Tables, Asked,
      Request, Afters
<1>5. FlagSet' /\ InsertedIsOpen'
  BY SlotsAre, NoCallIs
  DEF ImagesOK, ImagesTypeOK, OpenWork, FlagSet, InsertedIsOpen, Wake, IrqHasSpi, IrqGoes,
      filVars, Tables, Asked, Request, Afters
<1>6. RequestKept'
  BY SlotsAre, NoCallIs
  DEF ImagesOK, ImagesTypeOK, LockHeld, OpenWork, FlagSet, InsertedIsOpen, RequestKept, Wake,
      IrqHasSpi, IrqGoes, filVars, Tables, Asked, Request, Afters
<1>7. EjectWork'
  BY SlotsAre, NoCallIs
  DEF ImagesOK, ImagesTypeOK, OpenWork, EjectWork, Wake, IrqHasSpi, IrqGoes, filVars, Tables,
      Asked, Request, Afters
<1>8. NoImageWhileWriting'
  BY SlotsAre, NoCallIs
  DEF ImagesOK, EjectWork, NoImageWhileWriting, Wake, IrqHasSpi, IrqGoes, filVars
<1> QED BY <1>1, <1>2, <1>3, <1>4, <1>5, <1>6, <1>7, <1>8 DEF ImagesOK

\* The request is read.
LEMMA ReadStatusKeeps ==
    ASSUME ImagesOK, ReadStatus
    PROVE  ImagesOK'
<1>1. TaskOK'
  BY SlotsAre, NoCallIs
  DEF ImagesOK, TaskOK, ImagesTypeOK, ReadStatus, IrqHasSpi, IrqGoes, machineVars, filVars,
      Tables, Asked, Request, Afters, OsdStates, IrqStates
<1>2. ImagesTypeOK'
  BY SlotsAre, NoCallIs
  DEF ImagesOK, ImagesTypeOK, OpenWork, ReadStatus, IrqHasSpi, IrqGoes, machineVars, filVars,
      Tables, Asked, Request, Afters
<1>3. LockHeld'
  BY SlotsAre, NoCallIs
  DEF ImagesOK, LockHeld, OpenWork, ReadStatus, IrqHasSpi, IrqGoes, machineVars, filVars
<1>4. OpenWork'
  BY SlotsAre, NoCallIs
  DEF ImagesOK, ImagesTypeOK, OpenWork, ReadStatus, IrqHasSpi, IrqGoes, machineVars, filVars,
      Tables, Asked, Request, Afters
<1>5. FlagSet' /\ InsertedIsOpen'
  BY SlotsAre, NoCallIs
  DEF ImagesOK, ImagesTypeOK, OpenWork, FlagSet, InsertedIsOpen, ReadStatus, IrqHasSpi,
      IrqGoes, machineVars, filVars, Tables, Asked, Request, Afters
<1>6. RequestKept'
  BY SlotsAre, NoCallIs
  DEF ImagesOK, ImagesTypeOK, LockHeld, OpenWork, FlagSet, InsertedIsOpen, RequestKept,
      ReadStatus, IrqHasSpi, IrqGoes, machineVars, filVars, Tables, Asked, Request, Afters
<1>7. EjectWork'
  BY SlotsAre, NoCallIs
  DEF ImagesOK, ImagesTypeOK, OpenWork, EjectWork, ReadStatus, IrqHasSpi, IrqGoes,
      machineVars, filVars, Tables, Asked, Request, Afters
<1>8. NoImageWhileWriting'
  BY SlotsAre, NoCallIs
  DEF ImagesOK, EjectWork, NoImageWhileWriting, ReadStatus, IrqHasSpi, IrqGoes, machineVars,
      filVars
<1> QED BY <1>1, <1>2, <1>3, <1>4, <1>5, <1>6, <1>7, <1>8 DEF ImagesOK

\* The drive is looked at.
LEMMA CheckFlagKeeps ==
    ASSUME ImagesOK, CheckFlag
    PROVE  ImagesOK'
<1>1. TaskOK'
  BY SlotsAre, NoCallIs
  DEF ImagesOK, TaskOK, ImagesTypeOK, CheckFlag, IrqGoes, machineVars, filVars, imgVars,
      Tables, Asked, Request, Afters, OsdStates, IrqStates
<1>2. ImagesTypeOK'
  BY SlotsAre, NoCallIs
  DEF ImagesOK, ImagesTypeOK, OpenWork, CheckFlag, IrqGoes, machineVars, filVars, imgVars,
      Tables, Asked, Request, Afters
<1>3. LockHeld'
  BY SlotsAre, NoCallIs
  DEF ImagesOK, LockHeld, OpenWork, CheckFlag, IrqGoes, machineVars, filVars, imgVars
<1>4. OpenWork'
  BY SlotsAre, NoCallIs
  DEF ImagesOK, ImagesTypeOK, OpenWork, CheckFlag, IrqGoes, machineVars, filVars, imgVars,
      Tables, Asked, Request, Afters
<1>5. FlagSet' /\ InsertedIsOpen'
  BY SlotsAre, NoCallIs
  DEF ImagesOK, ImagesTypeOK, OpenWork, FlagSet, InsertedIsOpen, CheckFlag, IrqGoes,
      machineVars, filVars, imgVars, Tables, Asked, Request, Afters
<1>6. RequestKept'
  BY SlotsAre, NoCallIs
  DEF ImagesOK, ImagesTypeOK, LockHeld, OpenWork, FlagSet, InsertedIsOpen, RequestKept,
      CheckFlag, IrqGoes, machineVars, filVars, imgVars, Tables, Asked, Request, Afters
<1>7. EjectWork'
  BY SlotsAre, NoCallIs
  DEF ImagesOK, ImagesTypeOK, OpenWork, EjectWork, CheckFlag, IrqGoes, machineVars, filVars,
      imgVars, Tables, Asked, Request, Afters
<1>8. NoImageWhileWriting'
  BY SlotsAre, NoCallIs
  DEF ImagesOK, EjectWork, NoImageWhileWriting, CheckFlag, IrqGoes, machineVars, filVars,
      imgVars
<1> QED BY <1>1, <1>2, <1>3, <1>4, <1>5, <1>6, <1>7, <1>8 DEF ImagesOK

\* The interrupt task gets the lock.
LEMMA TakeLockKeeps ==
    ASSUME ImagesOK, TakeLock
    PROVE  ImagesOK'
<1>1. TaskOK'
  BY SlotsAre, NoCallIs
  DEF ImagesOK, TaskOK, ImagesTypeOK, TakeLock, IrqGoes, machineVars, filVars, imgVars,
      sdc_lock, Tables, Asked, Request, Afters, OsdStates, IrqStates
<1>2. ImagesTypeOK'
  BY SlotsAre, NoCallIs
  DEF ImagesOK, ImagesTypeOK, OpenWork, TakeLock, IrqGoes, machineVars, filVars, imgVars,
      sdc_lock, Tables, Asked, Request, Afters
<1>3. LockHeld'
  BY SlotsAre, NoCallIs
  DEF ImagesOK, LockHeld, OpenWork, TakeLock, IrqGoes, machineVars, filVars, imgVars, sdc_lock
<1>4. OpenWork'
  BY SlotsAre, NoCallIs
  DEF ImagesOK, ImagesTypeOK, OpenWork, TakeLock, IrqGoes, machineVars, filVars, imgVars,
      sdc_lock, Tables, Asked, Request, Afters
<1>5. FlagSet' /\ InsertedIsOpen'
  BY SlotsAre, NoCallIs
  DEF ImagesOK, ImagesTypeOK, OpenWork, FlagSet, InsertedIsOpen, TakeLock, IrqGoes,
      machineVars, filVars, imgVars, sdc_lock, Tables, Asked, Request, Afters
<1>6. RequestKept'
  BY SlotsAre, NoCallIs
  DEF ImagesOK, ImagesTypeOK, LockHeld, OpenWork, FlagSet, InsertedIsOpen, RequestKept,
      TakeLock, IrqGoes, machineVars, filVars, imgVars, sdc_lock, Tables, Asked, Request,
      Afters
<1>7. EjectWork'
  BY SlotsAre, NoCallIs
  DEF ImagesOK, ImagesTypeOK, OpenWork, EjectWork, TakeLock, IrqGoes, machineVars, filVars,
      imgVars, sdc_lock, Tables, Asked, Request, Afters
<1>8. NoImageWhileWriting'
  BY SlotsAre, NoCallIs
  DEF ImagesOK, EjectWork, NoImageWhileWriting, TakeLock, IrqGoes, machineVars, filVars,
      imgVars, sdc_lock
<1> QED BY <1>1, <1>2, <1>3, <1>4, <1>5, <1>6, <1>7, <1>8 DEF ImagesOK

\* The machine gets its answer.
LEMMA AnswerKeeps ==
    ASSUME ImagesOK, Answer
    PROVE  ImagesOK'
<1>1. TaskOK'
  BY SlotsAre, NoCallIs
  DEF ImagesOK, TaskOK, ImagesTypeOK, Answer, IrqHasSpi, IrqGoes, filVars, Tables, Asked,
      Request, Afters, OsdStates, IrqStates
<1>2. ImagesTypeOK'
  BY SlotsAre, NoCallIs
  DEF ImagesOK, ImagesTypeOK, OpenWork, Answer, IrqHasSpi, IrqGoes, filVars, Tables, Asked,
      Request, Afters
<1>3. LockHeld'
  BY SlotsAre, NoCallIs DEF ImagesOK, LockHeld, OpenWork, Answer, IrqHasSpi, IrqGoes, filVars
<1>4. OpenWork'
  BY SlotsAre, NoCallIs
  DEF ImagesOK, ImagesTypeOK, OpenWork, Answer, IrqHasSpi, IrqGoes, filVars, Tables, Asked,
      Request, Afters
<1>5. FlagSet' /\ InsertedIsOpen'
  BY SlotsAre, NoCallIs
  DEF ImagesOK, ImagesTypeOK, OpenWork, FlagSet, InsertedIsOpen, Answer, IrqHasSpi, IrqGoes,
      filVars, Tables, Asked, Request, Afters
<1>6. RequestKept'
  BY SlotsAre, NoCallIs
  DEF ImagesOK, ImagesTypeOK, LockHeld, OpenWork, FlagSet, InsertedIsOpen, RequestKept,
      Answer, IrqHasSpi, IrqGoes, filVars, Tables, Asked, Request, Afters
<1>7. EjectWork'
  BY SlotsAre, NoCallIs
  DEF ImagesOK, ImagesTypeOK, OpenWork, EjectWork, Answer, IrqHasSpi, IrqGoes, filVars,
      Tables, Asked, Request, Afters
<1>8. NoImageWhileWriting'
  BY SlotsAre, NoCallIs
  DEF ImagesOK, EjectWork, NoImageWhileWriting, Answer, IrqHasSpi, IrqGoes, filVars
<1> QED BY <1>1, <1>2, <1>3, <1>4, <1>5, <1>6, <1>7, <1>8 DEF ImagesOK

\* The machine has moved its sector.
LEMMA CoreDoneKeeps ==
    ASSUME ImagesOK, CoreDone
    PROVE  ImagesOK'
<1>1. TaskOK'
  BY SlotsAre, NoCallIs
  DEF ImagesOK, TaskOK, ImagesTypeOK, CoreDone, IrqGoes, machineVars, filVars, sdc_unlock,
      Tables, Asked, Request, Afters, OsdStates, IrqStates
<1>2. ImagesTypeOK'
  BY SlotsAre, NoCallIs
  DEF ImagesOK, ImagesTypeOK, OpenWork, CoreDone, IrqGoes, machineVars, filVars, sdc_unlock,
      Tables, Asked, Request, Afters
<1>3. LockHeld'
  BY SlotsAre, NoCallIs
  DEF ImagesOK, LockHeld, OpenWork, CoreDone, IrqGoes, machineVars, filVars, sdc_unlock
<1>4. OpenWork'
  BY SlotsAre, NoCallIs
  DEF ImagesOK, ImagesTypeOK, OpenWork, CoreDone, IrqGoes, machineVars, filVars, sdc_unlock,
      Tables, Asked, Request, Afters
<1>5. FlagSet' /\ InsertedIsOpen'
  BY SlotsAre, NoCallIs
  DEF ImagesOK, ImagesTypeOK, OpenWork, FlagSet, InsertedIsOpen, CoreDone, IrqGoes,
      machineVars, filVars, sdc_unlock, Tables, Asked, Request, Afters
<1>6. RequestKept'
  BY SlotsAre, NoCallIs
  DEF ImagesOK, ImagesTypeOK, LockHeld, OpenWork, FlagSet, InsertedIsOpen, RequestKept,
      CoreDone, IrqGoes, machineVars, filVars, sdc_unlock, Tables, Asked, Request, Afters
<1>7. EjectWork'
  BY SlotsAre, NoCallIs
  DEF ImagesOK, ImagesTypeOK, OpenWork, EjectWork, CoreDone, IrqGoes, machineVars, filVars,
      sdc_unlock, Tables, Asked, Request, Afters
<1>8. NoImageWhileWriting'
  BY SlotsAre, NoCallIs
  DEF ImagesOK, EjectWork, NoImageWhileWriting, CoreDone, IrqGoes, machineVars, filVars,
      sdc_unlock
<1> QED BY <1>1, <1>2, <1>3, <1>4, <1>5, <1>6, <1>7, <1>8 DEF ImagesOK

\* The machine asks.
LEMMA AsksKeeps ==
    ASSUME ImagesOK, NEW d \in Drives, osd # "boot", MachineAsks(d)
    PROVE  ImagesOK'
<1>1. TaskOK'
  BY SlotsAre, NoCallIs
  DEF ImagesOK, TaskOK, ImagesTypeOK, MachineAsks, filVars, taskVars, Tables, Asked, Request,
      Afters, OsdStates, IrqStates
<1>2. ImagesTypeOK'
  BY SlotsAre, NoCallIs
  DEF ImagesOK, ImagesTypeOK, OpenWork, MachineAsks, filVars, taskVars, Tables, Asked,
      Request, Afters
<1>3. LockHeld'
  BY SlotsAre, NoCallIs DEF ImagesOK, LockHeld, OpenWork, MachineAsks, filVars, taskVars
<1>4. OpenWork'
  BY SlotsAre, NoCallIs
  DEF ImagesOK, ImagesTypeOK, OpenWork, MachineAsks, filVars, taskVars, Tables, Asked,
      Request, Afters
<1>5. FlagSet' /\ InsertedIsOpen'
  BY SlotsAre, NoCallIs
  DEF ImagesOK, ImagesTypeOK, OpenWork, FlagSet, InsertedIsOpen, MachineAsks, filVars,
      taskVars, Tables, Asked, Request, Afters
<1>6. RequestKept'
  BY SlotsAre, NoCallIs
  DEF ImagesOK, ImagesTypeOK, LockHeld, OpenWork, FlagSet, InsertedIsOpen, RequestKept,
      MachineAsks, filVars, taskVars, Tables, Asked, Request, Afters
<1>7. EjectWork'
  BY SlotsAre, NoCallIs
  DEF ImagesOK, ImagesTypeOK, OpenWork, EjectWork, MachineAsks, filVars, taskVars, Tables,
      Asked, Request, Afters
<1>8. NoImageWhileWriting'
  BY SlotsAre, NoCallIs
  DEF ImagesOK, EjectWork, NoImageWhileWriting, MachineAsks, filVars, taskVars
<1> QED BY <1>1, <1>2, <1>3, <1>4, <1>5, <1>6, <1>7, <1>8 DEF ImagesOK

\* Both sides start again.
LEMMA RestartKeeps ==
    ASSUME ImagesOK, Restart, faults' \in 0 .. MaxFaults
    PROVE  ImagesOK'
<1>1. TaskOK'
  BY SlotsAre, NoCallIs
  DEF ImagesOK, TaskOK, ImagesTypeOK, Restart, Tables, Asked, Request, Afters, OsdStates,
      IrqStates
<1>2. ImagesTypeOK'
  BY SlotsAre, NoCallIs
  DEF ImagesOK, ImagesTypeOK, OpenWork, Restart, Tables, Asked, Request, Afters
<1>3. LockHeld'
  BY SlotsAre, NoCallIs DEF ImagesOK, LockHeld, OpenWork, Restart
<1>4. OpenWork'
  BY SlotsAre, NoCallIs
  DEF ImagesOK, ImagesTypeOK, OpenWork, Restart, Tables, Asked, Request, Afters
<1>5. FlagSet' /\ InsertedIsOpen'
  BY SlotsAre, NoCallIs
  DEF ImagesOK, ImagesTypeOK, OpenWork, FlagSet, InsertedIsOpen, Restart, Tables, Asked,
      Request, Afters
<1>6. RequestKept'
  BY SlotsAre, NoCallIs
  DEF ImagesOK, ImagesTypeOK, LockHeld, OpenWork, FlagSet, InsertedIsOpen, RequestKept,
      Restart, Tables, Asked, Request, Afters
<1>7. EjectWork'
  BY SlotsAre, NoCallIs
  DEF ImagesOK, ImagesTypeOK, OpenWork, EjectWork, Restart, Tables, Asked, Request, Afters
<1>8. NoImageWhileWriting'
  BY SlotsAre, NoCallIs DEF ImagesOK, EjectWork, NoImageWhileWriting, Restart
<1> QED BY <1>1, <1>2, <1>3, <1>4, <1>5, <1>6, <1>7, <1>8 DEF ImagesOK

\* A step of the OSD task in something other than an image.
LEMMA ElsewhereKeeps ==
    ASSUME ImagesOK, UNCHANGED <<lock, irq, imgVars>>, faults' \in 0 .. MaxFaults,
           osd \notin Busy \ {"check"}, osd' \in OsdStates \ Busy,
           osd' \in Writing => osd \in Writing \/ osd = "check"
    PROVE  ImagesOK'
<1>1. TaskOK'
  BY SlotsAre, NoCallIs
  DEF ImagesOK, TaskOK, ImagesTypeOK, Busy, Writing, machineVars, filVars, imgVars, Tables,
      Asked, Request, Afters, OsdStates, IrqStates
<1>2. ImagesTypeOK'
  BY SlotsAre, NoCallIs
  DEF ImagesOK, ImagesTypeOK, OpenWork, Busy, Writing, machineVars, filVars, imgVars, Tables,
      Asked, Request, Afters, OsdStates
<1>3. LockHeld'
  BY SlotsAre, NoCallIs
  DEF ImagesOK, LockHeld, OpenWork, Busy, Writing, machineVars, filVars, imgVars, OsdStates
<1>4. OpenWork'
  BY SlotsAre, NoCallIs
  DEF ImagesOK, ImagesTypeOK, OpenWork, Busy, Writing, machineVars, filVars, imgVars, Tables,
      Asked, Request, Afters, OsdStates
<1>5. FlagSet' /\ InsertedIsOpen'
  BY SlotsAre, NoCallIs
  DEF ImagesOK, ImagesTypeOK, OpenWork, FlagSet, InsertedIsOpen, Busy, Writing, machineVars,
      filVars, imgVars, Tables, Asked, Request, Afters, OsdStates
<1>6. RequestKept'
  BY SlotsAre, NoCallIs
  DEF ImagesOK, ImagesTypeOK, LockHeld, OpenWork, FlagSet, InsertedIsOpen, RequestKept, Busy,
      Writing, machineVars, filVars, imgVars, Tables, Asked, Request, Afters, OsdStates
<1>7. EjectWork'
  BY SlotsAre, NoCallIs
  DEF ImagesOK, ImagesTypeOK, OpenWork, EjectWork, Busy, Writing, machineVars, filVars,
      imgVars, Tables, Asked, Request, Afters, OsdStates
<1>8. NoImageWhileWriting'
  BY SlotsAre, NoCallIs
  DEF ImagesOK, EjectWork, NoImageWhileWriting, Busy, Writing, machineVars, filVars, imgVars,
      OsdStates
<1> QED BY <1>1, <1>2, <1>3, <1>4, <1>5, <1>6, <1>7, <1>8 DEF ImagesOK

\* A step of neither.
LEMMA ImagesIdle ==
    ASSUME ImagesOK, UNCHANGED <<taskVars, imgVars>>
    PROVE  ImagesOK'
<1>1. TaskOK'
  BY SlotsAre, NoCallIs
  DEF ImagesOK, TaskOK, ImagesTypeOK, machineVars, filVars, imgVars, taskVars, Tables, Asked,
      Request, Afters, OsdStates, IrqStates
<1>2. ImagesTypeOK'
  BY SlotsAre, NoCallIs
  DEF ImagesOK, ImagesTypeOK, OpenWork, machineVars, filVars, imgVars, taskVars, Tables,
      Asked, Request, Afters
<1>3. LockHeld'
  BY SlotsAre, NoCallIs
  DEF ImagesOK, LockHeld, OpenWork, machineVars, filVars, imgVars, taskVars
<1>4. OpenWork'
  BY SlotsAre, NoCallIs
  DEF ImagesOK, ImagesTypeOK, OpenWork, machineVars, filVars, imgVars, taskVars, Tables,
      Asked, Request, Afters
<1>5. FlagSet' /\ InsertedIsOpen'
  BY SlotsAre, NoCallIs
  DEF ImagesOK, ImagesTypeOK, OpenWork, FlagSet, InsertedIsOpen, machineVars, filVars,
      imgVars, taskVars, Tables, Asked, Request, Afters
<1>6. RequestKept'
  BY SlotsAre, NoCallIs
  DEF ImagesOK, ImagesTypeOK, LockHeld, OpenWork, FlagSet, InsertedIsOpen, RequestKept,
      machineVars, filVars, imgVars, taskVars, Tables, Asked, Request, Afters
<1>7. EjectWork'
  BY SlotsAre, NoCallIs
  DEF ImagesOK, ImagesTypeOK, OpenWork, EjectWork, machineVars, filVars, imgVars, taskVars,
      Tables, Asked, Request, Afters
<1>8. NoImageWhileWriting'
  BY SlotsAre, NoCallIs
  DEF ImagesOK, EjectWork, NoImageWhileWriting, machineVars, filVars, imgVars, taskVars
<1> QED BY <1>1, <1>2, <1>3, <1>4, <1>5, <1>6, <1>7, <1>8 DEF ImagesOK

-----------------------------------------------------------------------------
(* How far flash_install has come, and what the flash holds by then.       *)
FlashOK == FlashTypeOK /\ InstallWork /\ ErasedAhead /\ OkMeansWhole

LEMMA SlotIs ==
    /\ SlotPages \in Nat /\ BlockPages \in Nat /\ BlockPages # 0 /\ Pages \subseteq Nat
    /\ CoreSize \in [Cores -> Nat \ {0}]
    /\ \A c \in Cores : CoreSize[c] <= SlotPages => 0 .. CoreSize[c] - 1 \subseteq Pages
BY FlashAssumption DEF Pages

LEMMA BlockOf == \A p \in Pages : p \div BlockPages \in Nat
BY SlotIs, SMT

\* As many blocks as the erase loop has cover every page of the core.
LEMMA BlocksCover ==
    ASSUME NEW n \in Nat \ {0}, NEW k \in Nat \ {0}
    PROVE  /\ CeilDiv(n, k) \in Nat
           /\ \A p \in 0 .. n - 1 : p \div k < CeilDiv(n, k)
<1> DEFINE c == CeilDiv(n, k)
<1>1. c \in Nat /\ n + k - 1 < k * c + k
  BY SMT DEF CeilDiv
<1>2. ASSUME NEW p \in 0 .. n - 1 PROVE p \div k < c
  <2> DEFINE q == p \div k
  <2>1. q \in Nat /\ k * q <= p
    BY SMT
  <2>2. k * q < k * c
    <3> HIDE DEF c, q
    <3>1. k * q \in Nat /\ k * c \in Nat /\ p \in Nat /\ p <= n - 1
      BY <1>1, <2>1
    <3> QED BY <1>1, <2>1, <3>1
  <2>3. c <= q => k * c <= k * q
    <3> HIDE DEF c, q
    <3> QED BY <1>1, <2>1, SMT
  <2> HIDE DEF c, q
  <2>4. q < c
    BY <1>1, <2>1, <2>2, <2>3
  <2> QED BY <2>4 DEF q
<1> QED BY <1>1, <1>2

LEMMA ContentsAre ==
    ASSUME FlashTypeOK
    PROVE  /\ WithBlock(at, Erased) \in [Pages -> Cores \union {Erased, Mixed}]
           /\ WithBlock(at, Mixed) \in [Pages -> Cores \union {Erased, Mixed}]
           /\ Garbled \in [Pages -> Cores \union {Erased, Mixed}]
           /\ running \in Cores => Programmed \in [Pages -> Cores \union {Erased, Mixed}]
BY DEF FlashTypeOK, WithBlock, Garbled, Programmed

\* The file is looked at.
LEMMA CheckKeeps ==
    ASSUME FlashOK, CheckFile
    PROVE  FlashOK'
<1>1. running \in Cores /\ UNCHANGED <<running, flash>>
  BY DEF FlashOK, InstallWork, CheckFile, Goes
<1>2. CASE osd' = "idle" /\ at' = 0 /\ glitch' = FALSE
  BY <1>1, <1>2 DEF FlashOK, FlashTypeOK, InstallWork, ErasedAhead, OkMeansWhole
<1>3. CASE CoreSize[running] \in BlockPages .. SlotPages /\ Goes("erase", 0)
  <2>1. FlashTypeOK' /\ osd' = "erase" /\ at' = 0
    BY <1>1, <1>3 DEF FlashOK, FlashTypeOK, Goes, OsdGoes
  <2>2. CoreSize[running] <= SlotPages
    BY <1>3, SlotIs
  <2>3. \A q \in Pages : ~(q \div BlockPages < 0)
    BY BlockOf
  <2> QED BY <1>1, <2>1, <2>2, <2>3 DEF FlashOK, InstallWork, ErasedAhead, OkMeansWhole
<1> QED BY <1>1, <1>2, <1>3 DEF CheckFile, Fails, Return, OsdGoes, OsdFails

\* A block is erased, or all of them are.
LEMMA EraseKeeps ==
    ASSUME FlashOK, EraseBlock
    PROVE  FlashOK'
<1> DEFINE n == CeilDiv(CoreSize[running], BlockPages)
<1>1. running \in Cores /\ CoreSize[running] <= SlotPages /\ osd = "erase"
  BY DEF FlashOK, InstallWork, EraseBlock, EraseLoop
<1>2. n \in Nat /\ \A p \in 0 .. CoreSize[running] - 1 : p \in Pages /\ p \div BlockPages < n
  BY <1>1, SlotIs, BlocksCover
<1> HIDE DEF n
<1>3. CASE at = n /\ Goes("rewind", 0) /\ UNCHANGED <<lock, running>>
  BY <1>1, <1>2, <1>3, SlotIs
  DEF FlashOK, FlashTypeOK, InstallWork, ErasedAhead, OkMeansWhole, Goes, OsdGoes
<1>4. CASE flash' \in {flash, WithBlock(at, Erased)} /\ Fails /\ UNCHANGED running
  BY <1>1, <1>4, ContentsAre
  DEF FlashOK, FlashTypeOK, InstallWork, ErasedAhead, OkMeansWhole, Fails, Return, OsdFails
<1>5. CASE /\ flash' = WithBlock(at, Erased) /\ at' = at + 1
           /\ UNCHANGED <<taskVars, glitch, running>>
  <2>1. osd' = "erase" /\ FlashTypeOK'
    BY <1>1, <1>5, ContentsAre DEF FlashOK, FlashTypeOK, taskVars
  <2>2. ASSUME ~glitch, NEW p \in Pages, p \div BlockPages < at + 1 PROVE flash'[p] = Erased
    BY <1>1, <1>5, <2>2, BlockOf DEF FlashOK, FlashTypeOK, InstallWork, WithBlock
  <2> QED BY <1>1, <1>5, <2>1, <2>2
      DEF FlashOK, FlashTypeOK, InstallWork, ErasedAhead, OkMeansWhole
<1>6. CASE glitch' = TRUE /\ at' = at + 1 /\ OsdFails(osd) /\ UNCHANGED <<flash, running>>
  BY <1>1, <1>6 DEF FlashOK, FlashTypeOK, InstallWork, ErasedAhead, OkMeansWhole, OsdFails
<1> QED BY <1>3, <1>4, <1>5, <1>6 DEF EraseBlock, EraseLoop, n

\* The file is rewound.
LEMMA RewindKeeps ==
    ASSUME FlashOK, Rewind("rewind", "program") \/ Rewind("rewind2", "verify")
    PROVE  FlashOK'
<1>1. /\ running \in Cores /\ UNCHANGED <<running, flash>>
      /\ at = 0 /\ osd \in {"rewind", "rewind2"}
      /\ CoreSize[running] \in Nat /\ CoreSize[running] <= SlotPages
  BY SlotIs DEF FlashOK, InstallWork, Rewind, Goes
<1>2. CASE osd' = "idle" /\ at' = 0 /\ glitch' = FALSE
  BY <1>1, <1>2 DEF FlashOK, FlashTypeOK, InstallWork, ErasedAhead, OkMeansWhole
<1>3. CASE Goes("program", 0) /\ osd = "rewind"
  BY <1>1, <1>3 DEF FlashOK, FlashTypeOK, InstallWork, ErasedAhead, OkMeansWhole, Goes, OsdGoes
<1>4. CASE Goes("verify", 0) /\ osd = "rewind2"
  BY <1>1, <1>4 DEF FlashOK, FlashTypeOK, InstallWork, ErasedAhead, OkMeansWhole, Goes, OsdGoes
<1> QED BY <1>1, <1>2, <1>3, <1>4 DEF Rewind, Fails, Return, OsdFails

\* A page is programmed, or all of them are.
LEMMA ProgramKeeps ==
    ASSUME FlashOK, ProgramPage
    PROVE  FlashOK'
<1>1. /\ running \in Cores /\ CoreSize[running] \in Nat /\ CoreSize[running] <= SlotPages
      /\ at \in Nat /\ at <= CoreSize[running] /\ osd = "program" /\ UNCHANGED running
  BY SlotIs DEF FlashOK, FlashTypeOK, InstallWork, ProgramPage
<1>2. CASE at = CoreSize[running] /\ Goes("rewind2", 0)
  BY <1>1, <1>2 DEF FlashOK, FlashTypeOK, InstallWork, ErasedAhead, OkMeansWhole, Goes, OsdGoes
<1>3. CASE Fails /\ flash' \in {flash, Programmed, Garbled}
  BY <1>1, <1>3, ContentsAre
  DEF FlashOK, FlashTypeOK, InstallWork, ErasedAhead, OkMeansWhole, Fails, Return, OsdFails
<1>4. CASE /\ at # CoreSize[running] /\ flash' = Programmed /\ at' = at + 1
           /\ OsdGoes(osd) /\ UNCHANGED glitch
  <2>1. \A p \in Pages : p # at => flash'[p] = flash[p]
    BY <1>4 DEF FlashOK, FlashTypeOK, Programmed, Garbled
  <2> QED BY <1>1, <1>4, <2>1, ContentsAre
      DEF FlashOK, FlashTypeOK, InstallWork, ErasedAhead, OkMeansWhole, OsdGoes
<1>5. CASE /\ at # CoreSize[running] /\ flash' = Garbled /\ at' = at + 1
           /\ glitch' = TRUE /\ OsdFails(osd)
  BY <1>1, <1>5, ContentsAre
  DEF FlashOK, FlashTypeOK, InstallWork, ErasedAhead, OkMeansWhole, OsdFails
<1> QED BY <1>2, <1>3, <1>4, <1>5 DEF ProgramPage

\* A page is verified, or all of them are.
LEMMA VerifyKeeps ==
    ASSUME FlashOK, VerifyPage
    PROVE  FlashOK'
<1>1. /\ running \in Cores /\ CoreSize[running] \in Nat /\ CoreSize[running] <= SlotPages
      /\ at \in Nat /\ at <= CoreSize[running] /\ osd = "verify" /\ UNCHANGED running
  BY SlotIs DEF FlashOK, FlashTypeOK, InstallWork, VerifyPage
<1>2. CASE at = CoreSize[running] /\ Goes("record", at)
  <2>1. Holds(flash, running)
    BY <1>1, <1>2, SlotIs DEF FlashOK, InstallWork, Holds
  <2> QED BY <1>1, <1>2, <2>1
      DEF FlashOK, FlashTypeOK, InstallWork, ErasedAhead, OkMeansWhole, Holds, Goes, OsdGoes
<1>3. CASE osd' = "idle" /\ at' = 0 /\ glitch' = FALSE /\ UNCHANGED flash
  BY <1>1, <1>3 DEF FlashOK, FlashTypeOK, InstallWork, ErasedAhead, OkMeansWhole
<1>4. CASE at # CoreSize[running] /\ flash[at] = running /\ Goes("verify", at + 1)
  BY <1>1, <1>4
  DEF FlashOK, FlashTypeOK, InstallWork, ErasedAhead, OkMeansWhole, Goes, OsdGoes
<1> QED BY <1>2, <1>3, <1>4 DEF VerifyPage, Fails, Return, OsdFails, OsdGoes

\* The core is recorded as saved.
LEMMA RecordKeeps ==
    ASSUME FlashOK, Record
    PROVE  FlashOK'
BY DEF FlashOK, FlashTypeOK, InstallWork, ErasedAhead, OkMeansWhole, Record, Return, OsdGoes

LEMMA InstallKeeps ==
    ASSUME FlashOK, InstallStep
    PROVE  FlashOK'
BY CheckKeeps, EraseKeeps, RewindKeeps, ProgramKeeps, VerifyKeeps, RecordKeeps DEF InstallStep

\* A step that leaves the flash alone.
LEMMA FlashElsewhere ==
    ASSUME FlashOK, UNCHANGED flashVars,
           osd' = osd \/ (osd \notin Writing /\ osd' \notin Writing),
           running \in Cores \/ osd' = osd
    PROVE  FlashOK'
BY DEF FlashOK, FlashTypeOK, InstallWork, ErasedAhead, OkMeansWhole, Holds, flashVars, Writing

\* A step after which the MCU starts again.
LEMMA FlashRestarts ==
    ASSUME Restart, flash' \in [Pages -> Cores \union {Erased, Mixed}],
           running' \in Cores \union {NoCore}
    PROVE  FlashOK'
BY DEF FlashOK, FlashTypeOK, InstallWork, ErasedAhead, OkMeansWhole, Restart

-----------------------------------------------------------------------------
(* What the Evo's clock memory and its copy on the card hold.              *)
CmosOK == CmosTypeOK /\ SaveWork /\ NothingForgotten

CmosStates == {"cmosGet", "cmosRead", "cmosSave"}

LEMMA NothingRead == <<>> \in Seq({0, 1}) /\ Len(<<>>) = 0
OBVIOUS

LEMMA NothingHeld ==
    ASSUME buf' \in Seq({0, 1}), Len(buf') = 0,
           nv' \in Memory /\ changed' \in BOOLEAN /\ lost' \in BOOLEAN,
           cmosFile' \in Memory \union {NoFile}
    PROVE  CmosTypeOK'
<1>1. Len(buf') <= CmosCells
  BY CmosAssumption
<1> QED BY <1>1 DEF CmosTypeOK

LEMMA CmosStepKeeps ==
    ASSUME CmosOK, CmosStep, UNCHANGED running
    PROVE  CmosOK'
<1>1. CASE CmosGet
  <2>1. buf' \in Seq({0, 1}) /\ Len(buf') = 0 /\ osd' = "cmosRead"
    BY <1>1, NothingRead DEF CmosGet, OsdGoes
  <2>2. CmosTypeOK'
    <3>1. /\ nv' \in Memory /\ changed' \in BOOLEAN /\ lost' \in BOOLEAN
          /\ cmosFile' \in Memory \union {NoFile}
      BY <1>1 DEF CmosOK, CmosTypeOK, CmosGet
    <3> QED BY <2>1, <3>1, NothingHeld
  <2> QED BY <2>1, <2>2 DEF CmosOK, SaveWork, NothingForgotten
<1>2. CASE ReadCell /\ Len(buf) < CmosCells
  <2>1. /\ osd = "cmosRead" /\ osd' = "cmosRead" /\ buf \in Seq({0, 1}) /\ nv \in [Cells -> {0, 1}]
        /\ buf' = Append(buf, nv[Len(buf) + 1]) /\ UNCHANGED <<nv, changed, cmosFile, lost>>
    BY <1>2 DEF CmosOK, CmosTypeOK, Memory, ReadCell, OsdGoes
  <2>2. Len(buf) \in Nat /\ Len(buf) + 1 \in Cells /\ nv[Len(buf) + 1] \in {0, 1}
    BY <1>2, <2>1, CmosAssumption DEF Cells
  <2>3. buf' \in Seq({0, 1}) /\ Len(buf') = Len(buf) + 1
    BY <2>1, <2>2
  <2>4. \A i \in 1 .. Len(buf') : buf'[i] = IF i = Len(buf) + 1 THEN nv[Len(buf) + 1] ELSE buf[i]
    BY <2>1, <2>2
  <2>5. CmosTypeOK'
    BY <1>2, <2>1, <2>2, <2>3, CmosAssumption DEF CmosOK, CmosTypeOK
  <2>6. ~changed => \A i \in 1 .. Len(buf') : buf'[i] = nv[i]
    BY <2>1, <2>2, <2>3, <2>4 DEF CmosOK, SaveWork
  <2> QED BY <2>1, <2>5, <2>6 DEF CmosOK, SaveWork, NothingForgotten
<1>3. CASE ReadCell /\ ~(Len(buf) < CmosCells)
  BY <1>3, CmosAssumption
  DEF CmosOK, CmosTypeOK, SaveWork, NothingForgotten, ReadCell, OsdGoes
<1>4. CASE CmosWrite
  <2>1. buf \in Memory
    BY <1>4 DEF CmosOK, CmosTypeOK, SaveWork, CmosWrite, Memory, Cells
  <2>2. ~changed => buf = nv
    BY <1>4, <2>1 DEF CmosOK, CmosTypeOK, SaveWork, CmosWrite, Memory, Cells
  <2>3. buf' \in Seq({0, 1}) /\ Len(buf') = 0 /\ osd' = "idle"
    BY <1>4, NothingRead DEF CmosWrite, OsdGoes, OsdFails
  <2>4. CmosTypeOK'
    <3>1. /\ nv' \in Memory /\ changed' \in BOOLEAN /\ lost' \in BOOLEAN
          /\ cmosFile' \in Memory \union {NoFile}
      BY <1>4, <2>1 DEF CmosOK, CmosTypeOK, CmosWrite
    <3> QED BY <2>3, <3>1, NothingHeld
  <2> QED BY <1>4, <2>2, <2>3, <2>4 DEF CmosOK, SaveWork, NothingForgotten, CmosWrite
<1> QED BY <1>1, <1>2, <1>3, <1>4 DEF CmosStep

LEMMA CmosBootKeeps ==
    ASSUME CmosOK, CmosBoot
    PROVE  CmosOK'
BY DEF CmosOK, CmosTypeOK, SaveWork, NothingForgotten, CmosBoot, Memory, Fresh, OsdGoes,
   OsdFails

LEMMA NvramKeeps ==
    ASSUME CmosOK, NEW c \in Cells, NEW v \in {0, 1}, NvramWrite(c, v)
    PROVE  CmosOK'
BY DEF CmosOK, CmosTypeOK, SaveWork, NothingForgotten, NvramWrite, Memory, taskVars

\* A step that leaves the clock memory alone.
LEMMA CmosElsewhere ==
    ASSUME CmosOK, UNCHANGED <<cmosVars, running>>,
           osd' = osd \/ (osd \notin CmosStates /\ osd' \notin CmosStates \ {"cmosGet"}),
           osd # "boot" \/ running # Evo \/ osd' = osd
    PROVE  CmosOK'
BY DEF CmosOK, CmosTypeOK, SaveWork, NothingForgotten, cmosVars, CmosStates

\* A step after which the MCU starts again.
LEMMA CmosRestarts ==
    ASSUME CmosOK, Restart
    PROVE  CmosOK'
<1>1. buf' \in Seq({0, 1}) /\ Len(buf') = 0 /\ osd' = "boot"
  BY NothingRead DEF Restart
<1>2. CmosTypeOK'
  <2>1. /\ nv' \in Memory /\ changed' \in BOOLEAN /\ lost' \in BOOLEAN
        /\ cmosFile' \in Memory \union {NoFile}
    BY DEF CmosOK, CmosTypeOK, Restart, Memory, Fresh
  <2> QED BY <1>1, <2>1, NothingHeld
<1> QED BY <1>1, <1>2 DEF CmosOK, SaveWork, NothingForgotten

-----------------------------------------------------------------------------
(* Every step keeps all three.                                             *)
IInv == ImagesOK /\ FlashOK /\ CmosOK

LEMMA FaultIs == ASSUME faults \in 0 .. MaxFaults, Fault PROVE faults' \in 0 .. MaxFaults
BY TasksAssumption DEF Fault

LEMMA UserKeeps ==
    ASSUME IInv, User
    PROVE  IInv'
<1>1. ImagesOK'
  BY CallKeeps, EjectAllKeeps DEF IInv, User
<1>2. osd = "idle" /\ osd' \in {"openLock", "eject"} /\ UNCHANGED <<flashVars, cmosVars>>
  BY DEF User, ImageOpen, Call, EjectAll, OsdGoes
<1>3. FlashOK'
  BY <1>2, FlashElsewhere DEF IInv, FlashOK, InstallWork, Writing
<1>4. CmosOK'
  BY <1>2, CmosElsewhere DEF IInv, CmosStates, flashVars
<1> QED BY <1>1, <1>3, <1>4 DEF IInv

LEMMA ImageStepKeeps ==
    ASSUME IInv, OsdRuns, ImageStep, UNCHANGED <<flashVars, cmosVars>>
    PROVE  IInv'
<1>1. ImagesOK'
  <2>1. CASE OpenFile
    BY <2>1, OpenFailsKeeps, OpenedKeeps DEF IInv, OpenFile
  <2>2. CASE LinkTable
    BY <2>2, OpenFailsKeeps, LinkedKeeps DEF IInv, LinkTable
  <2> QED BY <2>1, <2>2, CloseOldKeeps, InsertKeeps, EjectNextKeeps DEF IInv, ImageStep
<1>2. /\ osd \in {"openLock", "open", "table", "insert", "eject"}
      /\ osd' \in {"idle", "eject", "open", "table", "insert", "openLock", "check", "switch"}
  BY DEF IInv, ImagesOK, ImagesTypeOK, Afters, ImageStep, CloseOld, Ejected, OpenFile,
     OpenFails,
         LinkTable, Insert, EjectNext, EjectLoop, Call, OsdGoes, OsdFails
<1>3. FlashOK'
  BY <1>2, FlashElsewhere DEF IInv, FlashOK, InstallWork, Writing
<1>4. CmosOK'
  BY <1>2, CmosElsewhere DEF IInv, CmosStates, flashVars
<1> QED BY <1>1, <1>3, <1>4 DEF IInv

LEMMA InstallStepKeeps ==
    ASSUME IInv, InstallStep, UNCHANGED <<imgVars, cmosVars>>
    PROVE  IInv'
<1>1. /\ osd \in Writing \union {"check"} /\ osd' \in Writing \union {"idle"}
      /\ UNCHANGED <<lock, irq, running>> /\ faults' \in 0 .. MaxFaults
  <2>1. faults \in 0 .. MaxFaults
    BY DEF IInv, ImagesOK, TaskOK
  <2>2. CASE CheckFile
    BY <2>1, <2>2, FaultIs DEF CheckFile, Fails, Goes, OsdGoes, OsdFails, Locked, Writing
  <2>3. CASE EraseBlock
    BY <2>1, <2>3, FaultIs
    DEF EraseBlock, EraseLoop, Fails, Goes, OsdGoes, OsdFails, Locked, Writing, taskVars
  <2>4. CASE ProgramPage
    BY <2>1, <2>4, FaultIs DEF ProgramPage, Fails, Goes, OsdGoes, OsdFails, Locked, Writing
  <2>5. CASE VerifyPage
    BY <2>1, <2>5, FaultIs DEF VerifyPage, Fails, Goes, OsdGoes, OsdFails, Locked, Writing
  <2>6. CASE Record
    BY <2>1, <2>6, FaultIs DEF Record, OsdGoes, Locked, Writing
  <2>7. CASE Rewind("rewind", "program") \/ Rewind("rewind2", "verify")
    BY <2>1, <2>7, FaultIs DEF Rewind, Fails, Goes, OsdGoes, OsdFails, Locked, Writing
  <2> QED BY <2>2, <2>3, <2>4, <2>5, <2>6, <2>7 DEF InstallStep
<1>2. ImagesOK'
  BY <1>1, ElsewhereKeeps DEF IInv, Busy, Writing, OsdStates
<1>3. FlashOK'
  BY InstallKeeps DEF IInv
<1>4. CmosOK'
  BY <1>1, CmosElsewhere DEF IInv, CmosStates, Writing
<1> QED BY <1>2, <1>3, <1>4 DEF IInv

LEMMA SaveStepKeeps ==
    ASSUME IInv, CmosStep, UNCHANGED <<imgVars, flashVars>>
    PROVE  IInv'
<1>1. /\ osd \in CmosStates /\ osd' \in CmosStates \union {"idle"}
      /\ UNCHANGED <<lock, irq, running>> /\ faults' \in 0 .. MaxFaults
  BY FaultIs DEF IInv, ImagesOK, TaskOK, CmosStep, CmosGet, ReadCell, CmosWrite, CmosStates,
                 OsdGoes, OsdFails, Locked, flashVars
<1>2. ImagesOK'
  BY <1>1, ElsewhereKeeps DEF IInv, Busy, Writing, CmosStates, OsdStates
<1>3. FlashOK'
  BY <1>1, FlashElsewhere DEF IInv, FlashOK, InstallWork, Writing, CmosStates
<1>4. CmosOK'
  BY <1>1, CmosStepKeeps DEF IInv
<1> QED BY <1>2, <1>3, <1>4 DEF IInv

LEMMA BootStepKeeps ==
    ASSUME IInv, BootStep
    PROVE  IInv'
<1>1. /\ osd = "boot" /\ osd' \in {"idle", "cmosGet"} /\ running \in Cores
      /\ UNCHANGED <<lock, irq, imgVars, flashVars>> /\ faults' \in 0 .. MaxFaults
  BY FaultIs DEF IInv, ImagesOK, TaskOK, FlashOK, FlashTypeOK, BootStep, CmosBoot, OsdGoes,
                 OsdFails, Locked
<1>2. ImagesOK'
  BY <1>1, ElsewhereKeeps DEF IInv, Busy, Writing, OsdStates
<1>3. FlashOK'
  BY <1>1, FlashElsewhere DEF IInv, Writing
<1>4. CmosOK'
  <2>1. CASE running = Evo
    BY <2>1, CmosBootKeeps DEF IInv, BootStep
  <2>2. CASE running # Evo
    BY <1>1, <2>2, CmosElsewhere DEF IInv, BootStep, CmosStates, flashVars
  <2> QED BY <2>1, <2>2
<1> QED BY <1>2, <1>3, <1>4 DEF IInv

LEMMA SwitchKeeps ==
    ASSUME IInv, SwitchCore
    PROVE  IInv'
<1>1. CASE OsdGoes("idle") /\ UNCHANGED <<lock, imgVars, flashVars, cmosVars>>
  <2>1. osd = "switch" /\ osd' = "idle" /\ UNCHANGED <<irq, faults>>
    BY <1>1 DEF SwitchCore, OsdGoes
  <2>2. ImagesOK'
    BY <1>1, <2>1, ElsewhereKeeps DEF IInv, ImagesOK, TaskOK, Busy, Writing, OsdStates
  <2>3. FlashOK'
    BY <1>1, <2>1, FlashElsewhere DEF IInv, FlashOK, InstallWork, Writing
  <2>4. CmosOK'
    BY <1>1, <2>1, CmosElsewhere DEF IInv, CmosStates, flashVars
  <2> QED BY <2>2, <2>3, <2>4 DEF IInv
<1>2. CASE \E c \in Cores \ {running} : running' = c /\ Restart /\ UNCHANGED <<flash, faults>>
  <2>1. Restart /\ running' \in Cores /\ UNCHANGED <<flash, faults>>
    BY <1>2
  <2>2. ImagesOK'
    BY <2>1, RestartKeeps DEF IInv, ImagesOK, TaskOK
  <2>3. FlashOK'
    BY <2>1, FlashRestarts DEF IInv, FlashOK, FlashTypeOK
  <2>4. CmosOK'
    BY <2>1, CmosRestarts DEF IInv
  <2> QED BY <2>2, <2>3, <2>4 DEF IInv
<1> QED BY <1>1, <1>2 DEF SwitchCore

LEMMA PollKeeps ==
    ASSUME IInv, PollStep
    PROVE  IInv'
<1>1. /\ osd = "idle" /\ osd' = "cmosGet"
      /\ UNCHANGED <<lock, irq, faults, imgVars, flashVars, cmosVars>>
  BY DEF PollStep, Poll, OsdGoes
<1>2. ImagesOK'
  BY <1>1, ElsewhereKeeps DEF IInv, ImagesOK, TaskOK, Busy, Writing, OsdStates
<1>3. FlashOK'
  BY <1>1, FlashElsewhere DEF IInv, FlashOK, InstallWork, Writing
<1>4. CmosOK'
  BY <1>1, CmosElsewhere DEF IInv, CmosStates, flashVars
<1> QED BY <1>2, <1>3, <1>4 DEF IInv

LEMMA IrqKeeps ==
    ASSUME IInv, IrqStep
    PROVE  IInv'
<1>1. ImagesOK'
  BY WakeKeeps, ReadStatusKeeps, CheckFlagKeeps, TakeLockKeeps, AnswerKeeps, CoreDoneKeeps
  DEF IInv, IrqStep, HandleEvent
<1>2. osd' = osd /\ UNCHANGED <<flashVars, cmosVars>>
  BY DEF IrqStep, HandleEvent, Wake, ReadStatus, CheckFlag, TakeLock, Answer, CoreDone, IrqGoes
<1>3. FlashOK'
  BY <1>2, FlashElsewhere DEF IInv
<1>4. CmosOK'
  BY <1>2, CmosElsewhere DEF IInv, flashVars
<1> QED BY <1>1, <1>3, <1>4 DEF IInv

LEMMA MachineKeeps ==
    ASSUME IInv, Machine
    PROVE  IInv'
<1>1. CASE osd # "boot" /\ (\E d \in Drives : MachineAsks(d)) /\ UNCHANGED <<flashVars, cmosVars>>
  <2>1. ImagesOK'
    BY <1>1, AsksKeeps DEF IInv
  <2>2. osd' = osd
    BY <1>1 DEF MachineAsks, taskVars
  <2>3. FlashOK' /\ CmosOK'
    BY <1>1, <2>2, FlashElsewhere, CmosElsewhere DEF IInv, flashVars
  <2> QED BY <2>1, <2>3 DEF IInv
<1>2. CASE (\E c \in Cells, v \in {0, 1} : NvramWrite(c, v)) /\ UNCHANGED <<imgVars, flashVars>>
  <2>1. UNCHANGED taskVars
    BY <1>2 DEF NvramWrite
  <2>2. ImagesOK' /\ FlashOK'
    BY <1>2, <2>1, ImagesIdle, FlashElsewhere DEF IInv, taskVars
  <2>3. CmosOK'
    BY <1>2, NvramKeeps DEF IInv
  <2> QED BY <2>2, <2>3 DEF IInv
<1> QED BY <1>1, <1>2 DEF Machine

LEMMA PowerCutKeeps ==
    ASSUME IInv, PowerCut
    PROVE  IInv'
<1>1. Restart /\ faults' \in 0 .. MaxFaults
  BY FaultIs DEF IInv, ImagesOK, TaskOK, PowerCut
<1>2. PICK f \in AfterCut : flash' = f /\ running' = Boots(f)
  BY DEF PowerCut
<1>3. f \in [Pages -> Cores \union {Erased, Mixed}]
  BY ContentsAre DEF IInv, FlashOK, FlashTypeOK, AfterCut
<1>4. Boots(f) \in Cores \union {NoCore}
  BY DEF Boots
<1>5. ImagesOK'
  BY <1>1, RestartKeeps DEF IInv
<1>6. FlashOK'
  BY <1>1, <1>2, <1>3, <1>4, FlashRestarts
<1>7. CmosOK'
  BY <1>1, CmosRestarts DEF IInv
<1> QED BY <1>5, <1>6, <1>7 DEF IInv

LEMMA RescueKeeps ==
    ASSUME IInv, Rescue
    PROVE  IInv'
<1>1. Restart /\ UNCHANGED faults
  BY DEF Rescue
<1>2. flash' \in [Pages -> Cores \union {Erased, Mixed}] /\ running' \in Cores
  BY DEF Rescue
<1>3. ImagesOK'
  BY <1>1, RestartKeeps DEF IInv, ImagesOK, TaskOK
<1>4. FlashOK'
  BY <1>1, <1>2, FlashRestarts
<1>5. CmosOK'
  BY <1>1, CmosRestarts DEF IInv
<1> QED BY <1>3, <1>4, <1>5 DEF IInv

LEMMA StepKeeps == IInv /\ [Next]_vars => IInv'
<1> SUFFICES ASSUME IInv, [Next]_vars PROVE IInv'
  OBVIOUS
<1>1. CASE OsdStep
  BY <1>1, ImageStepKeeps, InstallStepKeeps, SaveStepKeeps, BootStepKeeps, SwitchKeeps
  DEF OsdStep
<1>2. CASE UNCHANGED vars
  <2>1. ImagesOK'
    BY <1>2, ImagesIdle DEF IInv, vars
  <2>2. FlashOK' /\ CmosOK'
    BY <1>2, FlashElsewhere, CmosElsewhere DEF IInv, vars, taskVars, flashVars
  <2> QED BY <2>1, <2>2 DEF IInv
<1> QED
  BY <1>1, <1>2, UserKeeps, PollKeeps, IrqKeeps, MachineKeeps, PowerCutKeeps, RescueKeeps
  DEF Next

LEMMA InitHolds == Init => IInv
<1> SUFFICES ASSUME Init PROVE IInv
  OBVIOUS
<1>1. TaskOK
  BY TasksAssumption DEF Init, TaskOK, OsdStates, IrqStates
<1>2. ImagesTypeOK
  BY NoCallIs DEF Init, ImagesInit, ImagesTypeOK, Asked, Tables
<1>3. ImagesOK
  BY <1>1, <1>2 DEF Init, ImagesInit, ImagesOK, LockHeld, OpenWork, FlagSet, InsertedIsOpen,
                    RequestKept, EjectWork, NoImageWhileWriting
<1>4. FlashOK
  BY DEF Init, FlashInit, FlashOK, FlashTypeOK, InstallWork, ErasedAhead, OkMeansWhole
<1>5. CmosOK
  <2>1. buf \in Seq({0, 1}) /\ Len(buf) = 0 /\ osd = "boot"
    BY NothingRead DEF Init, CmosInit
  <2>2. Len(buf) <= CmosCells
    BY <2>1, CmosAssumption
  <2>3. /\ nv \in Memory /\ changed \in BOOLEAN /\ lost \in BOOLEAN
        /\ cmosFile \in Memory \union {NoFile}
    BY DEF Init, CmosInit, Memory, Fresh
  <2> QED BY <2>1, <2>2, <2>3 DEF CmosOK, CmosTypeOK, SaveWork, NothingForgotten
<1> QED BY <1>3, <1>4, <1>5 DEF IInv

LEMMA Always == Spec => []IInv
BY InitHolds, StepKeeps, PTL DEF Spec

-----------------------------------------------------------------------------
(* Every variable keeps its type.                                          *)
THEOREM TypeCorrect == Spec => []TypeOK
<1>1. IInv => TypeOK
  BY DEF IInv, ImagesOK, TaskOK, FlashOK, CmosOK, TypeOK
<1> QED BY <1>1, Always, PTL

(* The machine believes an image to be in a drive only while its file is   *)
(* open with its link table (sdc_image_open).                              *)
THEOREM InsertedCorrect == Spec => []InsertedIsOpen
<1>1. IInv => InsertedIsOpen
  BY DEF IInv, ImagesOK
<1> QED BY <1>1, Always, PTL

(* Every answer of sdc_handle_event names the sector of the image the      *)
(* machine asked for, however the two tasks interleave.                    *)
THEOREM SectorsRight == Spec => RightSector
<1>1. IInv /\ [Next]_vars => [irq = "answer" /\ irq' = "busy" =>
                                req = request /\ cltbl[req.drive] = req.image]_vars
  BY DEF IInv, ImagesOK, RequestKept
<1> QED BY <1>1, Always, PTL DEF Spec, RightSector

(* The dock makes no card access of its own while the machine moves a      *)
(* sector (sdc.c:412-414).                                                 *)
THEOREM OneMasterAtATime == Spec => []OneMaster
<1>1. IInv => OneMaster
  BY DEF IInv, ImagesOK, LockHeld, OneMaster
<1> QED BY <1>1, Always, PTL

(* No image is open while the flash is written (ultima_install).           *)
THEOREM NoneOpenWhileWriting == Spec => []NoImageWhileWriting
<1>1. IInv => NoImageWhileWriting
  BY DEF IInv, ImagesOK
<1> QED BY <1>1, Always, PTL

(* flash_install never programs a page it has not erased, but where an     *)
(* erase failed silently.                                                  *)
THEOREM AlwaysErasedAhead == Spec => []ErasedAhead
<1>1. IInv => ErasedAhead
  BY DEF IInv, FlashOK
<1> QED BY <1>1, Always, PTL

(* flash_install returns 0 only with the whole core in the flash.          *)
THEOREM SavedIsWhole == Spec => []OkMeansWhole
<1>1. IInv => OkMeansWhole
  BY DEF IInv, FlashOK
<1> QED BY <1>1, Always, PTL

(* No change of the clock memory is forgotten but with a failed write      *)
(* (cmos_get, cmos_save, evo_poll).                                        *)
THEOREM NoneForgotten == Spec => []NothingForgotten
<1>1. IInv => NothingForgotten
  BY DEF IInv, CmosOK
<1> QED BY <1>1, Always, PTL
=============================================================================
