------------------------- MODULE HidKeyboardProofs -------------------------
(***************************************************************************)
(* What the HID slot guarantees for any number of instances and any times  *)
(* of the code's order, however long hid_parse waits for the link: no USB  *)
(* transfer outlasts usbh_hid_stop, which gives up on hid_parse alone; and *)
(* as long as it has never given up the slot has one thread, which touches *)
(* no device that has been freed.                                          *)
(***************************************************************************)
EXTENDS HidKeyboard, TLAPS

-----------------------------------------------------------------------------
(* The slot and its threads.                                               *)

Limit(s) == IF s = "urb" THEN URB_TIME ELSE HALT_TIME

\* A thread has a device in hand.
InHand == {"submit", "urb", "halt"}

\* What the stack knows of the device.
StackKnows ==
    /\ stopping => attached # NoDevice
    /\ class = attached
    /\ attached # NoDevice => stop = stopping /\ connected = ~stopping

\* No transfer of a thread outlasts the wait of usbh_hid_stop.
WaitsEnd ==
    \A i \in Devices :
        /\ at[i] \in Timed => left[i] <= Limit(at[i])
        /\ stopping /\ at[i] \in Timed => left[i] < patience
        /\ stopping /\ at[i] = "submit" => patience = STOP_TIME

\* The thread in task_handle is there.
HandleLives == task_handle # NoDevice => at[task_handle] # "none"

\* A thread that has the slot to itself is the one in task_handle; when it is
\* left behind in hid_parse, stop waits for it at the top of the loop.
Alone ==
    ~doubled => \A i \in Devices : at[i] # "none" =>
        /\ task_handle = i
        /\ attached = NoDevice => stop /\ at[i] \in {"parse", "loop"}

LifeOK == LifeTypeOK /\ StackKnows /\ WaitsEnd /\ HandleLives /\ Alone /\ NoUseAfterFree

LEMMA TimesAre ==
    /\ URB_TIME \in Nat /\ HALT_TIME \in Nat /\ STOP_TIME \in Nat /\ STOP_TIME > 0
    /\ \A s \in Timed : Limit(s) \in Nat /\ Limit(s) < STOP_TIME
BY LifeAssumption DEF Timed, Limit

\* A thread that goes on to state s, with device u in hand and the whole of its
\* wait before it.
LEMMA GotoKeeps ==
    ASSUME LifeOK, NEW i \in Devices, at[i] # "none",
           NEW s \in {"loop", "submit", "parse"} \union Timed,
           NEW n \in Nat, NEW u \in Devices \union {NoDevice}, Goto(i, s, n),
           busy' \subseteq Devices \union {NoDevice}, uses' = [uses EXCEPT ![i] = u],
           s \in Timed => n <= Limit(s),
           stopping /\ s \in Timed => n < patience,
           s = "submit" => ~stopping,
           ~doubled /\ s \in InHand => u = attached /\ attached # NoDevice
    PROVE  LifeOK'
<1>1. LifeTypeOK'
  BY DEF LifeOK, LifeTypeOK, Goto, Moves, stackVars
<1>2. StackKnows'
  BY DEF LifeOK, StackKnows, Goto, Moves, stackVars
<1>3. WaitsEnd'
  BY <1>1, TimesAre DEF LifeOK, LifeTypeOK, WaitsEnd, Goto, Moves, stackVars, Timed
<1>4. HandleLives'
  BY DEF LifeOK, LifeTypeOK, HandleLives, Goto, Moves, stackVars, Timed
<1>5. Alone'
  BY DEF LifeOK, LifeTypeOK, Alone, Goto, Moves, stackVars, Timed, InHand
<1>6. NoUseAfterFree'
  BY DEF LifeOK, LifeTypeOK, StackKnows, Alone, NoUseAfterFree, Goto, Moves, stackVars, Timed, InHand
<1> QED BY <1>1, <1>2, <1>3, <1>4, <1>5, <1>6 DEF LifeOK

LEMMA ExitKeeps ==
    ASSUME LifeOK, NEW i \in Devices, at[i] # "none", Exit(i), UNCHANGED uses,
           busy' \subseteq Devices \union {NoDevice}
    PROVE  LifeOK'
<1>1. LifeTypeOK'
  BY DEF LifeOK, LifeTypeOK, Exit, Moves, stackVars
<1>2. StackKnows' /\ HandleLives'
  BY DEF LifeOK, StackKnows, HandleLives, Exit, Moves, stackVars
<1>3. WaitsEnd'
  BY <1>1, TimesAre DEF LifeOK, LifeTypeOK, WaitsEnd, Exit, Moves, stackVars, Timed
<1>4. Alone' /\ NoUseAfterFree'
  BY DEF LifeOK, LifeTypeOK, Alone, NoUseAfterFree, Exit, Moves, stackVars
<1> QED BY <1>1, <1>2, <1>3, <1>4 DEF LifeOK

LEMMA AttachKeeps ==
    ASSUME LifeOK, NEW i \in Devices, Attach(i)
    PROVE  LifeOK'
<1>1. LifeTypeOK'
  BY DEF LifeOK, LifeTypeOK, Attach
<1>2. ~stopping /\ i # NoDevice
  BY LifeAssumption DEF LifeOK, StackKnows, Attach
<1>3. StackKnows' /\ WaitsEnd'
  BY <1>2 DEF LifeOK, LifeTypeOK, StackKnows, WaitsEnd, Attach, Timed
<1>4. HandleLives'
  BY <1>2 DEF LifeOK, LifeTypeOK, HandleLives, Attach
<1>5. Alone' /\ NoUseAfterFree'
  <2>1. CASE doubled'
    BY <2>1 DEF Alone, NoUseAfterFree
  <2>2. CASE ~doubled'
    <3>1. \A j \in Devices : at[j] = "none"
      BY <2>2 DEF LifeOK, LifeTypeOK, Attach
    <3> QED BY <1>2, <3>1 DEF LifeOK, LifeTypeOK, Alone, NoUseAfterFree, Attach
  <2> QED BY <2>1, <2>2
<1> QED BY <1>1, <1>3, <1>4, <1>5 DEF LifeOK

LEMMA DetachKeeps ==
    ASSUME LifeOK, Detach
    PROVE  LifeOK'
<1>1. LifeTypeOK'
  <2>1. STOP_TIME \in 0 .. STOP_TIME
    BY TimesAre
  <2> QED BY <2>1 DEF LifeOK, LifeTypeOK, Detach
<1>2. StackKnows' /\ HandleLives'
  BY DEF LifeOK, StackKnows, HandleLives, Detach
<1>3. WaitsEnd'
  <2>1. ASSUME NEW i \in Devices, at[i] \in Timed PROVE left[i] <= Limit(at[i]) /\ left[i] < STOP_TIME
    BY <2>1, TimesAre DEF LifeOK, LifeTypeOK, WaitsEnd
  <2> QED BY <2>1 DEF Detach, WaitsEnd
<1>4. Alone' /\ NoUseAfterFree'
  BY DEF LifeOK, Alone, NoUseAfterFree, Detach
<1> QED BY <1>1, <1>2, <1>3, <1>4 DEF LifeOK

\* A wait that ends by the clock has outlasted every transfer.
LEMMA GivesUpOn ==
    ASSUME LifeOK, StopReturns, task_handle # NoDevice
    PROVE  at[task_handle] \in {"parse", "loop"}
<1>1. patience = 0 /\ task_handle \in Devices
  BY TimesAre DEF LifeOK, LifeTypeOK, StopReturns, WaitOver
<1>2. at[task_handle] \notin Timed /\ at[task_handle] # "submit"
  BY <1>1, TimesAre DEF LifeOK, LifeTypeOK, WaitsEnd, StopReturns
<1> QED BY <1>1, <1>2 DEF LifeOK, LifeTypeOK, HandleLives

LEMMA StopReturnsKeeps ==
    ASSUME LifeOK, StopReturns
    PROVE  LifeOK'
<1>1. LifeTypeOK'
  BY DEF LifeOK, LifeTypeOK, StopReturns
<1>2. StackKnows' /\ WaitsEnd' /\ HandleLives'
  BY DEF LifeOK, StackKnows, WaitsEnd, HandleLives, StopReturns
<1>3. Alone' /\ NoUseAfterFree'
  <2> SUFFICES ASSUME ~doubled, NEW i \in Devices, at[i] # "none"
      PROVE  task_handle = i /\ at[i] \in {"parse", "loop"} /\ stop
    BY DEF Alone, NoUseAfterFree, StopReturns
  <2>1. task_handle = i /\ task_handle # NoDevice
    BY LifeAssumption DEF LifeOK, Alone
  <2>2. stop
    BY DEF LifeOK, StackKnows, StopReturns
  <2> QED BY <2>1, <2>2, GivesUpOn
<1> QED BY <1>1, <1>2, <1>3 DEF LifeOK

LEMMA TickKeeps ==
    ASSUME LifeOK, Tick
    PROVE  LifeOK'
<1>1. LifeTypeOK'
  <2>1. patience' \in 0 .. STOP_TIME
    BY TimesAre DEF LifeOK, LifeTypeOK, Tick
  <2>2. left' \in [Devices -> Nat]
    BY DEF LifeOK, LifeTypeOK, Tick, Timed
  <2> QED BY <2>1, <2>2 DEF LifeOK, LifeTypeOK, Tick, slotVars
<1>2. StackKnows' /\ HandleLives' /\ Alone' /\ NoUseAfterFree'
  BY DEF LifeOK, StackKnows, HandleLives, Alone, NoUseAfterFree, Tick, slotVars
<1>3. WaitsEnd'
  <2> SUFFICES ASSUME NEW i \in Devices, at[i] \in Timed
      PROVE  left'[i] <= Limit(at[i]) /\ (stopping => left'[i] < patience')
    BY DEF WaitsEnd, Tick
  <2> QED BY TimesAre DEF LifeOK, LifeTypeOK, WaitsEnd, Tick
<1> QED BY <1>1, <1>2, <1>3 DEF LifeOK

\* Back from usbh_submit_urb.
LEMMA AfterKeeps ==
    ASSUME LifeOK, NEW i \in Devices, at[i] \in {"submit", "urb"},
           NEW s \in {"loop", "parse", "halt"}, NEW n \in Nat, After(i, s, n),
           s = "halt" => n <= HALT_TIME, busy' \subseteq Devices \union {NoDevice}
    PROVE  LifeOK'
<1>1. CASE stop
  BY <1>1, ExitKeeps DEF After
<1>2. CASE ~stop
  <2>1. ~stopping
    BY <1>2 DEF LifeOK, StackKnows
  <2>2. ~doubled => uses[i] = attached /\ attached # NoDevice
    BY DEF LifeOK, Alone, NoUseAfterFree
  <2>3. uses' = [uses EXCEPT ![i] = uses[i]] /\ uses[i] \in Devices \union {NoDevice}
    BY DEF LifeOK, LifeTypeOK, After
  <2>4. s \in Timed => n <= Limit(s)
    BY DEF Timed, Limit
  <2> QED BY <1>2, <2>1, <2>2, <2>3, <2>4, GotoKeeps DEF After, Timed
<1> QED BY <1>1, <1>2

\* A wait is over, and the thread goes on.
LEMMA LandKeeps ==
    ASSUME LifeOK, NEW i \in Devices, at[i] # "none", Goto(i, "loop", 0), UNCHANGED <<uses, busy>>
    PROVE  LifeOK'
<1>1. uses' = [uses EXCEPT ![i] = uses[i]] /\ uses[i] \in Devices \union {NoDevice}
      /\ busy' \subseteq Devices \union {NoDevice}
  BY DEF LifeOK, LifeTypeOK
<1> QED BY <1>1, GotoKeeps DEF Timed, InHand

LEMMA FillKeeps ==
    ASSUME LifeOK, NEW i \in Devices, Fill(i)
    PROVE  LifeOK'
<1>1. CASE stop \/ ~connected
  BY <1>1, ExitKeeps DEF Fill, LifeOK, LifeTypeOK
<1>2. CASE ~(stop \/ ~connected)
  <2>1. at[i] = "loop" /\ Goto(i, "submit", 0) /\ uses' = [uses EXCEPT ![i] = class]
        /\ busy' = busy \ {class}
    BY <1>2 DEF Fill
  <2>2. ~stopping
    BY <1>2 DEF LifeOK, StackKnows
  <2>3. ~doubled => class = attached /\ attached # NoDevice
    BY <1>2, <2>1 DEF LifeOK, NoUseAfterFree
  <2>4. class \in Devices \union {NoDevice} /\ busy' \subseteq Devices \union {NoDevice}
    BY <2>1 DEF LifeOK, LifeTypeOK
  <2> QED BY <2>1, <2>2, <2>3, <2>4, GotoKeeps DEF Timed
<1> QED BY <1>1, <1>2

LEMMA SubmitKeeps ==
    ASSUME LifeOK, NEW i \in Devices, Submit(i)
    PROVE  LifeOK'
<1>1. CASE uses[i] \in busy
  BY <1>1, TimesAre, AfterKeeps DEF Submit, LifeOK, LifeTypeOK
<1>2. CASE uses[i] \notin busy
  <2>1. at[i] = "submit" /\ Goto(i, "urb", URB_TIME) /\ UNCHANGED <<uses, busy>>
    BY <1>2 DEF Submit
  <2>2. uses' = [uses EXCEPT ![i] = uses[i]] /\ uses[i] \in Devices \union {NoDevice}
        /\ busy' \subseteq Devices \union {NoDevice}
    BY <2>1 DEF LifeOK, LifeTypeOK
  <2>3. URB_TIME \in Nat /\ URB_TIME <= Limit("urb") /\ (stopping => URB_TIME < patience)
    BY <2>1, TimesAre, LifeAssumption DEF LifeOK, WaitsEnd, Limit
  <2>4. ~doubled => uses[i] = attached /\ attached # NoDevice
    BY <2>1 DEF LifeOK, Alone, NoUseAfterFree
  <2> QED BY <2>1, <2>2, <2>3, <2>4, GotoKeeps DEF Timed
<1> QED BY <1>1, <1>2

LEMMA ThreadKeeps ==
    ASSUME LifeOK, NEW i \in Devices,
           LoopStep(i) \/ UrbEnds(i) \/ UrbReport(i) \/ HidParsed(i)
    PROVE  LifeOK'
<1>0. busy \subseteq Devices \union {NoDevice} /\ uses[i] \in Devices \union {NoDevice}
  BY DEF LifeOK, LifeTypeOK
<1>1. CASE Fill(i) \/ Submit(i)
  BY <1>1, FillKeeps, SubmitKeeps
<1>2. CASE UrbTimeout(i)
  <2>1. at[i] \in {"submit", "urb"} /\ After(i, "loop", 0) /\ busy' \subseteq Devices \union {NoDevice}
    BY <1>0, <1>2 DEF UrbTimeout
  <2> QED BY <2>1, AfterKeeps
<1>3. CASE UrbGone(i)
  BY <1>0, <1>3, ExitKeeps DEF UrbGone
<1>4. CASE UrbFails(i)
  BY <1>0, <1>4, TimesAre, AfterKeeps DEF UrbFails
<1>5. CASE UrbReport(i)
  BY <1>0, <1>5, AfterKeeps DEF UrbReport
<1>6. CASE Cleared(i) \/ HidParsed(i)
  BY <1>6, LandKeeps DEF Cleared, HidParsed
<1> QED BY <1>1, <1>2, <1>3, <1>4, <1>5, <1>6 DEF LoopStep, UrbEnds

LEMMA LifeInitially ==
    ASSUME LifeInit
    PROVE  LifeOK
<1>1. LifeTypeOK
  <2>1. 0 \in 0 .. STOP_TIME
    BY TimesAre
  <2> QED BY <2>1 DEF LifeInit, LifeTypeOK
<1>2. StackKnows /\ WaitsEnd /\ HandleLives /\ Alone /\ NoUseAfterFree
  BY DEF LifeInit, StackKnows, WaitsEnd, HandleLives, Alone, NoUseAfterFree, Timed
<1> QED BY <1>1, <1>2 DEF LifeOK

LEMMA LifeStill ==
    ASSUME LifeOK, UNCHANGED lifeVars
    PROVE  LifeOK'
BY DEF LifeOK, LifeTypeOK, StackKnows, WaitsEnd, HandleLives, Alone, NoUseAfterFree,
       lifeVars, stackVars, slotVars

\* What a step of the whole does to the slot.
LifeNext ==
    \/ \E i \in Devices :
          Attach(i) \/ LoopStep(i) \/ UrbEnds(i) \/ UrbReport(i) \/ HidParsed(i)
    \/ Detach \/ StopReturns \/ Tick

LEMMA NextIsLifeNext ==
    ASSUME [Next]_vars
    PROVE  LifeNext \/ UNCHANGED lifeVars
BY DEF Next, vars, LifeNext, Plug, ThreadStep, UrbStep, Arrive, Parse, Unplug, Unplugged, Clock, Menu

LEMMA LifeStep ==
    ASSUME LifeOK, [Next]_vars
    PROVE  LifeOK'
BY NextIsLifeNext, LifeStill, AttachKeeps, ThreadKeeps, DetachKeeps, StopReturnsKeeps, TickKeeps
   DEF LifeNext

LEMMA LifeAlways == Spec => []LifeOK
<1>1. Init => LifeOK
  BY LifeInitially DEF Init
<1>2. LifeOK /\ [Next]_vars => LifeOK'
  BY LifeStep
<1> QED BY <1>1, <1>2, PTL DEF Spec

(* As long as no device has found an older thread in the slot, no thread   *)
(* works with a device that has been freed, however long it waits for the  *)
(* link: when usbh_hid_stop returns, its thread is out or in hid_parse.    *)
THEOREM NeverUsedAfterFree == Spec => []NoUseAfterFree
<1>1. LifeOK => NoUseAfterFree
  BY DEF LifeOK
<1> QED BY <1>1, LifeAlways, PTL

-----------------------------------------------------------------------------
(* usbh_hid_stop gives up.                                                 *)

GivesUp == stopping /\ ~stopping' /\ task_handle # NoDevice

LEMMA GivesUpIsStopReturns ==
    ASSUME LifeOK, [Next]_vars, stopping, ~stopping'
    PROVE  StopReturns
BY NextIsLifeNext
   DEF LifeNext, Attach, Detach, Tick, LoopStep, UrbEnds, Fill, Submit, UrbTimeout, UrbGone, UrbFails,
       Cleared, UrbReport, HidParsed, After, Exit, Goto, Moves, lifeVars, stackVars

(* usbh_hid_stop outlasts every USB transfer, of however many threads: it  *)
(* gives up only on a thread that hid_parse has kept.                      *)
THEOREM GivesUpOnlyOnParse == Spec => GivesUpOnParse
<1>1. LifeOK /\ [Next]_vars =>
          [stopping /\ ~stopping' /\ task_handle # NoDevice => at[task_handle] \in {"parse", "loop"}]_lifeVars
  BY GivesUpIsStopReturns, GivesUpOn
<1> QED BY <1>1, LifeAlways, PTL DEF Spec, GivesUpOnParse

\* Without a device there is no thread.
Empty == ~doubled /\ (attached = NoDevice => \A i \in Devices : at[i] = "none")

LEMMA EmptyStep ==
    ASSUME LifeOK, Empty, LifeNext \/ UNCHANGED lifeVars, ~(StopReturns /\ task_handle # NoDevice)
    PROVE  Empty'
<1>1. CASE UNCHANGED lifeVars
  BY <1>1 DEF Empty, lifeVars, stackVars
<1>2. ASSUME NEW i \in Devices, Attach(i) PROVE Empty'
  BY <1>2, LifeAssumption DEF Empty, Attach
<1>3. ASSUME NEW i \in Devices, LoopStep(i) \/ UrbEnds(i) \/ UrbReport(i) \/ HidParsed(i) PROVE Empty'
  <2>1. at[i] # "none" /\ doubled' = doubled /\ attached' = attached
    BY <1>3 DEF LoopStep, UrbEnds, Fill, Submit, UrbTimeout, UrbGone, UrbFails, Cleared, UrbReport,
                HidParsed, After, Exit, Goto, Moves, stackVars
  <2> QED BY <2>1 DEF Empty
<1>4. CASE Detach \/ Tick
  BY <1>4 DEF Empty, Detach, Tick
<1>5. CASE StopReturns
  BY <1>5, LifeAssumption DEF LifeOK, Alone, Empty, StopReturns
<1> QED BY <1>1, <1>2, <1>3, <1>4, <1>5 DEF LifeNext

(* As long as usbh_hid_stop has never given up, a device that is attached  *)
(* finds the slot empty: the wait at the top of usbh_hid_run, which never  *)
(* takes place, is not missed, and no thread's stop is reset under it.     *)
THEOREM OneThreadAtATime ==
    Spec /\ [][~GivesUp]_vars =>
        [](~doubled /\ \A i, j \in Devices : at[i] # "none" /\ at[j] # "none" => i = j)
<1>1. Init => Empty
  BY DEF Init, LifeInit, Empty
<1>2. LifeOK /\ Empty /\ [Next]_vars /\ [~GivesUp]_vars => Empty'
  <2> SUFFICES ASSUME LifeOK, Empty, [Next]_vars, [~GivesUp]_vars PROVE Empty'
    OBVIOUS
  <2>1. CASE UNCHANGED vars
    BY <2>1 DEF Empty, vars, lifeVars, stackVars
  <2>2. CASE ~GivesUp
    <3>1. ~(StopReturns /\ task_handle # NoDevice)
      BY <2>2 DEF GivesUp, StopReturns
    <3> QED BY <3>1, NextIsLifeNext, EmptyStep
  <2> QED BY <2>1, <2>2
<1>3. LifeOK /\ Empty => ~doubled /\ \A i, j \in Devices : at[i] # "none" /\ at[j] # "none" => i = j
  BY DEF LifeOK, Alone, Empty
<1> QED BY <1>1, <1>2, <1>3, LifeAlways, PTL DEF Spec
=============================================================================
