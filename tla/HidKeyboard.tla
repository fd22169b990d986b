----------------------------- MODULE HidKeyboard -----------------------------
(***************************************************************************)
(* A keyboard that comes and goes: the HID slot of HidLife, whose thread   *)
(* parses the reports as UkncKeyboard does.  last_report belongs to the    *)
(* slot and outlives a detach: the keys that were down then are released   *)
(* with the first report after the next attach.                            *)
(***************************************************************************)
EXTENDS HidLife, UkncKeyboard

CONSTANT Slot    \* the slot's keyboard in UkncKeyboard

ASSUME SlotAssumption == Threads = {Slot}

vars == <<lifeVars, kbdVars>>

\* Mutant: usbh_hid_run clears last_report.
PlugForgets(i) ==
    /\ Attach(i)
    /\ IF doubled' THEN Share
       ELSE /\ last' = [last EXCEPT ![Slot] = {}]
            /\ UNCHANGED <<now, todo, pc, key, books, osd_is_visible, byte, down, lost>>

\* usbh_hid_run: a device that finds the slot empty finds last_report there.
Plug(i) ==
    /\ Attach(i)
    /\ IF doubled' THEN Share ELSE UNCHANGED kbdVars

\* A report arrives.  The model of the keyboard ends where the books are lost;
\* that of the slot goes on.
Arrive(i) ==
    /\ UrbReport(i)
    /\ IF lost \/ stop THEN UNCHANGED kbdVars
                       ELSE \E r \in SUBSET Keys : Report(Slot, r)

\* Its changes are parsed one by one, each byte when the link is free.
Parse(i) ==
    /\ at[i] = "parse"
    /\ \/ ~lost /\ ParseStep(Slot) /\ UNCHANGED lifeVars
       \/ (lost \/ pc[Slot] = "idle") /\ HidParsed(i) /\ UNCHANGED kbdVars

Unplug == Detach /\ UNCHANGED kbdVars
Unplugged == StopReturns /\ UNCHANGED kbdVars
UrbStep(i) == UrbEnds(i) /\ UNCHANGED kbdVars
ThreadStep(i) == LoopStep(i) /\ UNCHANGED kbdVars
Clock == Tick /\ UNCHANGED kbdVars
Menu == ~lost /\ ToggleOsd /\ UNCHANGED lifeVars

Init == LifeInit /\ KbdInit

Next ==
    \/ \E i \in Devices : Plug(i) \/ ThreadStep(i) \/ UrbStep(i) \/ Arrive(i) \/ Parse(i)
    \/ Unplug \/ Unplugged \/ Clock \/ Menu

Spec == Init /\ [][Next]_vars

\* Time passes, however short the rounds of a thread are; usbh_hid_stop sees
\* its wait end, and a thread takes the steps that wait for nothing but time.
\* Whether a report ever arrives is the device's affair, whether the link comes
\* free that of its other users.
Fairness ==
    /\ SF_vars(Clock) /\ WF_vars(Unplugged)
    /\ \A i \in Devices : WF_vars(ThreadStep(i))

FairSpec == Spec /\ Fairness

\* Every variable keeps its type.
TypeOK == LifeTypeOK /\ KbdTypeOK
=============================================================================
