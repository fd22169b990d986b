------------------------------ MODULE HidLife ------------------------------
(***************************************************************************)
(* One HID slot of src/mnano/usb_host.c: the USB stack (external) calls    *)
(* usbh_hid_run when a device is attached and usbh_hid_stop when it is     *)
(* detached, and frees the device when usbh_hid_stop returns; between the  *)
(* two a thread asks the device for reports.  USB transfers have a time    *)
(* limit, and so has usbh_hid_stop: time is counted, in units of 200 ms.   *)
(* hid_parse waits for the SPI link, which an access to the card may hold  *)
(* for seconds or for good (spi.c:168, sdc.c:90 and 128): it has none.     *)
(* Two threads that share a slot share its URB; the wait of each is taken  *)
(* to end as if it were alone.                                             *)
(***************************************************************************)
EXTENDS Naturals

CONSTANTS
    Devices,     \* the stack's instances, and the threads made for them
    NoDevice,
    URB_TIME,    \* HID_URB_MS
    HALT_TIME,   \* a control transfer and the pause after an error
    STOP_TIME    \* how long usbh_hid_stop waits for the thread

(* 1000 ms and 500 + 10 ms are less than 1200 ms.                          *)
ASSUME LifeAssumption ==
    /\ NoDevice \notin Devices
    /\ {URB_TIME, HALT_TIME, STOP_TIME} \subseteq Nat
    /\ URB_TIME < STOP_TIME /\ HALT_TIME < STOP_TIME

VARIABLES
    attached,    \* the instance the stack has allocated
    connected,   \* hport->connected
    stopping,    \* the stack is inside usbh_hid_stop
    patience,    \* what is left of its wait
    busy,        \* the instances whose URB keeps the error code of a timeout
    class, stop, state, task_handle,   \* the fields of hid_info
    at,          \* where each thread is
    uses,        \* the instance whose URB or control transfer it has in hand
    left,        \* what is left of its wait
    doubled      \* history: a device was attached before the last thread had gone

stackVars == <<attached, connected, stopping, patience>>
slotVars == <<class, stop, state, task_handle>>
lifeVars == <<stackVars, busy, slotVars, at, uses, left, doubled>>

Timed == {"urb", "halt"}

-----------------------------------------------------------------------------
(* The stack.                                                              *)

\* A name for the next instance and its thread: one that no thread has.
Unused == CHOOSE i \in Devices : at[i] = "none"

\* usbh_hid_run.  Its wait for an older thread never takes place, because
\* usbh_hid_stop always leaves the slot in STATE_NONE: a thread that is still
\* in hid_parse then finds stop cleared and the new device in class.
Attach(i) ==
    /\ attached = NoDevice /\ state = "none" /\ at[i] = "none" /\ i = Unused
    /\ attached' = i /\ connected' = TRUE /\ busy' = busy \ {i}
    /\ class' = i /\ stop' = FALSE
    /\ \/ state' = "failed" /\ UNCHANGED <<task_handle, at>>
       \/ state' = "running" /\ task_handle' = i /\ at' = [at EXCEPT ![i] = "loop"]
    /\ doubled' = (doubled \/ \E j \in Devices : at[j] # "none")
    /\ UNCHANGED <<stopping, patience, uses, left>>

\* The device is gone; usbh_hid_stop, up to its wait.
Detach ==
    /\ attached # NoDevice /\ ~stopping
    /\ connected' = FALSE /\ stopping' = TRUE
    /\ stop' = TRUE /\ patience' = STOP_TIME
    /\ UNCHANGED <<attached, busy, class, state, task_handle, at, uses, left, doubled>>

\* The wait of at most limit is over.
WaitOver(limit) == task_handle = NoDevice \/ patience + limit <= STOP_TIME

\* Mutant: a wait that is just longer than a control transfer.
StopReturnsEarly ==
    /\ stopping /\ WaitOver(3)
    /\ class' = NoDevice /\ state' = "none"
    /\ stopping' = FALSE /\ attached' = NoDevice
    /\ UNCHANGED <<connected, patience, busy, stop, task_handle, at, uses, left, doubled>>

\* usbh_hid_stop returns, its thread out or not, and the stack frees the
\* instance.
StopReturns ==
    /\ stopping /\ WaitOver(STOP_TIME)
    /\ class' = NoDevice /\ state' = "none"
    /\ stopping' = FALSE /\ attached' = NoDevice
    /\ UNCHANGED <<connected, patience, busy, stop, task_handle, at, uses, left, doubled>>

-----------------------------------------------------------------------------
(* usbh_hid_client_thread.                                                 *)

Moves(i, s, time) ==
    /\ at' = [at EXCEPT ![i] = s] /\ left' = [left EXCEPT ![i] = time]
    /\ UNCHANGED <<stackVars, class, stop, state, doubled>>

Exit(i) == Moves(i, "none", 0) /\ task_handle' = NoDevice
Goto(i, s, time) == Moves(i, s, time) /\ UNCHANGED task_handle

\* Mutant: the error code of the URB is not cleared.
FillUncleared(i) ==
    /\ at[i] = "loop"
    /\ \/ (stop \/ ~connected) /\ Exit(i) /\ UNCHANGED <<uses, busy>>
       \/ /\ ~(stop \/ ~connected) /\ Goto(i, "submit", 0)
          /\ uses' = [uses EXCEPT ![i] = class] /\ UNCHANGED busy

\* The top of the loop: the thread ends, or fills the URB of its device and
\* clears its error code.
Fill(i) ==
    /\ at[i] = "loop"
    /\ \/ (stop \/ ~connected) /\ Exit(i) /\ UNCHANGED <<uses, busy>>
       \/ /\ ~(stop \/ ~connected) /\ Goto(i, "submit", 0)
          /\ uses' = [uses EXCEPT ![i] = class] /\ busy' = busy \ {class}

\* Mutant: stop is looked at by the loop only.
AfterUnheeded(i, s, time) == Goto(i, s, time) /\ UNCHANGED uses

\* Back from usbh_submit_urb: nothing is touched once the device is gone.
After(i, s, time) ==
    /\ IF stop THEN Exit(i) ELSE Goto(i, s, time)
    /\ UNCHANGED uses

\* The stack refuses a URB with an error code; the thread makes its pause.
Submit(i) ==
    /\ at[i] = "submit"
    /\ IF uses[i] \in busy THEN After(i, "halt", HALT_TIME)
                           ELSE Goto(i, "urb", URB_TIME) /\ UNCHANGED uses
    /\ UNCHANGED busy

\* Silence: the URB times out, keeps an error code, and is submitted again.
UrbTimeout(i) ==
    /\ at[i] = "urb" /\ left[i] = 0 /\ After(i, "loop", 0)
    /\ busy' = busy \union {uses[i]}

\* The stack says that the device is gone.
UrbGone(i) == at[i] = "urb" /\ ~connected /\ Exit(i) /\ UNCHANGED <<uses, busy>>

\* An error: a halted endpoint is cleared, and a pause made.
UrbFails(i) == at[i] = "urb" /\ After(i, "halt", HALT_TIME) /\ UNCHANGED busy
Cleared(i) == at[i] = "halt" /\ Goto(i, "loop", 0) /\ UNCHANGED <<uses, busy>>

\* A report: hid_parse takes as long as the link is waited for.
UrbReport(i) == at[i] = "urb" /\ After(i, "parse", 0) /\ UNCHANGED busy
HidParsed(i) == at[i] = "parse" /\ Goto(i, "loop", 0) /\ UNCHANGED <<uses, busy>>

\* What the thread does by itself, and what the device and the stack do to it.
LoopStep(i) == Fill(i) \/ Submit(i) \/ UrbTimeout(i) \/ Cleared(i)
UrbEnds(i) == UrbGone(i) \/ UrbFails(i)

-----------------------------------------------------------------------------
(* Time: it does not pass while somebody has something to do that waits    *)
(* for nothing.                                                            *)

\* A wait that polls task_handle sees it clear at once.
Tick ==
    /\ stopping \/ \E i \in Devices : at[i] \in Timed
    /\ \A i \in Devices : at[i] \notin {"loop", "submit"} /\ (at[i] \in Timed => left[i] > 0)
    /\ stopping => patience > 0 /\ task_handle # NoDevice
    /\ left' = [i \in Devices |-> IF at[i] \in Timed THEN left[i] - 1 ELSE left[i]]
    /\ patience' = IF stopping THEN patience - 1 ELSE patience
    /\ UNCHANGED <<attached, connected, stopping, busy, slotVars, at, uses, doubled>>

LifeInit ==
    /\ attached = NoDevice /\ connected = FALSE /\ stopping = FALSE /\ patience = 0
    /\ busy = {}
    /\ class = NoDevice /\ stop = FALSE /\ state = "none" /\ task_handle = NoDevice
    /\ at = [i \in Devices |-> "none"]
    /\ uses = [i \in Devices |-> NoDevice] /\ left = [i \in Devices |-> 0]
    /\ doubled = FALSE

-----------------------------------------------------------------------------
LifeTypeOK ==
    /\ attached \in Devices \union {NoDevice} /\ class \in Devices \union {NoDevice}
    /\ task_handle \in Devices \union {NoDevice}
    /\ connected \in BOOLEAN /\ stopping \in BOOLEAN /\ stop \in BOOLEAN
    /\ state \in {"none", "running", "failed"}
    /\ patience \in 0 .. STOP_TIME
    /\ busy \subseteq Devices \union {NoDevice}
    /\ at \in [Devices -> {"none", "loop", "submit", "parse"} \union Timed]
    /\ uses \in [Devices -> Devices \union {NoDevice}]
    /\ left \in [Devices -> Nat]
    /\ doubled \in BOOLEAN

(* The stack frees the device the moment usbh_hid_stop returns, so the     *)
(* thread must be out of it by then (usb_host.c:607-608), or in hid_parse, *)
(* from which it ends without a look at the device: no thread works with   *)
(* one that has been freed, unless usbh_hid_run has found an older thread  *)
(* in the slot.                                                            *)
NoUseAfterFree ==
    ~doubled => \A i \in Devices :
        /\ at[i] \in {"submit", "urb", "halt"} => uses[i] = attached
        /\ at[i] = "loop" /\ ~stop => class = attached /\ class # NoDevice

(* usbh_hid_stop outlasts every USB transfer of its thread, whatever the   *)
(* transfer ends with and however many threads there are: it gives up only *)
(* on one that has stayed in hid_parse, which has no limit.                *)
GivesUpOnParse ==
    [][stopping /\ ~stopping' /\ task_handle # NoDevice => at[task_handle] \in {"parse", "loop"}]_lifeVars

(* No thread waits for one report for ever, and as long as it has the slot *)
(* to itself it comes, again and again, to a URB the stack accepts, to a   *)
(* report or to its end: the first idle second is not the last             *)
(* (usb_host.c:792-794), and no device is dead until a power cycle.        *)
KeepsAsking ==
    \A i \in Devices :
        /\ []<>(at[i] # "urb")
        /\ []<>(at[i] \in {"urb", "parse", "none"} \/ doubled)
=============================================================================
