----------------------------- MODULE CoreSwitch -----------------------------
(***************************************************************************)
(* A core switch as a whole: the dock, the path through the FPGA and stage *)
(* 2, stepping independently.  What each side can time out on depends on   *)
(* the other, so the two clocks of the protocol are tied together here.    *)
(***************************************************************************)
EXTENDS Stage2, Dock

vars == <<linkVars, fpgaVars, left, s2Vars, dockVars>>

-----------------------------------------------------------------------------
(* Time.  The protocol's waits are long against what they wait for, except *)
(* where a byte was lost, the card stalls, or the other side is gone.      *)

\* No byte is on its way.  One takes 5 us and a piece 2.6 ms (LINK_BAUD), so
\* a user, or an MCU that restarts, finds the wire like this.
WireQuiet ==
    /\ fifo = <<>> /\ down = <<>>
    /\ present /\ spc \in S2Waiting => ring = <<>>

\* Nothing is under way that will answer the dock: cl_reply runs out.  A
\* ping's 500 ms also run out while the FPGA is between two configurations;
\* the load's 30 s do not.
NobodyAnswers ==
    \/ WireQuiet /\ spc \in S2Waiting /\ (booting => FlashCore = NoCore)
    \/ ~Running /\ phase # "load"

\* Mutant: a byte timeout shorter than reading a chunk from the card.
DockSilentShort ==
    /\ fifo = <<>>
    /\ dpc \notin {"push", "open"}
    /\ dpc = "wait" => ~fresh /\ down = <<>>
    /\ UNCHANGED left

\* The dock says nothing for 3 s: it is not in the middle of a chunk, or the
\* card takes that long over one (sdc.c retries a stalled card for seconds).
DockSilent ==
    /\ fifo = <<>>
    /\ IF dpc = "read" /\ Running
          THEN Spend("stall")
          ELSE /\ dpc \notin {"push", "open"}
               /\ dpc = "wait" => ~fresh /\ down = <<>>
               /\ UNCHANGED left

\* 100 ms are enough for a dock that polls every millisecond to see a byte
\* that has arrived.
AnswerRead == ~(dpc = "wait" /\ fresh)

\* The FPGA will not be up within main's ten seconds.
StaysBlank == ~Running /\ spc \in S2Waiting /\ (booting => FlashCore = NoCore)

\* A user is slower than a pending cold-boot interrupt and the watchdog it
\* starts, and after a restart slower than BYTE_TIMEOUT_MS.  Sending
\* a whole payload is slower than the half second too.
Settled == ~wdg /\ (cold => hold)

\* The 300 ms of ultima_switch and the watchdog's half second are longer than
\* stage 2's 100 ms and the erase, or the reload when there is nothing to erase.
BlankByNow == dpc = "spin" => spc \notin {"loadDelay", "erase", "reload"}

-----------------------------------------------------------------------------
Listen == Ping \/ Caps \/ BeginLegacy \/ CmdStatus \/ NotOurs \/ CmdBegin \/ CmdLoad \/ CmdReload
Transfer == Header \/ Payload \/ CheckStaged \/ (ByteTimeout /\ DockSilent)
DriveFpga == (DelayOver /\ AnswerRead) \/ EraseSram \/ WrongIdcode \/ WriteSram \/ Reload

LinkStep == LinkNext /\ UNCHANGED <<s2Vars, dockVars>>
S2Step == (Listen \/ Transfer \/ DriveFpga) /\ UNCHANGED dockVars

Converse ==
    \/ \E r \in Codes :
          \/ OnPing(r) \/ OnCaps(r) \/ OnBegin(r) \/ OnChunk(r) \/ OnLoad(r)
          \/ OnCrc(r) /\ Settled
    \/ Push \/ NeverRoom \/ OpenSidecar \/ ReadChunk \/ CardFails
    \/ ReplyTimeout /\ NobodyAnswers

StartUp == (BootOk /\ WireQuiet /\ spc \notin Receiving) \/ (BootGiveUp /\ StaysBlank)

User == (\E c \in Cores : Switch(c)) \/ Remount

OsdStep == (Converse \/ StartUp) /\ UNCHANGED s2Vars
UserStep == User /\ WireQuiet /\ Settled /\ UNCHANGED s2Vars
IrqStep == ColdIrq /\ UNCHANGED s2Vars
WdgStep == Watchdog /\ BlankByNow /\ UNCHANGED s2Vars

Init == LinkInit /\ S2Init /\ DockInit

Next == LinkStep \/ S2Step \/ OsdStep \/ UserStep \/ IrqStep \/ WdgStep

Spec == Init /\ [][Next]_vars

\* The UART shifts, the two processors run and the watchdog expires; nobody
\* promises that the user acts or that a fault strikes.
Fairness ==
    /\ WF_vars(Transmit /\ UNCHANGED <<s2Vars, dockVars>>)
    /\ WF_vars(Deliver /\ UNCHANGED <<s2Vars, dockVars>>)
    /\ WF_vars(FlashBoot /\ UNCHANGED <<s2Vars, dockVars>>)
    /\ WF_vars(S2Step) /\ WF_vars(OsdStep) /\ WF_vars(IrqStep) /\ WF_vars(WdgStep)

FairSpec == Spec /\ Fairness

-----------------------------------------------------------------------------
TypeOK == LinkTypeOK /\ S2TypeOK /\ DockTypeOK

(* A core stage 2 calls staged, and one it is about to erase the FPGA for, *)
(* is a whole one that passed every check: cmd_begin's bookkeeping of      *)
(* staged_valid, packed_length and the payload never comes apart, whatever *)
(* the link, the card and the serial port do.                              *)
StagedIsWhole ==
    (staged_valid \/ spc \in Loading) =>
        /\ staged_valid /\ intact
        /\ hdr \in Cores /\ Sidecar[hdr] = "good"
        /\ packed = Pieces[hdr] /\ got = packed

(* The bookkeeping of cmd_begin that StagedIsWhole rests on: nothing is    *)
(* staged while a transfer runs, and a transfer that is intact so far is   *)
(* one of the announced length.                                            *)
Bookkept ==
    /\ spc \in Receiving => ~staged_valid
    /\ spc = "hdr" => got = 0
    /\ spc \in {"data", "tail"} /\ intact => hdr \in Cores /\ packed = Pieces[hdr]
    /\ spc = "data" => got < packed
    /\ spc = "tail" => got = packed

(* A blank FPGA is either booting from its flash, or in the hands of stage *)
(* 2, which is writing it or about to reload it.                           *)
BlankWhy ==
    /\ booting => ~Running
    /\ spc = "write" => ~Running /\ ~booting
    /\ ~Running /\ ~booting => spc \in {"write", "reload"}

IInv == TypeOK /\ StagedIsWhole /\ Bookkept /\ BlankWhy

(* The FPGA is never left without a core unless a whole core was staged    *)
(* first ("the full core must arrive before the FPGA is erased",           *)
(* coreload.c:212-213).                                                    *)
FullCoreFirst == [][fpga # NoCore /\ fpga' = NoCore => staged_valid]_vars

(* When the dock says L, stage 2 holds the very core the user picked: no   *)
(* stale answer of an earlier, broken attempt carries a switch past the    *)
(* check, and what boots is what was asked for.                            *)
LoadsWhatWasPicked == phase = "load" /\ dpc = "push" => staged_valid /\ hdr = target

(* The interrupt task is held for as long as the FPGA is blank, so that    *)
(* nothing read from a blank FPGA is taken for a request (spi.c:72-77).    *)
HoldThroughBlank == ~Running => hold \/ dpc = "boot"

(* As long as no answer is lost, a failed load and its fallback included.  *)
HeldWhileAnswered == left["down"] = MaxFaults["down"] => HoldThroughBlank

(* No image is open while the FPGA is blank: a sector request of a machine *)
(* that is being erased would never complete (ultima.c:193-196).           *)
NoImageWhileBlank == mounted => Running

(* A switch that ended in an error has given the serial port its pin back. *)
ReleasedAfterError == dpc = "idle" /\ res # "none" => ~claimed

(* The whole of it implements the promise of CorePromise, whatever faults  *)
(* strike.                                                                 *)
Promise == INSTANCE CorePromise WITH
    Whole <- {c \in Cores : Sidecar[c] = "good"},
    staged <- IF staged_valid THEN hdr ELSE NoCore,
    mode <- IF Running THEN "running" ELSE IF booting THEN "booting" ELSE "loading"

KeepsPromise == Promise!Spec

(* With a core in the flash the FPGA is never blank for good.              *)
NeverBlankForGood == ~Running ~> Running

(* The dock finds out which machine is running, however it got there.      *)
DockCatchesUp == Running /\ core # fpga ~> core = fpga \/ ~Running

(* Start-up comes to its end even when the FPGA never comes up, as it does *)
(* not after a failed load with nothing in the flash (main.c:296-318).     *)
StartUpEnds == dpc = "boot" ~> dpc = "idle"

(* A switch, once begun, ends: in the core that was picked or an error.    *)
SwitchEnds == dpc \notin {"boot", "idle"} ~> dpc = "idle"

(* With the FPGA up, no restart under way, stage 2 waiting for a command,  *)
(* a good sidecar and no fault from then on, a switch ends in the core     *)
(* that was picked, whatever went wrong in the attempts before it.         *)
Budgets == {b \in [Faults -> 0..2] : \A f \in Faults : b[f] <= MaxFaults[f]}

SwitchArrives ==
    \A c \in Cores, b \in Budgets :
        (/\ Running /\ Settled /\ present /\ spc = "main" /\ Sidecar[c] = "good"
         /\ target = c /\ phase = "ping" /\ dpc = "push" /\ left = b)
        ~> (fpga = c /\ core = c) \/ left # b
=============================================================================
