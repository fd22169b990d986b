------------------------------ MODULE CoreLink ------------------------------
(***************************************************************************)
(* The path a core takes from the dock (the M0S running src/mnano) to      *)
(* stage 2 (the board's own BL616 running src/onboard): CMD 11 of the SPI  *)
(* link, the FPGA's 2 KB transmit FIFO and reply latch, the UART, and      *)
(* stage 2's receive ring.  The FPGA is in the middle of that path and is  *)
(* also what the path exists to replace, so it is modelled here too.       *)
(*                                                                         *)
(* A payload moves in pieces of PUSH = 512 bytes; a piece is one token on  *)
(* the wire, and so is each command byte.  Data is abstracted to which     *)
(* core a piece belongs to and its position in the transfer.               *)
(***************************************************************************)
EXTENDS Integers, Sequences, FiniteSets

CONSTANTS
    Cores,        \* the machines of the catalogue (ultima_cores)
    NoCore,       \* no machine: a blank FPGA, an empty flash, nothing staged
    Pieces,       \* [Cores -> length of the packed .ram payload in pieces]
    Sidecar,      \* [Cores -> state of the .bin.ram file on the card]
    Chunk,        \* pieces in CL_CHUNK
    FifoCap,      \* pieces the FPGA's transmit FIFO holds
    RingCap,      \* pieces stage 2's receive ring holds
    FlashCore,    \* the core at flash address 0, or NoCore
    SerialCores,  \* cores whose serial port drives the link's pin unless claimed
    MaxFaults     \* [Faults -> how often each fault may strike]

Faults == {"up", "down", "card", "jtag", "serial", "stall"}

ASSUME CoresAssumption == NoCore \notin Cores
ASSUME PayloadAssumption ==
    /\ Pieces \in [Cores -> Nat \ {0}]
    /\ Sidecar \in [Cores -> {"missing", "badContainer", "corrupt", "good"}]
ASSUME SizesAssumption ==
    Chunk \in Nat \ {0} /\ FifoCap \in Nat \ {0} /\ RingCap \in Nat \ {0}
ASSUME BoardAssumption ==
    FlashCore \in Cores \cup {NoCore} /\ SerialCores \subseteq Cores
ASSUME FaultsAssumption == MaxFaults \in [Faults -> Nat]

VARIABLES
    claimed,  \* CMD 11 claim: the link drives the UART's TX pin
    fifo,     \* the FPGA's transmit FIFO
    fresh,    \* STATUS_COUNT # 0: an answer has come since the last flush
    last,     \* the last answer byte that came back
    ring,     \* stage 2's receive ring
    down,     \* answers on their way from stage 2 to the FPGA
    fpga,     \* the core the FPGA is running; NoCore: blank
    booting,  \* the FPGA is configuring itself from its flash
    cold,     \* the FPGA's cold-boot interrupt is pending
    left      \* faults that may still strike

linkVars == <<claimed, fifo, fresh, last, ring, down>>
fpgaVars == <<fpga, booting, cold>>

-----------------------------------------------------------------------------
(* What travels.                                                           *)

Commands == {"P", "V", "B", "C", "L", "R", "S"}
Codes == {"OK", "VERSION51", "EABORT", "ELENGTH", "ECRC", "ENOSTAGE", "EVERSION", "junk"}

Token == {tok \in [kind : Commands \cup {"hdr", "data", "crc", "noise"},
                  core : Cores \cup {NoCore}, n : Nat] :
            tok.kind \in {"hdr", "data", "crc"} => tok.core \in Cores}

Cmd(x) == [kind |-> x, core |-> NoCore, n |-> 0]
Hdr(c) == [kind |-> "hdr", core |-> c, n |-> 0]
Data(c, i) == [kind |-> "data", core |-> c, n |-> i]
Crc(c) == [kind |-> "crc", core |-> c, n |-> 0]
Noise == [kind |-> "noise", core |-> NoCore, n |-> 0]

\* What stage 2's main loop can take a token for.  Payload and noise bytes
\* have every value, so they may be any command or none.
Heard(tok) == IF tok.kind \in Commands THEN {tok.kind} ELSE Commands \cup {"other"}

Running == fpga # NoCore
Spend(f) == left[f] > 0 /\ left' = [left EXCEPT ![f] = @ - 1]

-----------------------------------------------------------------------------
(* The FPGA's side of CMD 11 (mister/coreload.v, external) and the UART.   *)

HasRoom == Running /\ Len(fifo) < FifoCap

\* link_isr: a byte that finds the ring full is lost.
RingPut(tok) == ring' = IF Len(ring) < RingCap THEN Append(ring, tok) ELSE ring

\* The UART drains the FIFO into the ring; on a core whose serial port owns
\* the pin, nothing of it leaves unless the link has been claimed.
Transmit ==
    /\ Running /\ fifo # <<>>
    /\ fifo' = Tail(fifo)
    /\ IF claimed \/ fpga \notin SerialCores THEN RingPut(Head(fifo)) ELSE UNCHANGED ring
    /\ UNCHANGED <<claimed, fresh, last, down, fpgaVars, left>>

\* A byte is lost on the wire: a command goes missing, and a payload piece
\* goes missing or arrives short.
LoseUp ==
    /\ Running /\ fifo # <<>>
    /\ Spend("up")
    /\ fifo' = Tail(fifo)
    /\ \/ UNCHANGED ring
       \/ Head(fifo).kind = "data" /\ RingPut([Head(fifo) EXCEPT !.n = 0])
    /\ UNCHANGED <<claimed, fresh, last, down, fpgaVars>>

\* The running machine's own serial port says something while it owns the pin.
SerialNoise ==
    /\ fpga \in SerialCores /\ ~claimed
    /\ Spend("serial")
    /\ RingPut(Noise)
    /\ UNCHANGED <<claimed, fifo, fresh, last, down, fpgaVars>>

\* An answer reaches the FPGA's latch, or a blank FPGA.
Deliver ==
    /\ down # <<>>
    /\ down' = Tail(down)
    /\ IF Running THEN last' = Head(down) /\ fresh' = TRUE
                  ELSE UNCHANGED <<last, fresh>>
    /\ UNCHANGED <<claimed, fifo, ring, fpgaVars, left>>

LoseDown ==
    /\ down # <<>>
    /\ Spend("down")
    /\ down' = Tail(down)
    /\ UNCHANGED <<claimed, fifo, fresh, last, ring, fpgaVars>>

-----------------------------------------------------------------------------
(* The FPGA losing and gaining a configuration.  The bridge is part of the *)
(* configuration: it goes with the old one and is reset in the new one.    *)

BridgeReset == claimed' = FALSE /\ fifo' = <<>> /\ fresh' = FALSE /\ last' = "OK"

GoBlank == fpga' = NoCore /\ cold' = FALSE /\ BridgeReset

ComeUp(c) == fpga' = c /\ cold' = TRUE /\ BridgeReset

FlashBoot ==
    /\ booting /\ FlashCore # NoCore
    /\ ComeUp(FlashCore)
    /\ booting' = FALSE
    /\ UNCHANGED <<ring, down, left>>

LinkNext == Transmit \/ LoseUp \/ SerialNoise \/ Deliver \/ LoseDown \/ FlashBoot

LinkInit ==
    /\ claimed = FALSE /\ fifo = <<>> /\ fresh = FALSE /\ last = "OK"
    /\ ring = <<>> /\ down = <<>>
    /\ fpga \in Cores /\ booting = FALSE /\ cold = TRUE
    /\ left = MaxFaults

LinkTypeOK ==
    /\ claimed \in BOOLEAN /\ fresh \in BOOLEAN /\ last \in Codes
    /\ fifo \in Seq(Token) /\ ring \in Seq(Token) /\ down \in Seq(Codes)
    /\ fpga \in Cores \cup {NoCore} /\ booting \in BOOLEAN /\ cold \in BOOLEAN
    /\ left \in [Faults -> Nat]
=============================================================================
