-------------------------- MODULE CoreSwitchProofs --------------------------
(***************************************************************************)
(* What holds of a core switch for every catalogue, payload length, FIFO   *)
(* and ring size, flash contents and fault budget.  The inductive          *)
(* invariant IInv ties the transfer's bookkeeping (Bookkept) and the       *)
(* FPGA's three blank states (BlankWhy) to the thread of stage 2.  Over    *)
(* follows the claim on the serial pin.  Conv, which holds while stage 2   *)
(* hears what the dock says (Clean), says what is under way between them   *)
(* at every point of a switch; AllHeard adds what the dock has heard.      *)
(***************************************************************************)
EXTENDS CoreSwitch, TLAPS

(* A fault that strikes leaves a budget: Spend keeps left a function to    *)
(* the naturals.                                                           *)
LEMMA SpendType ==
    ASSUME NEW f \in Faults, left \in [Faults -> Nat], Spend(f)
    PROVE  left' \in [Faults -> Nat]
BY DEF Spend

(* The tokens the dock puts on the wire are tokens.                        *)
LEMMA Tokens ==
    /\ \A x \in Commands : Cmd(x) \in Token
    /\ \A c \in Cores : Hdr(c) \in Token /\ Crc(c) \in Token
    /\ \A c \in Cores, i \in Nat : Data(c, i) \in Token
    /\ Noise \in Token
BY DEF Cmd, Hdr, Crc, Data, Noise, Token, Commands

(* Putting a token into the ring leaves a ring of tokens.                  *)
LEMMA RingPutType ==
    ASSUME ring \in Seq(Token), NEW tok \in Token, RingPut(tok)
    PROVE  ring' \in Seq(Token)
BY DEF RingPut

(* A new configuration of the FPGA starts with a well-typed bridge.        *)
LEMMA BridgeResetType ==
    ASSUME BridgeReset
    PROVE  claimed' \in BOOLEAN /\ fifo' \in Seq(Token) /\ fresh' \in BOOLEAN /\ last' \in Codes
<1>1. <<>> \in Seq(Token)
  OBVIOUS
<1>2. claimed' = FALSE /\ fresh' = FALSE /\ fifo' = <<>> /\ last' = "OK"
  BY DEF BridgeReset
<1>3. "OK" \in Codes
  BY DEF Codes
<1> QED BY <1>1, <1>2, <1>3

-----------------------------------------------------------------------------
LEMMA LinkType == LinkTypeOK /\ LinkNext => LinkTypeOK'
<1> SUFFICES ASSUME LinkTypeOK, LinkNext PROVE LinkTypeOK'
  OBVIOUS
<1> USE DEF LinkTypeOK, linkVars, fpgaVars
<1>h. fifo # <<>> => Head(fifo) \in Token /\ Tail(fifo) \in Seq(Token)
  OBVIOUS
<1>1. CASE Transmit
  <2>1. ring' \in Seq(Token)
    BY <1>1, <1>h, RingPutType DEF Transmit
  <2> QED BY <1>1, <1>h, <2>1 DEF Transmit
<1>2. CASE LoseUp
  <2>1. left' \in [Faults -> Nat]
    BY <1>2, SpendType DEF LoseUp, Faults
  <2>2. ring' \in Seq(Token)
    <3>1. [Head(fifo) EXCEPT !.n = 0] \in Token
      BY <1>2, <1>h DEF LoseUp, Token
    <3> QED BY <1>2, <3>1, RingPutType DEF LoseUp
  <2> QED BY <1>2, <1>h, <2>1, <2>2 DEF LoseUp
<1>3. CASE SerialNoise
  <2>1. left' \in [Faults -> Nat]
    BY <1>3, SpendType DEF SerialNoise, Faults
  <2>2. ring' \in Seq(Token)
    BY <1>3, RingPutType, Tokens DEF SerialNoise
  <2> QED BY <1>3, <2>1, <2>2 DEF SerialNoise
<1>4. CASE Deliver
  <2>1. down' \in Seq(Codes) /\ Head(down) \in Codes
    BY <1>4 DEF Deliver
  <2>2. last' \in Codes /\ fresh' \in BOOLEAN
    BY <1>4, <2>1 DEF Deliver
  <2> QED BY <1>4, <2>1, <2>2 DEF Deliver
<1>5. CASE LoseDown
  <2>1. left' \in [Faults -> Nat]
    BY <1>5, SpendType DEF LoseDown, Faults
  <2> QED BY <1>5, <2>1 DEF LoseDown
<1>6. CASE FlashBoot
  BY <1>6, BoardAssumption, BridgeResetType DEF FlashBoot, ComeUp
<1> QED BY <1>1, <1>2, <1>3, <1>4, <1>5, <1>6 DEF LinkNext

LEMMA S2Type == LinkTypeOK /\ S2TypeOK /\ S2Step => LinkTypeOK' /\ S2TypeOK'
<1> SUFFICES ASSUME LinkTypeOK, S2TypeOK, S2Step PROVE LinkTypeOK' /\ S2TypeOK'
  OBVIOUS
<1> USE DEF LinkTypeOK, S2TypeOK, linkVars, fpgaVars
<1>r. \A s : Take(s) => Head(ring) \in Token /\ ring' \in Seq(Token)
  BY DEF Take
<1>a. \A r \in Codes : Reply(r) => down' \in Seq(Codes)
  BY DEF Reply
<1>1. CASE Ping
  BY <1>1, <1>r, <1>a DEF Ping, Hear, Take, Codes
<1>2. CASE Caps
  BY <1>2, <1>r, <1>a DEF Caps, Hear, Take, Codes
<1>3. CASE BeginLegacy
  BY <1>3, <1>r, <1>a DEF BeginLegacy, Hear, Take, Codes
<1>4. CASE CmdStatus
  BY <1>4, <1>r, <1>a DEF CmdStatus, Hear, Take, Codes
<1>5. CASE NotOurs
  BY <1>5, <1>r DEF NotOurs, Hear, Take
<1>6. CASE CmdBegin
  BY <1>6, <1>r DEF CmdBegin, Invalidate, Hear, Take, S2Waiting, Receiving
<1>7. CASE CmdLoad
  BY <1>7, <1>r, <1>a DEF CmdLoad, Hear, Take, Codes, Loading
<1>8. CASE CmdReload
  BY <1>8, <1>r, <1>a DEF CmdReload, Hear, Take, Codes
<1>9. CASE Header
  <2>1. ring' \in Seq(Token) /\ Head(ring) \in Token
    BY <1>9, <1>r DEF Header
  <2>2. down' \in Seq(Codes)
    BY <1>9, <1>a DEF Header, Codes
  <2>3. packed' \in Nat /\ hdr' \in Cores \cup {NoCore}
    BY <1>9, <2>1, PayloadAssumption DEF Header, Token, Accepted, Invalidate
  <2> QED BY <1>9, <2>1, <2>2, <2>3 DEF Header, Take, S2Waiting, Receiving
<1>10. CASE Payload
  <2>1. ring' \in Seq(Token)
    BY <1>10, <1>r DEF Payload
  <2>2. down' \in Seq(Codes)
    BY <1>10, <1>a DEF Payload, Codes
  <2>3. got' \in Nat
    BY <1>10 DEF Payload
  <2>4. intact' \in BOOLEAN
    BY <1>10 DEF Payload
  <2> QED BY <1>10, <2>1, <2>2, <2>3, <2>4 DEF Payload, Take, S2Waiting, Receiving
<1>11. CASE CheckStaged
  <2>1. ring' \in Seq(Token)
    BY <1>11, <1>r DEF CheckStaged
  <2>2. down' \in Seq(Codes)
    BY <1>11, <1>a DEF CheckStaged, Codes
  <2>3. staged_valid' \in BOOLEAN /\ packed' \in Nat
    <3>1. CASE UNCHANGED <<spc, staged_valid, packed, down>>
      BY <3>1
    <3>2. CASE ~UNCHANGED <<spc, staged_valid, packed, down>>
      <4> DEFINE good == (intact /\ Head(ring) = Crc(hdr)) /\ Sidecar[hdr] = "good"
      <4>1. staged_valid' = good /\ (packed' = packed \/ packed' = 0)
        BY <1>11, <3>2 DEF CheckStaged, Invalidate
      <4>2. good \in BOOLEAN
        OBVIOUS
      <4> QED BY <4>1, <4>2
    <3> QED BY <3>1, <3>2
  <2> QED BY <1>11, <2>1, <2>2, <2>3 DEF CheckStaged, Take, S2Waiting, Receiving
<1>12. CASE ByteTimeout /\ DockSilent
  <2>1. left' \in [Faults -> Nat]
    BY <1>12, SpendType DEF DockSilent, Faults
  <2> QED BY <1>12, <2>1, <1>a DEF ByteTimeout, Invalidate, Codes, S2Waiting
<1>13. CASE DelayOver
  BY <1>13 DEF DelayOver, Loading
<1>14. CASE EraseSram
  <2>1. left' \in [Faults -> Nat]
    BY <1>14, SpendType DEF EraseSram, Faults
  <2> QED BY <1>14, <2>1, BridgeResetType DEF EraseSram, GoBlank, Loading
<1>15. CASE WrongIdcode
  <2>1. left' \in [Faults -> Nat]
    BY <1>15, SpendType DEF WrongIdcode, Faults
  <2> QED BY <1>15, <2>1 DEF WrongIdcode
<1>16. CASE WriteSram
  <2>1. left' \in [Faults -> Nat]
    BY <1>16, SpendType DEF WriteSram, Faults
  <2> QED BY <1>16, <2>1, BridgeResetType DEF WriteSram, ComeUp, S2Waiting
<1>17. CASE Reload
  BY <1>17, BridgeResetType DEF Reload, GoBlank, S2Waiting
<1> QED BY <1>1, <1>2, <1>3, <1>4, <1>5, <1>6, <1>7, <1>8, <1>9, <1>10, <1>11,
           <1>12, <1>13, <1>14, <1>15, <1>16, <1>17
        DEF S2Step, Listen, Transfer, DriveFpga

-----------------------------------------------------------------------------
(* What saying something and giving up leave behind, in types.             *)
LEMMA SayType ==
    ASSUME NEW p \in Phases, NEW toks \in Seq(Token), Say(p, toks)
    PROVE  phase' \in Phases /\ out' \in Seq(Token) /\ dpc' = "push" /\ fresh' \in BOOLEAN
BY DEF Say

LEMMA AbandonType ==
    ASSUME LinkTypeOK, NEW r \in Results, Abandon(r)
    PROVE  /\ dpc' = "idle" /\ phase' \in Phases /\ out' \in Seq(Token)
           /\ res' \in Results /\ claimed' \in BOOLEAN /\ fresh' \in BOOLEAN
<1>1. <<>> \in Seq(Token) /\ "none" \in Phases
  BY DEF Phases
<1> QED BY <1>1 DEF Abandon, LinkTypeOK

LEMMA SpinType ==
    ASSUME LinkTypeOK, DockTypeOK, Spin
    PROVE  /\ dpc' = "spin" /\ phase' \in Phases /\ out' \in Seq(Token) /\ wdg' \in BOOLEAN
           /\ res' \in Results /\ claimed' \in BOOLEAN /\ fresh' \in BOOLEAN /\ hold' \in BOOLEAN
<1>1. <<>> \in Seq(Token)
  OBVIOUS
<1> QED BY <1>1 DEF Spin, LinkTypeOK, DockTypeOK

LEMMA ConverseType == LinkTypeOK /\ DockTypeOK /\ Converse => LinkTypeOK' /\ DockTypeOK'
<1> SUFFICES ASSUME LinkTypeOK, DockTypeOK, Converse PROVE LinkTypeOK' /\ DockTypeOK'
  OBVIOUS
<1> USE DEF LinkTypeOK, DockTypeOK, linkVars, fpgaVars, OsdUnchanged
<1>1. ASSUME NEW r \in Codes, OnPing(r) PROVE LinkTypeOK' /\ DockTypeOK'
  <2>1. <<Cmd("V")>> \in Seq(Token) /\ "caps" \in Phases /\ "LINK" \in Results
    BY Tokens DEF Phases, Results, Commands
  <2>2. CASE r = "OK"
    BY <1>1, <2>1, <2>2, SayType DEF OnPing, Answer
  <2>3. CASE r # "OK"
    BY <1>1, <2>1, <2>3, AbandonType DEF OnPing, Answer
  <2> QED BY <2>2, <2>3
<1>2. ASSUME NEW r \in Codes, OnCaps(r) PROVE LinkTypeOK' /\ DockTypeOK'
  <2>2. CASE r = "VERSION51"
    BY <1>2, <2>2 DEF OnCaps, Answer
  <2>3. CASE r # "VERSION51"
    BY <1>2, <2>3, AbandonType DEF OnCaps, Answer, Results
  <2> QED BY <2>2, <2>3
<1>3. ASSUME NEW r \in Codes, OnBegin(r) PROVE LinkTypeOK' /\ DockTypeOK'
  <2>2. CASE r = "OK"
    BY <1>3, <2>2 DEF OnBegin, Answer
  <2>3. CASE r # "OK"
    BY <1>3, <2>3, AbandonType DEF OnBegin, Answer, Results
  <2> QED BY <2>2, <2>3
<1>4. ASSUME NEW r \in Codes, OnChunk(r) PROVE LinkTypeOK' /\ DockTypeOK'
  <2>1. target \in Cores
    BY <1>4 DEF OnChunk, Answer
  <2>2. sent + Want \in Nat
    BY <2>1, PayloadAssumption, SizesAssumption DEF Want
  <2>3. <<Crc(target)>> \in Seq(Token) /\ "crc" \in Phases /\ "REFUSED" \in Results
    BY <2>1, Tokens DEF Phases, Results
  <2>4. CASE r = "OK" /\ sent' < Pieces[target]
    BY <1>4, <2>1, <2>2, <2>4 DEF OnChunk, Answer
  <2>5. CASE r = "OK" /\ ~(sent' < Pieces[target])
    BY <1>4, <2>1, <2>2, <2>3, <2>5, SayType DEF OnChunk, Answer
  <2>6. CASE r # "OK"
    BY <1>4, <2>1, <2>3, <2>6, AbandonType DEF OnChunk, Answer
  <2> QED BY <2>4, <2>5, <2>6
<1>5. ASSUME NEW r \in Codes, OnCrc(r) PROVE LinkTypeOK' /\ DockTypeOK'
  <2>1. <<Cmd("L")>> \in Seq(Token) /\ "load" \in Phases /\ "REFUSED" \in Results
    BY Tokens DEF Phases, Results, Commands
  <2>2. CASE r = "OK"
    BY <1>5, <2>1, <2>2, SayType DEF OnCrc, Answer
  <2>3. CASE r # "OK"
    BY <1>5, <2>1, <2>3, AbandonType DEF OnCrc, Answer
  <2> QED BY <2>2, <2>3
<1>6. ASSUME NEW r \in Codes, OnLoad(r) PROVE LinkTypeOK' /\ DockTypeOK'
  <2>1. target \in Cores
    BY <1>6 DEF OnLoad, Answer
  <2>2. CASE r = "OK"
    BY <1>6, <2>1, <2>2, SpinType DEF OnLoad, Answer
  <2>3. CASE r # "OK"
    BY <1>6, <2>1, <2>3, AbandonType DEF OnLoad, Answer, Results
  <2> QED BY <2>2, <2>3
<1>7. CASE Push
  <2>1. out # <<>> /\ Head(out) \in Token /\ out' \in Seq(Token) /\ target \in Cores
    BY <1>7 DEF Push
  <2>2. fifo' \in Seq(Token)
    <3>1. fifo' = Append(fifo, Head(out)) \/ fifo' = fifo
      BY <1>7 DEF Push
    <3>2. fifo \in Seq(Token) /\ Append(fifo, Head(out)) \in Seq(Token)
      BY <2>1
    <3> QED BY <3>1, <3>2
  <2> QED BY <1>7, <2>1, <2>2 DEF Push
<1>8. CASE NeverRoom
  <2>1. target \in Cores
    BY <1>8 DEF NeverRoom
  <2>2. CASE phase = "load"
    BY <1>8, <2>1, <2>2, SpinType DEF NeverRoom
  <2>3. CASE phase # "load"
    BY <1>8, <2>1, <2>3, AbandonType DEF NeverRoom, Results
  <2> QED BY <2>2, <2>3
<1>9. CASE OpenSidecar
  <2>1. target \in Cores
    BY <1>9 DEF OpenSidecar
  <2>2. <<Cmd("C"), Hdr(target)>> \in Seq(Token) /\ "begin" \in Phases
    BY <2>1, Tokens DEF Phases, Commands
  <2>3. \/ Abandon("RAMFILE") \/ Abandon("NOTBIT")
        \/ Say("begin", <<Cmd("C"), Hdr(target)>>) /\ UNCHANGED <<claimed, res>>
    BY <1>9 DEF OpenSidecar
  <2>4. CASE Say("begin", <<Cmd("C"), Hdr(target)>>) /\ UNCHANGED <<claimed, res>>
    BY <1>9, <2>1, <2>2, <2>4, SayType DEF OpenSidecar
  <2>5. CASE Abandon("RAMFILE") \/ Abandon("NOTBIT")
    BY <1>9, <2>1, <2>5, AbandonType DEF OpenSidecar, Results
  <2> QED BY <2>3, <2>4, <2>5
<1>10. CASE ReadChunk
  <2> DEFINE toks == [i \in 1..Want |-> Data(target, sent + i)]
  <2>1. target \in Cores /\ Want \in Nat
    BY <1>10, PayloadAssumption, SizesAssumption DEF ReadChunk, Want
  <2>2. \A i \in 1..Want : Data(target, sent + i) \in Token
    BY <2>1, Tokens
  <2>3. toks \in Seq(Token) /\ "chunk" \in Phases
    <3>1. toks \in [1..Want -> Token]
      BY <2>2
    <3> HIDE DEF toks
    <3>2. toks \in Seq(Token)
      BY <2>1, <3>1
    <3> QED BY <3>2 DEF Phases
  <2>4. Say("chunk", toks)
    BY <1>10 DEF ReadChunk
  <2> HIDE DEF toks
  <2>5. phase' \in Phases /\ out' \in Seq(Token) /\ dpc' = "push" /\ fresh' \in BOOLEAN
    BY <2>3, <2>4, SayType
  <2> QED BY <1>10, <2>1, <2>5 DEF ReadChunk
<1>11. CASE CardFails
  <2>1. left' \in [Faults -> Nat]
    BY <1>11, SpendType DEF CardFails, Faults
  <2> QED BY <1>11, <2>1, AbandonType DEF CardFails, Results
<1>12. CASE ReplyTimeout
  <2>1. target \in Cores
    BY <1>12 DEF ReplyTimeout
  <2>2. CASE phase = "load"
    BY <1>12, <2>1, <2>2, SpinType DEF ReplyTimeout
  <2>3. CASE phase # "load"
    <3>1. Abandon("LINK") \/ Abandon("VERSION") \/ Abandon("TIMEOUT")
      BY <1>12, <2>3 DEF ReplyTimeout
    <3> QED BY <1>12, <2>1, <2>3, <3>1, AbandonType DEF ReplyTimeout, Results
  <2> QED BY <2>2, <2>3
<1> QED BY <1>1, <1>2, <1>3, <1>4, <1>5, <1>6, <1>7, <1>8, <1>9, <1>10, <1>11, <1>12 DEF Converse

LEMMA OthersType ==
    LinkTypeOK /\ DockTypeOK /\ (StartUp \/ User \/ ColdIrq \/ Watchdog)
        => LinkTypeOK' /\ DockTypeOK'
<1> SUFFICES ASSUME LinkTypeOK, DockTypeOK, StartUp \/ User \/ ColdIrq \/ Watchdog
             PROVE  LinkTypeOK' /\ DockTypeOK'
  OBVIOUS
<1> USE DEF LinkTypeOK, DockTypeOK, linkVars, fpgaVars
<1>1. CASE BootOk
  BY <1>1 DEF BootOk, Running
<1>2. CASE BootGiveUp
  BY <1>2 DEF BootGiveUp
<1>3. ASSUME NEW c \in Cores, Switch(c) PROVE LinkTypeOK' /\ DockTypeOK'
  <2>1. <<Cmd("P")>> \in Seq(Token) /\ "ping" \in Phases
    BY Tokens DEF Phases, Commands
  <2>2. claimed' \in BOOLEAN /\ res' \in Results
    BY <1>3 DEF Switch, Running, Results
  <2>3. phase' \in Phases /\ out' \in Seq(Token) /\ dpc' = "push" /\ fresh' \in BOOLEAN
    BY <1>3, <2>1, SayType DEF Switch
  <2> QED BY <1>3, <2>2, <2>3 DEF Switch, OsdUnchanged
<1>4. CASE Remount
  BY <1>4 DEF Remount
<1>5. CASE ColdIrq
  BY <1>5 DEF ColdIrq
<1>6. CASE Watchdog
  <2>1. <<>> \in Seq(Token) /\ "none" \in Phases /\ "none" \in Results
    BY DEF Phases, Results
  <2> QED BY <1>6, <2>1 DEF Watchdog
<1> QED BY <1>1, <1>2, <1>3, <1>4, <1>5, <1>6 DEF StartUp, User

(* The state stays in its types whatever faults strike.                    *)
LEMMA TypeStep == TypeOK /\ [Next]_vars => TypeOK'
<1> SUFFICES ASSUME TypeOK, [Next]_vars PROVE TypeOK'
  OBVIOUS
<1> USE DEF TypeOK
<1>1. CASE LinkStep
  BY <1>1, LinkType DEF LinkStep, S2TypeOK, DockTypeOK, s2Vars, dockVars
<1>2. CASE S2Step
  BY <1>2, S2Type DEF S2Step, DockTypeOK, dockVars
<1>3. CASE OsdStep
  BY <1>3, ConverseType, OthersType DEF OsdStep, S2TypeOK, s2Vars
<1>4. CASE UserStep \/ IrqStep \/ WdgStep
  BY <1>4, OthersType DEF UserStep, IrqStep, WdgStep, S2TypeOK, s2Vars
<1>5. CASE UNCHANGED vars
  BY <1>5 DEF vars, linkVars, fpgaVars, s2Vars, dockVars, LinkTypeOK, S2TypeOK, DockTypeOK
<1> QED BY <1>1, <1>2, <1>3, <1>4, <1>5 DEF Next

LEMMA TypeInit == Init => TypeOK
<1> SUFFICES ASSUME Init PROVE TypeOK
  OBVIOUS
<1>1. <<>> \in Seq(Token) /\ <<>> \in Seq(Codes) /\ "OK" \in Codes
  BY DEF Codes
<1>2. LinkTypeOK
  BY <1>1, FaultsAssumption DEF Init, LinkInit, LinkTypeOK
<1>3. S2TypeOK
  BY DEF Init, S2Init, S2TypeOK, S2Waiting
<1>4. DockTypeOK
  BY <1>1 DEF Init, DockInit, DockTypeOK, Phases, Results
<1> QED BY <1>2, <1>3, <1>4 DEF TypeOK

(* Every variable of the switch keeps its type, for every catalogue,       *)
(* payload length, FIFO and ring size and fault budget.                    *)
THEOREM TypeCorrect == Spec => []TypeOK
<1>1. Init => TypeOK
  BY TypeInit
<1>2. TypeOK /\ [Next]_vars => TypeOK'
  BY TypeStep
<1> QED BY <1>1, <1>2, PTL DEF Spec

-----------------------------------------------------------------------------
(* Stage 2's steps keep the transfer's books.                              *)
LEMMA BooksStep == TypeOK /\ StagedIsWhole /\ Bookkept /\ S2Step => StagedIsWhole' /\ Bookkept'
<1> SUFFICES ASSUME TypeOK, StagedIsWhole, Bookkept, S2Step PROVE StagedIsWhole' /\ Bookkept'
  OBVIOUS
<1> USE DEF StagedIsWhole, Bookkept, Receiving, Loading
<1>t. S2TypeOK /\ LinkTypeOK
  BY DEF TypeOK
<1>1. CASE Ping \/ Caps \/ BeginLegacy \/ CmdStatus \/ NotOurs
  BY <1>1 DEF Ping, Caps, BeginLegacy, CmdStatus, NotOurs, Hear, Take
<1>2. CASE CmdBegin
  BY <1>2 DEF CmdBegin, Hear, Take
<1>3. CASE CmdLoad \/ CmdReload
  BY <1>3 DEF CmdLoad, CmdReload, Hear, Take
<1>4. CASE Header
  <2>1. spc = "hdr" /\ ~staged_valid /\ got = 0 /\ Head(ring) \in Token
    BY <1>4, <1>t DEF Header, Take, LinkTypeOK
  <2>2. \A c \in Cores : Pieces[c] \in Nat /\ Pieces[c] > 0
    BY PayloadAssumption
  <2> DEFINE tok == Head(ring)
  <2>3. CASE intact /\ tok.kind = "hdr"
    <3>1. tok.core \in Cores
      BY <2>1, <2>3 DEF Token
    <3> QED BY <1>4, <2>1, <2>2, <2>3, <3>1 DEF Header
  <2>4. CASE ~(intact /\ tok.kind = "hdr")
    BY <1>4, <2>1, <2>2, <2>4 DEF Header, Accepted
  <2> QED BY <2>3, <2>4
<1>5. CASE Payload
  <2>1. spc = "data" /\ ~staged_valid /\ got < packed /\ got \in Nat /\ packed \in Nat
    BY <1>5, <1>t DEF Payload, Take, S2TypeOK
  <2>2. (got' = got \/ got' = got + 1) /\ (intact' => intact)
    BY <1>5 DEF Payload
  <2>3. staged_valid' = staged_valid /\ packed' = packed /\ hdr' = hdr
    BY <1>5 DEF Payload
  <2>4. spc' = IF got' = packed THEN "tail" ELSE "data"
    BY <1>5 DEF Payload
  <2> QED BY <2>1, <2>2, <2>3, <2>4
<1>6. CASE CheckStaged
  <2>1. spc = "tail" /\ ~staged_valid /\ got = packed
    BY <1>6 DEF CheckStaged, Take
  <2> DEFINE exact == intact /\ Head(ring) = Crc(hdr)
             good == exact /\ Sidecar[hdr] = "good"
  <2>2. \/ ~exact /\ intact' = FALSE /\ UNCHANGED <<spc, staged_valid, packed>>
        \/ /\ spc' = "main" /\ staged_valid' = good /\ intact' = intact
           /\ good => packed' = packed
    BY <1>6 DEF CheckStaged, Invalidate
  <2>3. hdr' = hdr /\ got' = got
    BY <1>6 DEF CheckStaged
  <2>4. CASE ~exact /\ intact' = FALSE /\ UNCHANGED <<spc, staged_valid, packed>>
    BY <2>1, <2>3, <2>4
  <2>5. CASE /\ spc' = "main" /\ staged_valid' = good /\ intact' = intact
             /\ good => packed' = packed
    <3>1. CASE good
      <4>1. hdr \in Cores /\ packed = Pieces[hdr] /\ intact
        BY <2>1, <3>1
      <4> HIDE DEF good
      <4>2. staged_valid' /\ spc' = "main" /\ intact'
        BY <2>5, <3>1, <4>1
      <4>3. hdr' \in Cores /\ Sidecar[hdr'] = "good"
        BY <2>3, <3>1, <4>1 DEF good
      <4>4. packed' = Pieces[hdr'] /\ got' = packed'
        BY <2>1, <2>3, <2>5, <3>1, <4>1
      <4> QED BY <4>2, <4>3, <4>4
    <3>2. CASE ~good
      <4> HIDE DEF good
      <4>1. ~staged_valid' /\ spc' = "main"
        BY <2>5, <3>2
      <4> QED BY <4>1
    <3> QED BY <3>1, <3>2
  <2> HIDE DEF exact, good
  <2> QED BY <2>2, <2>4, <2>5
<1>7. CASE ByteTimeout
  BY <1>7 DEF ByteTimeout
<1>8. CASE DelayOver \/ EraseSram \/ WrongIdcode \/ WriteSram \/ Reload
  BY <1>8 DEF DelayOver, EraseSram, WrongIdcode, WriteSram, Reload
<1> QED BY <1>1, <1>2, <1>3, <1>4, <1>5, <1>6, <1>7, <1>8 DEF S2Step, Listen, Transfer, DriveFpga

(* Every step accounts for a blank FPGA.                                   *)
LEMMA BlankStep == TypeOK /\ StagedIsWhole /\ BlankWhy /\ [Next]_vars => BlankWhy'
<1> SUFFICES ASSUME TypeOK, StagedIsWhole, BlankWhy, [Next]_vars PROVE BlankWhy'
  OBVIOUS
<1> USE DEF BlankWhy, Running, fpgaVars, linkVars
<1>b. FlashCore # NoCore => FlashCore \in Cores
  BY BoardAssumption
<1>1. CASE LinkStep
  <2>1. CASE FlashBoot
    BY <1>1, <2>1, <1>b DEF LinkStep, FlashBoot, ComeUp, s2Vars
  <2>2. CASE Transmit \/ LoseUp \/ SerialNoise \/ Deliver \/ LoseDown
    BY <1>1, <2>2 DEF LinkStep, s2Vars, Transmit, LoseUp, SerialNoise, Deliver, LoseDown
  <2> QED BY <1>1, <2>1, <2>2 DEF LinkStep, LinkNext
<1>2. CASE S2Step
  <2>1. CASE Listen
    BY <2>1 DEF Listen, Ping, Caps, BeginLegacy, CmdStatus, NotOurs, CmdBegin, CmdLoad, CmdReload,
                Hear, Take
  <2>2. CASE Header \/ Payload \/ CheckStaged
    BY <2>2 DEF Header, Payload, CheckStaged, Take
  <2>3. CASE ByteTimeout
    BY <2>3 DEF ByteTimeout, Receiving
  <2>4. CASE DelayOver \/ WrongIdcode
    BY <2>4 DEF DelayOver, WrongIdcode
  <2>5. CASE EraseSram
    BY <2>5 DEF EraseSram, GoBlank
  <2>6. CASE WriteSram
    <3>1. hdr \in Cores
      BY <2>6 DEF WriteSram, StagedIsWhole, Loading
    <3> QED BY <2>6, <3>1, CoresAssumption DEF WriteSram, ComeUp
  <2>7. CASE Reload
    BY <2>7 DEF Reload, GoBlank
  <2> QED BY <1>2, <2>1, <2>2, <2>3, <2>4, <2>5, <2>6, <2>7 DEF S2Step, Transfer, DriveFpga
<1>3. CASE OsdStep \/ UserStep \/ IrqStep \/ WdgStep
  <2>1. UNCHANGED <<fpga, booting>>
    BY <1>3 DEF OsdStep, UserStep, IrqStep, WdgStep, Converse, StartUp, User, OnPing, OnCaps,
                OnBegin, OnChunk, OnCrc, OnLoad, Push, NeverRoom, OpenSidecar, ReadChunk, CardFails,
                ReplyTimeout, BootOk, BootGiveUp, Switch, Remount, ColdIrq, Watchdog, OsdUnchanged
  <2> QED BY <1>3, <2>1 DEF OsdStep, UserStep, IrqStep, WdgStep, s2Vars
<1>4. CASE UNCHANGED vars
  BY <1>4 DEF vars, s2Vars
<1> QED BY <1>1, <1>2, <1>3, <1>4 DEF Next

LEMMA IInvInit == Init => IInv
<1> SUFFICES ASSUME Init PROVE IInv
  OBVIOUS
<1>1. TypeOK
  BY TypeInit
<1>2. StagedIsWhole /\ Bookkept
  BY DEF Init, S2Init, StagedIsWhole, Bookkept, Receiving, Loading
<1>3. BlankWhy
  BY CoresAssumption DEF Init, S2Init, LinkInit, BlankWhy, Running
<1> QED BY <1>1, <1>2, <1>3 DEF IInv

LEMMA IInvStep == IInv /\ [Next]_vars => IInv'
<1> SUFFICES ASSUME IInv, [Next]_vars PROVE IInv'
  OBVIOUS
<1> USE DEF IInv
<1>1. TypeOK' /\ BlankWhy'
  BY TypeStep, BlankStep
<1>2. CASE S2Step
  BY <1>1, <1>2, BooksStep
<1>3. CASE UNCHANGED s2Vars
  BY <1>1, <1>3 DEF s2Vars, StagedIsWhole, Bookkept
<1>4. S2Step \/ UNCHANGED s2Vars
  BY DEF Next, vars, LinkStep, OsdStep, UserStep, IrqStep, WdgStep
<1> QED BY <1>2, <1>3, <1>4

LEMMA IInvCorrect == Spec => []IInv
BY IInvInit, IInvStep, PTL DEF Spec

(* The core stage 2 calls staged, and the one it erases the FPGA for, is   *)
(* whole and good, for every number of cores and faults of every kind.     *)
THEOREM StagedCorrect == Spec => []StagedIsWhole
<1>1. IInv => StagedIsWhole
  BY DEF IInv
<1> QED BY <1>1, IInvCorrect, PTL

-----------------------------------------------------------------------------
(* The refinement: CorePromise's state as a function of this one's.        *)

PStaged == IF staged_valid THEN hdr ELSE NoCore
PMode == IF Running THEN "running" ELSE IF booting THEN "booting" ELSE "loading"
PVars == <<fpga, PStaged, PMode>>

LEMMA PromiseInit == Init => Promise!Init
<1> SUFFICES ASSUME Init PROVE Promise!Init
  OBVIOUS
<1>1. fpga \in Cores /\ ~staged_valid
  BY DEF Init, LinkInit, S2Init
<1> QED BY <1>1, CoresAssumption DEF Promise!Init, Running

(* The link boots the flash's core, or does not touch the FPGA.            *)
LEMMA LinkPromise == IInv /\ LinkStep => Promise!Next \/ UNCHANGED PVars
<1> SUFFICES ASSUME IInv, LinkStep PROVE Promise!Next \/ UNCHANGED PVars
  OBVIOUS
<1> USE DEF PVars, PStaged, PMode, Running
<1>0. UNCHANGED <<staged_valid, hdr>>
  BY DEF LinkStep, s2Vars
<1>1. CASE FlashBoot
  <2>1. ~Running /\ booting /\ FlashCore # NoCore /\ fpga' = FlashCore
    BY <1>1 DEF IInv, BlankWhy, FlashBoot, ComeUp
  <2>2. Promise!Boot
    BY <2>1, <1>0 DEF Promise!Boot
  <2> QED BY <2>2 DEF Promise!Next
<1>2. CASE Transmit \/ LoseUp \/ SerialNoise \/ Deliver \/ LoseDown
  <2>1. UNCHANGED <<fpga, booting>>
    BY <1>2 DEF fpgaVars, Transmit, LoseUp, SerialNoise, Deliver, LoseDown
  <2> QED BY <2>1, <1>0
<1> QED BY <1>1, <1>2 DEF LinkStep, LinkNext

(* What stage 2 hears, receives or gives up changes at most what is staged.*)
LEMMA StagePromise == IInv /\ IInv' /\ (Listen \/ Transfer) => Promise!Next \/ UNCHANGED PVars
<1> SUFFICES ASSUME IInv, IInv', Listen \/ Transfer PROVE Promise!Next \/ UNCHANGED PVars
  OBVIOUS
<1> USE DEF PVars, PStaged, PMode, Running
<1>1. UNCHANGED <<fpga, booting>>
  BY DEF Listen, Transfer, Ping, Caps, BeginLegacy, CmdStatus, NotOurs, CmdBegin, CmdLoad, CmdReload,
         Header, Payload, CheckStaged, ByteTimeout, Hear, Take, fpgaVars
<1>2. spc \in S2Waiting
  BY DEF Listen, Transfer, Ping, Caps, BeginLegacy, CmdStatus, NotOurs, CmdBegin, CmdLoad, CmdReload,
         Header, Payload, CheckStaged, ByteTimeout, Hear, Take, S2Waiting, Receiving
<1>3. PMode # "loading"
  BY <1>2 DEF IInv, BlankWhy, S2Waiting, Receiving
<1>4. PStaged' \in {c \in Cores : Sidecar[c] = "good"} \cup {NoCore}
  BY DEF IInv, StagedIsWhole
<1>5. Promise!Stage
  BY <1>1, <1>3, <1>4 DEF Promise!Stage
<1> QED BY <1>5 DEF Promise!Next

(* What stage 2 does to the FPGA is an erase, a load or the fallback.      *)
LEMMA DrivePromise == IInv /\ DriveFpga => Promise!Next \/ UNCHANGED PVars
<1> SUFFICES ASSUME IInv, DriveFpga PROVE Promise!Next \/ UNCHANGED PVars
  OBVIOUS
<1> USE DEF PVars, PStaged, PMode, Running
<1>1. UNCHANGED <<staged_valid, hdr>>
  BY DEF DriveFpga, DelayOver, EraseSram, WrongIdcode, WriteSram, Reload
<1>2. CASE DelayOver \/ WrongIdcode
  <2>1. UNCHANGED <<fpga, booting>>
    BY <1>2 DEF DelayOver, WrongIdcode, fpgaVars
  <2> QED BY <1>1, <2>1
<1>3. CASE EraseSram
  <2>1. staged_valid /\ hdr \in Cores
    BY <1>3 DEF EraseSram, IInv, StagedIsWhole, Loading
  <2>2. fpga' = NoCore /\ ~booting'
    BY <1>3 DEF EraseSram, GoBlank
  <2>3. Promise!Erase
    BY <1>1, <2>1, <2>2, CoresAssumption DEF Promise!Erase
  <2> QED BY <2>3 DEF Promise!Next
<1>4. CASE WriteSram
  <2>1. staged_valid /\ hdr \in Cores /\ ~Running /\ ~booting
    BY <1>4 DEF WriteSram, IInv, StagedIsWhole, BlankWhy, Loading
  <2>2. booting' = booting /\ fpga' \in {hdr, fpga}
    BY <1>4 DEF WriteSram, ComeUp
  <2>3. CASE fpga' = hdr
    <3>1. Promise!Load
      BY <1>1, <2>1, <2>2, <2>3, CoresAssumption DEF Promise!Load
    <3> QED BY <3>1 DEF Promise!Next
  <2>4. CASE fpga' = fpga
    BY <1>1, <2>2, <2>4
  <2> QED BY <2>2, <2>3, <2>4
<1>5. CASE Reload
  <2>1. fpga' = NoCore /\ booting'
    BY <1>5 DEF Reload, GoBlank
  <2>2. Promise!Fallback
    BY <1>1, <2>1 DEF Promise!Fallback
  <2> QED BY <2>2 DEF Promise!Next
<1> QED BY <1>2, <1>3, <1>4, <1>5 DEF DriveFpga

(* Nothing the dock does by itself touches the FPGA's configuration.       *)
LEMMA DockPromise == OsdStep \/ UserStep \/ IrqStep \/ WdgStep => UNCHANGED PVars
<1> SUFFICES ASSUME OsdStep \/ UserStep \/ IrqStep \/ WdgStep PROVE UNCHANGED PVars
  OBVIOUS
<1>1. UNCHANGED <<fpga, booting>>
  BY DEF OsdStep, UserStep, IrqStep, WdgStep, Converse, StartUp, User, OnPing, OnCaps,
         OnBegin, OnChunk, OnCrc, OnLoad, Push, NeverRoom, OpenSidecar, ReadChunk, CardFails,
         ReplyTimeout, BootOk, BootGiveUp, Switch, Remount, ColdIrq, Watchdog, OsdUnchanged, fpgaVars
<1>2. UNCHANGED <<staged_valid, hdr>>
  BY DEF OsdStep, UserStep, IrqStep, WdgStep, s2Vars
<1> QED BY <1>1, <1>2 DEF PVars, PStaged, PMode, Running

LEMMA PromiseStep == IInv /\ IInv' /\ [Next]_vars => [Promise!Next]_PVars
<1> SUFFICES ASSUME IInv, IInv', [Next]_vars PROVE [Promise!Next]_PVars
  OBVIOUS
<1>1. CASE LinkStep
  BY <1>1, LinkPromise
<1>2. CASE S2Step
  BY <1>2, StagePromise, DrivePromise DEF S2Step
<1>3. CASE OsdStep \/ UserStep \/ IrqStep \/ WdgStep
  BY <1>3, DockPromise
<1>4. CASE UNCHANGED vars
  BY <1>4 DEF vars, s2Vars, fpgaVars, PVars, PStaged, PMode, Running
<1> QED BY <1>1, <1>2, <1>3, <1>4 DEF Next

(* The dock, the link and stage 2 together implement CorePromise: for any  *)
(* catalogue, payloads and buffers, and however often each fault strikes,  *)
(* the FPGA runs what it ran, what was staged whole or the flash's core.   *)
THEOREM PromiseKept == Spec => KeepsPromise
<1>1. Init => Promise!Init
  BY PromiseInit
<1>2. IInv /\ IInv' /\ [Next]_vars => [Promise!Next]_<<fpga, PStaged, PMode>>
  BY PromiseStep DEF PVars
<1>3. Spec => Promise!Init /\ [][Promise!Next]_<<fpga, PStaged, PMode>>
  BY <1>1, <1>2, IInvCorrect, PTL DEF Spec
<1> QED BY <1>3 DEF KeepsPromise, Promise!Spec, PStaged, PMode

-----------------------------------------------------------------------------
(* The claim.                                                              *)

\* A switch that has ended in an error is over until the user picks another.
Over == res # "none" => dpc = "idle" /\ ~claimed

LEMMA OverStep == TypeOK /\ Over /\ [Next]_vars => Over'
<1> SUFFICES ASSUME TypeOK, Over, [Next]_vars PROVE Over'
  OBVIOUS
<1> USE DEF Over
<1>1. CASE LinkStep
  <2>1. UNCHANGED <<dpc, res>> /\ (claimed' = claimed \/ ~claimed')
    BY <1>1 DEF LinkStep, LinkNext, Transmit, LoseUp, SerialNoise, Deliver, LoseDown, FlashBoot,
                ComeUp, BridgeReset, dockVars
  <2> QED BY <2>1
<1>2. CASE S2Step
  <2>1. UNCHANGED <<dpc, res>>
    BY <1>2 DEF S2Step, dockVars
  <2>2. CASE Listen \/ Transfer
    BY <2>1, <2>2 DEF Listen, Transfer, Ping, Caps, BeginLegacy, CmdStatus, NotOurs, CmdBegin, CmdLoad,
                 CmdReload, Header, Payload, CheckStaged, ByteTimeout, Hear, Take
  <2>3. CASE DriveFpga
    BY <2>1, <2>3 DEF DriveFpga, DelayOver, EraseSram, WrongIdcode, WriteSram, Reload, GoBlank, ComeUp,
                      BridgeReset, linkVars
  <2> QED BY <1>2, <2>2, <2>3 DEF S2Step
<1>3. CASE OsdStep
  <2>1. CASE StartUp
    BY <2>1 DEF StartUp, BootOk, BootGiveUp, linkVars
  <2>2. CASE Converse
    <3>1. ASSUME NEW r \in Codes, OnPing(r) \/ OnCaps(r) \/ OnBegin(r) PROVE Over'
      BY <3>1 DEF OnPing, OnCaps, OnBegin, Answer, Say, Abandon
    <3>2. ASSUME NEW r \in Codes, OnChunk(r) \/ OnCrc(r) PROVE Over'
      BY <3>2 DEF OnChunk, OnCrc, Answer, Say, Abandon
    <3>3. ASSUME NEW r \in Codes, OnLoad(r) PROVE Over'
      BY <3>3 DEF OnLoad, Answer, Spin, Abandon
    <3>4. CASE Push \/ NeverRoom \/ ReplyTimeout
      BY <3>4 DEF Push, NeverRoom, ReplyTimeout, Spin, Abandon
    <3>5. CASE OpenSidecar \/ ReadChunk \/ CardFails
      BY <3>5 DEF OpenSidecar, ReadChunk, CardFails, Say, Abandon
    <3> QED BY <2>2, <3>1, <3>2, <3>3, <3>4, <3>5 DEF Converse
  <2> QED BY <1>3, <2>1, <2>2 DEF OsdStep
<1>4. CASE UserStep
  BY <1>4 DEF UserStep, User, Switch, Remount, linkVars
<1>5. CASE IrqStep \/ WdgStep
  BY <1>5 DEF IrqStep, WdgStep, ColdIrq, Watchdog, linkVars
<1>6. CASE UNCHANGED vars
  BY <1>6 DEF vars, linkVars, dockVars
<1> QED BY <1>1, <1>2, <1>3, <1>4, <1>5, <1>6 DEF Next

(* However a switch fails, what it returns with is the serial port's pin   *)
(* given back, and it stays given back until the next one claims it.       *)
THEOREM PinGivenBack == Spec => []ReleasedAfterError
<1>1. Init => Over
  BY DEF Init, DockInit, Over
<1>2. Over => ReleasedAfterError
  BY DEF Over, ReleasedAfterError
<1> QED BY <1>1, <1>2, OverStep, TypeCorrect, PTL DEF Spec

-----------------------------------------------------------------------------
(* The conversation over a link that lets nothing of the dock's get lost.  *)
(* Stage 2's ring holds more than a chunk (link.c:13, protocol.h:25): what *)
(* the dock has said is under way in order, or taken.                      *)

RingTakesChunk == Chunk < RingCap

\* No byte to stage 2 was lost, none was added and no chunk came too late.
Clean == \A f \in {"up", "serial", "stall"} : left[f] = MaxFaults[f]

\* The running machine's serial port keeps the link's pin.
Muted == fpga \in SerialCores /\ ~claimed

Empty == ring = <<>> /\ fifo = <<>>

\* At most one command is under way or about to be said, and it is x.
Single(x) ==
    /\ Len(ring) + Len(fifo) + Len(out) <= 1
    /\ ring # <<>> => ring[1] = Cmd(x)
    /\ fifo # <<>> => fifo[1] = Cmd(x)
    /\ out # <<>> => out[1] = Cmd(x)

\* A transfer, token by token, and how far stage 2 is in it.
Script(c, p) ==
    IF p = 1 THEN Cmd("C") ELSE IF p = 2 THEN Hdr(c)
    ELSE IF p <= Pieces[c] + 2 THEN Data(c, p - 2) ELSE Crc(c)
Pos == IF spc = "hdr" THEN 1 ELSE IF spc \in {"data", "tail"} THEN got + 2 ELSE 0

Along(s, c, p) == \A i \in 1 .. Len(s) : s[i] = Script(c, p + i)

\* What the dock says at once, at most.
Burst == IF Chunk > 2 THEN Chunk ELSE 2

\* What is under way is what stage 2 waits for.
OnScript(c) ==
    /\ spc \in S2Waiting
    /\ spc \in Receiving => intact
    /\ spc \in {"data", "tail"} => hdr = c
    /\ Along(ring, c, Pos) /\ Along(fifo, c, Pos + Len(ring))
    /\ Pos + Len(ring) + Len(fifo) <= Pieces[c] + 3
    /\ Len(ring) + Len(fifo) <= Burst

\* What a dock that was restarted has left under way.
Underway ==
    /\ spc \in S2Waiting
    /\ \/ Muted /\ ring = <<>>
       \/ \E x \in {"P", "V"} : Single(x)
       \/ ~Muted /\ \E c \in Cores : OnScript(c)

\* Stage 2 has answered r.
Answered(r) == (fresh /\ last = r) \/ down = <<r>>
OneAnswer ==
    /\ fresh => down = <<>>
    /\ Len(down) <= 1
    /\ fresh \/ down # <<>> => Empty /\ out = <<>>

\* Where in the script a phase starts and ends.
From == IF phase = "begin" THEN 0 ELSE IF phase = "chunk" THEN sent + 2 ELSE Pieces[target] + 2
To == IF phase = "begin" THEN 2 ELSE IF phase = "chunk" THEN sent + Want + 2 ELSE Pieces[target] + 3

\* Stage 2 has not taken all of the phase.
Telling ==
    /\ ~Muted /\ ~fresh /\ down = <<>>
    /\ OnScript(target)
    /\ From <= Pos /\ Pos < To
    /\ Along(out, target, Pos + Len(ring) + Len(fifo))
    /\ Pos + Len(ring) + Len(fifo) + Len(out) = To

\* It has, and answered or gave up.
Told ==
    /\ dpc = "wait" /\ Empty /\ spc \in S2Waiting
    /\ Answered("OK") =>
         /\ ~Muted
         /\ phase = "crc" => spc = "main" /\ staged_valid /\ hdr = target
         /\ phase # "crc" => spc \in {"data", "tail"} /\ intact /\ hdr = target /\ got + 2 = To

\* It hears nothing: a blank FPGA seemed to answer, and then came up.
Mute == Muted /\ ring = <<>> /\ spc = "main" /\ phase = "begin" /\ ~fresh /\ down = <<>>

\* The dock says something or waits for the answer to it.
Pinging == phase = "ping" => spc \in S2Waiting /\ Single("P")
Asking == phase = "caps" => spc \in S2Waiting /\ Single("V") /\ (Answered("VERSION51") => spc = "main")
Transferring == phase \in {"begin", "chunk", "crc"} => Telling \/ Told \/ Mute
LoadSaid ==
    phase = "load" =>
        /\ Single("L") /\ (~Empty \/ out # <<>> => ~Muted /\ spc = "main" /\ staged_valid /\ hdr = target)
        /\ ~wdg /\ hold /\ spc \notin Receiving
        /\ fresh \/ down # <<>> => Answered("OK")
Talking == OneAnswer /\ phase # "none" /\ Pinging /\ Asking /\ Transferring /\ LoadSaid

Reading ==
    /\ phase \in {"begin", "chunk"} /\ ~Muted /\ Empty /\ down = <<>>
    /\ spc = "data" /\ intact /\ hdr = target /\ got = sent

\* Stage 2 is about to erase or reload the FPGA, which still runs.
Ending ==
    /\ Empty /\ ~mounted /\ phase = "load" /\ dpc \in {"wait", "spin"} /\ staged_valid
    /\ spc # "loadDelay" => down = <<>>

Up ==
    /\ spc \in S2Waiting \cup {"loadDelay", "erase", "reload"}
    /\ dpc = "boot" => Underway
    /\ dpc = "idle" => spc \in S2Waiting /\ Empty
    /\ dpc = "open" => spc = "main" /\ Empty /\ down = <<>>
    /\ dpc = "read" => Reading
    /\ dpc = "spin" => Empty
    /\ dpc \in {"push", "wait"} => Talking
    /\ spc \notin S2Waiting => Ending

Blank ==
    /\ Empty /\ down = <<>> /\ ~fresh /\ ~mounted
    /\ spc \in {"main", "write", "reload"} /\ (booting => spc = "main")
    /\ dpc # "read"
    /\ dpc \in {"push", "wait"} =>
         /\ phase \in {"ping", "caps", "load"}
         /\ phase = "ping" => Single("P")
         /\ phase = "caps" => Single("V")
         /\ phase = "load" => dpc = "wait" /\ ~wdg /\ hold

\* Stage 2 is not there.
Absent ==
    /\ Running /\ spc = "main" /\ down = <<>> /\ ~fresh
    /\ dpc \in {"boot", "idle", "push", "wait"}
    /\ dpc \in {"push", "wait"} => phase = "ping"

\* The dock's own books.
Books ==
    /\ dpc # "push" => out = <<>>
    /\ dpc = "push" => out # <<>>
    /\ dpc = "open" => phase = "caps"
    /\ dpc = "spin" => hold /\ phase = "load"
    /\ dpc \notin {"boot", "idle"} => ~mounted
    /\ dpc \notin {"boot", "idle"} /\ phase \in {"ping", "caps", "begin"} => sent = 0
    /\ dpc \notin {"boot", "idle"} /\ phase = "chunk" => sent % Chunk = 0
    /\ dpc \in {"push", "wait"} /\ phase = "chunk" => sent < Pieces[target]

Conv ==
    /\ Books
    /\ present /\ Running => Up
    /\ present /\ ~Running => Blank
    /\ ~present => Absent

\* As long as every answer arrives, the dock has read the load's before the
\* FPGA goes blank.
AllHeard ==
    left["down"] = MaxFaults["down"] =>
        /\ spc = "loadDelay" /\ dpc = "wait" => fresh \/ down # <<>>
        /\ ~Running \/ spc \in {"erase", "reload"} => dpc \in {"spin", "boot"}

-----------------------------------------------------------------------------
(* What is on the line.                                                    *)

LEMMA TailIs ==
    ASSUME NEW S, NEW s \in Seq(S), s # <<>>
    PROVE  /\ Len(s) \in Nat \ {0} /\ Head(s) = s[1] /\ Head(s) \in S /\ Tail(s) \in Seq(S)
           /\ Len(Tail(s)) = Len(s) - 1
           /\ \A i \in 1 .. Len(s) - 1 : Tail(s)[i] = s[i + 1]
OBVIOUS

LEMMA AppendIs ==
    ASSUME NEW S, NEW s \in Seq(S), NEW x \in S
    PROVE  /\ Append(s, x) \in Seq(S) /\ Len(Append(s, x)) = Len(s) + 1 /\ Len(s) \in Nat
           /\ Append(s, x)[Len(s) + 1] = x /\ Append(s, x) # <<>>
           /\ \A i \in 1 .. Len(s) : Append(s, x)[i] = s[i]
OBVIOUS

LEMMA EmptyIs ==
    ASSUME NEW S, NEW s \in Seq(S)
    PROVE  Len(s) \in Nat /\ (s = <<>> => Len(s) = 0) /\ (Len(s) = 0 => s = <<>>)
OBVIOUS

\* The token that goes from one end of the line to the next.
LEMMA Passed ==
    ASSUME NEW S, NEW a \in Seq(S), NEW b \in Seq(S), b # <<>>
    PROVE  /\ Append(a, Head(b)) \in Seq(S) /\ Tail(b) \in Seq(S) /\ Append(a, Head(b)) # <<>>
           /\ Len(Append(a, Head(b))) = Len(a) + 1 /\ Len(Tail(b)) = Len(b) - 1
           /\ Len(a) \in Nat /\ Len(b) \in Nat \ {0}
           /\ \A i \in 1 .. Len(a) : Append(a, Head(b))[i] = a[i]
           /\ Append(a, Head(b))[Len(a) + 1] = b[1]
           /\ \A i \in 1 .. Len(b) - 1 : Tail(b)[i] = b[i + 1]
OBVIOUS

\* The types the conversation needs.
Typed ==
    /\ ring \in Seq(Token) /\ fifo \in Seq(Token) /\ out \in Seq(Token) /\ down \in Seq(Codes)
    /\ got \in Nat /\ sent \in Nat /\ packed \in Nat

LEMMA TypedIs == TypeOK => Typed
BY DEF TypeOK, LinkTypeOK, S2TypeOK, DockTypeOK, Typed

LEMMA PiecesIs == ASSUME NEW c \in Cores PROVE Pieces[c] \in Nat \ {0}
BY PayloadAssumption

LEMMA PosIs == Typed => Pos \in Nat
BY DEF Typed, Pos

\* What the dock says at once fits the ring.
LEMMA BurstIs == RingTakesChunk => Burst \in Nat /\ Burst <= RingCap /\ Chunk <= Burst /\ 2 <= Burst
BY SizesAssumption DEF Burst, RingTakesChunk

\* A token moves on from b to a, which go on the script from p.
LEMMA MoveOn ==
    ASSUME NEW a \in Seq(Token), NEW b \in Seq(Token), b # <<>>, NEW c, NEW p \in Nat,
           NEW q, q = p + Len(a), Along(a, c, p), Along(b, c, q)
    PROVE  /\ Along(Append(a, Head(b)), c, p) /\ Along(Tail(b), c, q + 1)
           /\ Len(Append(a, Head(b))) = Len(a) + 1 /\ Len(Tail(b)) = Len(b) - 1
           /\ Len(a) \in Nat /\ Len(b) \in Nat
<1> USE DEF Along
<1> DEFINE a1 == Append(a, Head(b))
           b1 == Tail(b)
<1>1. /\ Len(a1) = Len(a) + 1 /\ Len(b1) = Len(b) - 1 /\ Len(a) \in Nat /\ Len(b) \in Nat \ {0}
      /\ \A i \in 1 .. Len(a) : a1[i] = a[i]
      /\ a1[Len(a) + 1] = b[1]
      /\ \A i \in 1 .. Len(b) - 1 : b1[i] = b[i + 1]
  BY Passed
<1> HIDE DEF a1, b1
<1>2. \A i \in 1 .. Len(a1) : a1[i] = Script(c, p + i)
  <2> TAKE i \in 1 .. Len(a1)
  <2>1. CASE i \in 1 .. Len(a)
    BY <1>1, <2>1
  <2>2. CASE i = Len(a) + 1
    <3>1. b[1] = Script(c, p + Len(a) + 1) /\ p + Len(a) + 1 = p + i
      BY <1>1, <2>2
    <3> QED BY <1>1, <2>2, <3>1
  <2> QED BY <1>1, <2>1, <2>2
<1>3. \A i \in 1 .. Len(b1) : b1[i] = Script(c, q + 1 + i)
  <2> TAKE i \in 1 .. Len(b1)
  <2>1. i \in 1 .. Len(b) - 1 /\ i + 1 \in 1 .. Len(b) /\ q \in Nat
    BY <1>1
  <2>2. b1[i] = b[i + 1] /\ q + (i + 1) = q + 1 + i
    BY <1>1, <2>1
  <2>3. b[i + 1] = Script(c, q + (i + 1))
    BY <2>1
  <2> QED BY <2>2, <2>3
<1> QED BY <1>1, <1>2, <1>3 DEF a1, b1

\* Stage 2 takes the first of the line.
LEMMA TakeOn ==
    ASSUME NEW a \in Seq(Token), a # <<>>, NEW c, NEW p \in Nat, Along(a, c, p)
    PROVE  Head(a) = Script(c, p + 1) /\ Along(Tail(a), c, p + 1) /\ Len(Tail(a)) = Len(a) - 1 /\ Len(a) \in Nat
<1> USE DEF Along
<1> DEFINE a1 == Tail(a)
<1>1. /\ Len(a) \in Nat \ {0} /\ Len(a1) = Len(a) - 1 /\ Head(a) = a[1]
      /\ \A i \in 1 .. Len(a) - 1 : a1[i] = a[i + 1]
  BY TailIs
<1> HIDE DEF a1
<1>2. Head(a) = Script(c, p + 1)
  BY <1>1
<1>3. \A i \in 1 .. Len(a1) : a1[i] = Script(c, p + 1 + i)
  <2> TAKE i \in 1 .. Len(a1)
  <2>1. i \in 1 .. Len(a) - 1 /\ i + 1 \in 1 .. Len(a)
    BY <1>1
  <2>2. a1[i] = a[i + 1] /\ p + (i + 1) = p + 1 + i
    BY <1>1, <2>1
  <2>3. a[i + 1] = Script(c, p + (i + 1))
    BY <2>1
  <2> QED BY <2>2, <2>3
<1> QED BY <1>1, <1>2, <1>3 DEF a1

LEMMA SmallMultiple ==
    ASSUME NEW n \in Nat \ {0}, NEW d \in Int, n * d < n, -n < n * d
    PROVE  d = 0
<1>1. d >= 1 => n * d >= n
  OBVIOUS
<1>2. d <= -1 => n * d <= -n
  OBVIOUS
<1> QED BY <1>1, <1>2

\* Chunks are acknowledged at their end.
LEMMA ChunkEnds ==
    ASSUME NEW a \in Nat, a % Chunk = 0
    PROVE  /\ (a + Chunk) % Chunk = 0
           /\ \A k \in 1 .. Chunk - 1 : (a + k) % Chunk # 0
<1>1. Chunk \in Nat \ {0}
  BY SizesAssumption
<1>2. PICK q \in Int : a = Chunk * q
  <2>1. a = (Chunk * (a \div Chunk)) + (a % Chunk) /\ a \div Chunk \in Int
    BY <1>1
  <2> QED BY <1>1, <2>1
<1>3. \A k \in Nat : \E r \in 0 .. Chunk - 1, d \in Int : r = (a + k) % Chunk /\ k - r = Chunk * d
  <2> TAKE k \in Nat
  <2>1. /\ a + k = (Chunk * ((a + k) \div Chunk)) + ((a + k) % Chunk)
        /\ (a + k) \div Chunk \in Int /\ (a + k) % Chunk \in 0 .. Chunk - 1
    BY <1>1
  <2>2. Chunk * (((a + k) \div Chunk) - q) = Chunk * ((a + k) \div Chunk) - Chunk * q
    BY <1>1, <1>2, <2>1
  <2>3. k - ((a + k) % Chunk) = Chunk * (((a + k) \div Chunk) - q)
    BY <1>1, <1>2, <2>1, <2>2
  <2>4. ((a + k) \div Chunk) - q \in Int
    BY <2>1
  <2> QED BY <2>1, <2>3, <2>4
<1>4. (a + Chunk) % Chunk = 0
  <2>1. PICK r \in 0 .. Chunk - 1, d \in Int : r = (a + Chunk) % Chunk /\ Chunk - r = Chunk * d
    BY <1>1, <1>3
  <2>2. Chunk * (d - 1) = -r
    BY <1>1, <2>1
  <2>3. d - 1 = 0
    BY <1>1, <2>1, <2>2, SmallMultiple
  <2> QED BY <1>1, <2>1, <2>2, <2>3
<1>5. \A k \in 1 .. Chunk - 1 : (a + k) % Chunk # 0
  <2> SUFFICES ASSUME NEW k \in 1 .. Chunk - 1, (a + k) % Chunk = 0 PROVE FALSE
    OBVIOUS
  <2>1. PICK r \in 0 .. Chunk - 1, d \in Int : r = (a + k) % Chunk /\ k - r = Chunk * d
    <3>1. k \in Nat
      BY <1>1
    <3> QED BY <3>1, <1>3
  <2>2. Chunk * d = k
    BY <2>1
  <2>3. d = 0
    BY <1>1, <2>2, SmallMultiple
  <2> QED BY <1>1, <2>2, <2>3
<1> QED BY <1>4, <1>5

-----------------------------------------------------------------------------
(* The link's steps.                                                       *)

LEMMA SingleMoves ==
    ASSUME Typed, RingTakesChunk, NEW x, Single(x), Transmit, UNCHANGED out
    PROVE  Single(x)'
<1>1. /\ Len(Append(ring, Head(fifo))) = Len(ring) + 1 /\ Len(Tail(fifo)) = Len(fifo) - 1
      /\ Len(ring) \in Nat /\ Len(fifo) \in Nat \ {0} /\ Len(out) \in Nat
      /\ Append(ring, Head(fifo))[Len(ring) + 1] = fifo[1]
  BY Passed DEF Typed, Transmit
<1>2. Len(ring) = 0 /\ Len(fifo) = 1 /\ Len(out) = 0 /\ fifo[1] = Cmd(x)
  BY <1>1 DEF Single, Transmit
<1>3. RingCap \in Nat /\ RingCap > 0
  BY SizesAssumption
<1>4. ring = <<>> /\ out = <<>> /\ Tail(fifo) = <<>>
  BY <1>1, <1>2, EmptyIs, Passed DEF Typed, Transmit
<1>5. (ring' = Append(ring, Head(fifo)) \/ ring' = <<>>) /\ fifo' = <<>> /\ out' = <<>>
  BY <1>2, <1>4 DEF Transmit, RingPut
<1> QED BY <1>1, <1>2, <1>4, <1>5 DEF Single

LEMMA ScriptMoves ==
    ASSUME Typed, RingTakesChunk, NEW c \in Cores, OnScript(c), ~Muted, Transmit, UNCHANGED s2Vars
    PROVE  /\ OnScript(c)' /\ Pos' = Pos
           /\ Pos + Len(ring') + Len(fifo') = Pos + Len(ring) + Len(fifo)
<1>1. Pos' = Pos /\ Pos \in Nat
  BY PosIs DEF Pos, s2Vars
<1>2. Len(ring) < RingCap
  <2>1. Len(ring) \in Nat /\ Len(fifo) \in Nat \ {0}
    BY TailIs, EmptyIs DEF Typed, Transmit
  <2> QED BY <2>1, BurstIs, SizesAssumption DEF OnScript
<1>3. ring' = Append(ring, Head(fifo)) /\ fifo' = Tail(fifo)
  BY <1>2 DEF Transmit, RingPut, Muted
<1>4. /\ Along(ring', c, Pos) /\ Along(fifo', c, Pos + Len(ring'))
      /\ Len(ring') + Len(fifo') = Len(ring) + Len(fifo)
  <2> DEFINE q == Pos + Len(ring)
  <2>1. Along(ring, c, Pos) /\ Along(fifo, c, q)
    BY DEF OnScript
  <2>2. ring \in Seq(Token) /\ fifo \in Seq(Token) /\ fifo # <<>>
    BY DEF Typed, Transmit
  <2>3. q = Pos + Len(ring)
    OBVIOUS
  <2> HIDE DEF q
  <2>4. /\ Along(ring', c, Pos) /\ Along(fifo', c, q + 1)
        /\ Len(ring') = Len(ring) + 1 /\ Len(fifo') = Len(fifo) - 1 /\ Len(ring) \in Nat /\ Len(fifo) \in Nat
    BY <1>1, <1>3, <2>1, <2>2, <2>3, MoveOn
  <2>5. q + 1 = Pos + Len(ring')
    BY <1>1, <2>3, <2>4
  <2> QED BY <2>4, <2>5
<1>5. /\ Len(ring) + Len(fifo) \in Nat
      /\ Len(ring) \in Nat /\ Len(fifo) \in Nat /\ Len(ring') \in Nat /\ Len(fifo') \in Nat
  BY <1>3, Passed, EmptyIs DEF Typed, Transmit
<1>6. Pos' + Len(ring') + Len(fifo') = Pos + Len(ring) + Len(fifo)
  <2>1. Len(ring') + Len(fifo') = Len(ring) + Len(fifo)
    BY <1>4
  <2> QED BY <1>1, <1>5, <2>1
<1>7. OnScript(c)'
  BY <1>1, <1>4, <1>6 DEF OnScript, s2Vars
<1> QED BY <1>1, <1>4, <1>6, <1>7

LEMMA UpTransmit ==
    ASSUME TypeOK, RingTakesChunk, Running, Up, Transmit, UNCHANGED <<s2Vars, dockVars>>
    PROVE  Up'
<1>1. Typed /\ target' = target /\ phase' = phase /\ dpc' = dpc /\ out' = out /\ spc' = spc
  BY TypedIs DEF s2Vars, dockVars
<1>2. /\ ~Empty /\ (Muted' <=> Muted) /\ UNCHANGED <<down, fresh, last>>
      /\ Muted => ring' = ring
  BY DEF Empty, Muted, Transmit, fpgaVars
<1>3. CASE dpc = "boot"
  <2>1. Underway
    BY <1>3 DEF Up
  <2>2. Underway'
    <3>1. ASSUME NEW x \in {"P", "V"}, Single(x) PROVE Underway'
      BY <1>1, <2>1, <3>1, SingleMoves DEF Underway
    <3>2. ASSUME ~Muted, NEW c \in Cores, OnScript(c) PROVE Underway'
      BY <1>1, <1>2, <2>1, <3>2, ScriptMoves DEF Underway
    <3> QED BY <1>1, <1>2, <2>1, <3>1, <3>2 DEF Underway
  <2> QED BY <1>1, <1>2, <1>3, <2>2 DEF Up, Ending
<1>4. CASE dpc \in {"push", "wait"}
  <2>1. Talking /\ ~fresh /\ down = <<>> /\ target \in Cores
    BY <1>2, <1>4 DEF Up, Talking, OneAnswer, TypeOK, DockTypeOK
  <2>2. OneAnswer' /\ phase' # "none"
    BY <1>1, <1>2, <2>1 DEF OneAnswer, Talking
  <2>3. Pinging' /\ Asking'
    BY <1>1, <1>2, <2>1, SingleMoves DEF Talking, Pinging, Asking, Answered
  <2>4. Transferring'
    <3> SUFFICES ASSUME phase \in {"begin", "chunk", "crc"} PROVE (Telling \/ Mute)'
      BY <1>1 DEF Transferring
    <3>1. Telling \/ Mute
      BY <1>2, <2>1 DEF Talking, Transferring, Told
    <3>2. CASE Mute
      BY <1>1, <1>2, <3>2 DEF Mute
    <3>3. CASE Telling
      <4>1. /\ OnScript(target)' /\ Pos' = Pos
            /\ Pos + Len(ring') + Len(fifo') = Pos + Len(ring) + Len(fifo) /\ target' = target
        <5>1. OnScript(target) /\ ~Muted
          BY <3>3 DEF Telling
        <5>2. \A c \in Cores : OnScript(c) => OnScript(c)'
          BY <1>1, <3>3, ScriptMoves DEF Telling
        <5> QED BY <1>1, <2>1, <5>1, <5>2, ScriptMoves
      <4>2. From' = From /\ To' = To
        BY <1>1 DEF From, To, Want, dockVars
      <4> QED BY <1>1, <1>2, <3>3, <4>1, <4>2 DEF Telling
    <3> QED BY <3>1, <3>2, <3>3
  <2>5. LoadSaid'
    BY <1>1, <1>2, <2>1, SingleMoves DEF Talking, LoadSaid, dockVars, s2Vars
  <2> QED BY <1>1, <1>2, <1>4, <2>2, <2>3, <2>4, <2>5 DEF Up, Talking, Ending
<1>5. CASE dpc \notin {"boot", "push", "wait"}
  BY <1>1, <1>2, <1>5 DEF Up, Reading, Ending, TypeOK, DockTypeOK
<1> QED BY <1>3, <1>4, <1>5

\* Nothing is under way: any command could be the one that is.
LEMMA EmptySingle ==
    ASSUME Empty, out = <<>>, NEW x
    PROVE  Single(x)
BY DEF Empty, Single

LEMMA EmptyUnderway ==
    ASSUME Empty, out = <<>>, spc \in S2Waiting
    PROVE  Underway
BY EmptySingle DEF Underway

LEMMA LenOne ==
    ASSUME NEW S, NEW s \in Seq(S), Len(s) = 1
    PROVE  s = <<Head(s)>> /\ Tail(s) = <<>> /\ Head(s) \in S
<1>1. Tail(s) \in Seq(S) /\ Len(Tail(s)) = 0
  OBVIOUS
<1>2. Tail(s) = <<>>
  BY <1>1, EmptyIs
<1>3. s = <<s[1]>> /\ Head(s) = s[1]
  OBVIOUS
<1> QED BY <1>2, <1>3

\* An answer that is on its way, and is one of the words of stage 2.
LEMMA OneDown ==
    ASSUME TypeOK, OneAnswer, down # <<>>
    PROVE  /\ down = <<Head(down)>> /\ Tail(down) = <<>> /\ Len(Tail(down)) = 0 /\ ~fresh /\ Empty /\ out = <<>>
           /\ \A r : Answered(r) <=> Head(down) = r
<1>1. down \in Seq(Codes) /\ Len(down) <= 1
  BY DEF TypeOK, LinkTypeOK, OneAnswer
<1>2. Len(down) = 1
  BY <1>1, EmptyIs
<1>3. down = <<Head(down)>> /\ Tail(down) = <<>>
  BY <1>1, <1>2, LenOne
<1>4. ~fresh /\ Empty /\ out = <<>>
  BY DEF OneAnswer
<1>5. ASSUME NEW r PROVE Answered(r) <=> Head(down) = r
  BY <1>3, <1>4 DEF Answered
<1>6. Len(Tail(down)) = 0
  BY <1>1, <1>2
<1> QED BY <1>3, <1>4, <1>5, <1>6

\* It arrives, or is lost: nothing else is learnt from it.
LEMMA UpAnswer ==
    ASSUME TypeOK, Running, Up, down # <<>>, down' = Tail(down),
           \/ last' = Head(down) /\ fresh' = TRUE
           \/ UNCHANGED <<last, fresh>>,
           UNCHANGED <<claimed, fifo, ring, fpgaVars, s2Vars, dockVars>>
    PROVE  Up'
<1>1. /\ UNCHANGED <<claimed, fifo, ring, fpga, spc, staged_valid, intact, hdr, got>>
      /\ UNCHANGED <<dpc, phase, target, out, sent, hold, wdg, mounted>>
  BY DEF fpgaVars, s2Vars, dockVars
<1>2. /\ (Underway <=> Underway') /\ (Empty <=> Empty')
      /\ \A x : Single(x) <=> Single(x)'
  BY <1>1 DEF Underway, Single, OnScript, Pos, Muted, Empty, Along, Script
<1>3. CASE dpc \in {"push", "wait"}
  <2>1. Talking /\ OneAnswer
    BY <1>3 DEF Up, Talking
  <2>2. down = <<Head(down)>> /\ down' = <<>> /\ ~fresh /\ Empty /\ out = <<>>
    BY <2>1, OneDown
  <2>3. \A r : Answered(r)' => Answered(r)
    BY <2>2 DEF Answered
  <2>4. (fresh' \/ down' # <<>>) => (Answered("OK") => Answered("OK")')
    BY <2>2 DEF Answered
  <2>5. OneAnswer'
    <3>1. Len(down') <= 1
      BY <2>1, <2>2, OneDown
    <3>2. Empty' /\ out' = <<>>
      BY <1>1, <1>2, <2>2
    <3> QED BY <2>2, <3>1, <3>2 DEF OneAnswer
  <2>6. Pinging' /\ Asking' /\ LoadSaid'
    <3>1. Pinging'
      BY <1>1, <1>2, <2>1 DEF Talking, Pinging
    <3>2. Asking'
      BY <1>1, <1>2, <2>1, <2>3 DEF Talking, Asking
    <3>3. LoadSaid'
      BY <1>1, <1>2, <2>1, <2>2, <2>4 DEF Talking, LoadSaid, Muted
    <3> QED BY <3>1, <3>2, <3>3
  <2>7. Transferring'
    <3> SUFFICES ASSUME phase \in {"begin", "chunk", "crc"} PROVE Told'
      BY <1>1 DEF Transferring
    <3>1. Told
      BY <2>1, <2>2 DEF Talking, Transferring, Telling, Mute
    <3>2. To' = To /\ (Muted <=> Muted')
      BY <1>1 DEF To, Want, Muted
    <3> QED BY <1>1, <1>2, <2>3, <3>1, <3>2 DEF Told
  <2> QED BY <1>1, <1>2, <1>3, <2>1, <2>2, <2>5, <2>6, <2>7 DEF Up, Talking, Ending
<1>4. CASE dpc \notin {"push", "wait"}
  BY <1>1, <1>2, <1>4 DEF Up, Reading, Ending, Muted
<1> QED BY <1>3, <1>4

\* The FPGA comes up with stage 2 back in its main loop.
LEMMA BlankUp ==
    ASSUME TypeOK, Books, Blank, NEW c, ComeUp(c), UNCHANGED <<ring, down, dockVars>>, spc' = "main"
    PROVE  Up'
<1>1. /\ UNCHANGED <<ring, down, dpc, phase, out, hold, wdg>>
      /\ fifo' = <<>> /\ fresh' = FALSE /\ fifo = <<>> /\ ring = <<>> /\ down = <<>> /\ spc' = "main"
  BY DEF dockVars, ComeUp, BridgeReset, Blank, Empty
<1>2. Empty' /\ spc' \in S2Waiting /\ (\A x : Single(x) => Single(x)')
  BY <1>1 DEF Empty, S2Waiting, Single
<1>3. dpc = "boot" => Underway'
  BY <1>1, <1>2, EmptySingle DEF Underway, Books, Empty
<1>4. dpc # "read"
  BY DEF Blank
<1>5. CASE dpc \in {"push", "wait"}
  <2>1. OneAnswer' /\ \A r : ~Answered(r)'
    BY <1>1 DEF OneAnswer, Answered
  <2>2. phase # "none" /\ Pinging' /\ Asking' /\ Transferring'
    BY <1>1, <1>2, <1>5 DEF Blank, Pinging, Asking, Transferring
  <2>3. LoadSaid'
    <3> SUFFICES ASSUME phase = "load" PROVE LoadSaid'
      BY <1>1 DEF LoadSaid
    <3>1. dpc = "wait" /\ ~wdg /\ hold /\ out = <<>>
      BY <1>5 DEF Blank, Books
    <3>2. Single("L")'
      BY <1>1, <1>2, <3>1, EmptySingle DEF Empty
    <3> QED BY <1>1, <1>2, <3>1, <3>2 DEF LoadSaid, Receiving
  <2> QED BY <1>1, <1>2, <1>5, <2>1, <2>2, <2>3 DEF Up, Talking
<1>6. CASE dpc \notin {"push", "wait"}
  BY <1>1, <1>2, <1>3, <1>4, <1>6 DEF Up
<1> QED BY <1>5, <1>6

-----------------------------------------------------------------------------
LEMMA NotSpent ==
    ASSUME TypeOK, Clean, Clean', NEW f \in {"up", "serial", "stall"}
    PROVE  ~Spend(f)
<1>1. left[f] = MaxFaults[f] /\ left'[f] = MaxFaults[f]
  BY DEF Clean
<1>2. left \in [Faults -> Nat] /\ f \in Faults
  BY DEF TypeOK, LinkTypeOK, Faults
<1> QED BY <1>1, <1>2 DEF Spend

LEMMA LinkConv ==
    ASSUME TypeOK, BlankWhy, RingTakesChunk, Conv, Clean, Clean', LinkStep
    PROVE  Conv'
<1>1. Books' /\ UNCHANGED <<present, spc, dockVars>>
  BY DEF LinkStep, s2Vars, dockVars, Conv, Books
<1>2. CASE LoseUp \/ SerialNoise
  BY <1>2, NotSpent DEF LoseUp, SerialNoise
<1>3. CASE Transmit
  <2>1. Running /\ Running' /\ UNCHANGED <<spc, down, fresh, dpc, phase>>
    BY <1>1, <1>3 DEF Transmit, fpgaVars, Running, dockVars
  <2>2. present => Up'
    BY <1>1, <1>3, <2>1, UpTransmit DEF Conv, LinkStep
  <2>3. ~present => Absent'
    BY <1>1, <2>1 DEF Conv, Absent
  <2> QED BY <1>1, <2>1, <2>2, <2>3 DEF Conv
<1>4. CASE Deliver \/ LoseDown
  <2>1. down # <<>> /\ down' = Tail(down) /\ UNCHANGED <<claimed, fifo, ring, fpgaVars>>
    BY <1>4 DEF Deliver, LoseDown
  <2>2. Running => (last' = Head(down) /\ fresh' = TRUE) \/ UNCHANGED <<last, fresh>>
    BY <1>4 DEF Deliver, LoseDown
  <2>3. present /\ Running
    BY <2>1 DEF Conv, Blank, Absent
  <2>4. Up'
    BY <1>1, <2>1, <2>2, <2>3, UpAnswer DEF Conv, LinkStep
  <2>5. Running' /\ present'
    BY <1>1, <2>1, <2>3 DEF Running, fpgaVars
  <2> QED BY <1>1, <2>4, <2>5 DEF Conv
<1>5. CASE FlashBoot
  <2>1. booting /\ ~Running /\ FlashCore \in Cores /\ ComeUp(FlashCore) /\ UNCHANGED <<ring, down>>
    BY <1>5, BoardAssumption DEF FlashBoot, BlankWhy
  <2>2. present /\ Blank
    BY <2>1 DEF Conv, Absent
  <2>3. spc = "main"
    BY <2>1, <2>2 DEF Blank
  <2>4. Up' /\ Running'
    BY <1>1, <2>1, <2>2, <2>3, BlankUp, CoresAssumption DEF Conv, ComeUp, Running
  <2> QED BY <1>1, <2>2, <2>4 DEF Conv
<1> QED BY <1>2, <1>3, <1>4, <1>5 DEF LinkStep, LinkNext

-----------------------------------------------------------------------------
(* Stage 2 takes a token.                                                  *)

Takes == Listen \/ Header \/ Payload \/ CheckStaged

LEMMA TakesFrame ==
    ASSUME Takes
    PROVE  /\ present /\ spc \in S2Waiting /\ ring # <<>> /\ ring' = Tail(ring)
           /\ UNCHANGED <<claimed, fifo, fresh, last, fpga, booting, left, present>>
<1> USE DEF Hear, Take, fpgaVars, S2Waiting, Receiving
<1>1. CASE Listen
  BY <1>1 DEF Listen, Ping, Caps, BeginLegacy, CmdStatus, NotOurs, CmdBegin, CmdLoad, CmdReload
<1>2. CASE Header \/ Payload \/ CheckStaged
  BY <1>2 DEF Header, Payload, CheckStaged
<1> QED BY <1>1, <1>2 DEF Takes

\* A command is heard for what it is.
LEMMA HeardAs == ASSUME NEW x \in Commands PROVE Heard(Cmd(x)) = {x} /\ Cmd(x).kind = x
BY DEF Heard, Cmd

\* The one command that is under way.
LEMMA TakesOnly ==
    ASSUME TypeOK, Takes, NEW x, Single(x)
    PROVE  Head(ring) = Cmd(x) /\ ring' = <<>> /\ fifo = <<>> /\ out = <<>> /\ Empty'
<1>1. ring # <<>> /\ ring' = Tail(ring) /\ fifo' = fifo
  BY TakesFrame
<1>2. ring \in Seq(Token) /\ fifo \in Seq(Token) /\ out \in Seq(Token)
  BY DEF TypeOK, LinkTypeOK, DockTypeOK
<1>3. Len(ring) \in Nat \ {0} /\ Head(ring) = ring[1] /\ Len(fifo) \in Nat /\ Len(out) \in Nat
  BY <1>1, <1>2, TailIs, EmptyIs
<1>4. Len(ring) = 1 /\ Len(fifo) = 0 /\ Len(out) = 0
  BY <1>3 DEF Single
<1> QED BY <1>1, <1>2, <1>3, <1>4, LenOne, EmptyIs DEF Single, Empty

\* A ping or the question for the version: what is not heard for it is a
\* token of a transfer that ended early.
LEMMA TakesShort ==
    ASSUME TypeOK, Takes, NEW x \in {"P", "V"}, Single(x)
    PROVE  /\ spc' \in S2Waiting
           /\ \/ down' = down
              \/ \E r \in Codes : down' = Append(down, r) /\ (r = "VERSION51" => spc' = "main")
<1>1. Head(ring) = Cmd(x) /\ Heard(Head(ring)) = {x} /\ x \in Commands
  BY TakesOnly, HeardAs DEF Commands
<1> USE DEF S2Waiting, Receiving, Codes
<1>2. CASE Listen
  <2>1. Ping \/ Caps
    BY <1>1, <1>2 DEF Listen, BeginLegacy, CmdStatus, NotOurs, CmdBegin, CmdLoad, CmdReload, Hear
  <2> QED BY <2>1 DEF Ping, Caps, Hear, Take, Reply
<1>3. CASE Header
  <2>1. spc' \in {"hdr", "main", "data"}
    BY <1>3 DEF Header, Take
  <2>2. down' = down \/ down' = Append(down, "ELENGTH") \/ down' = Append(down, "OK")
    BY <1>3 DEF Header, Reply
  <2> QED BY <2>1, <2>2
<1>4. CASE Payload
  <2>1. spc' \in {"data", "tail"} /\ (down' = down \/ down' = Append(down, "OK"))
    BY <1>4 DEF Payload, Reply
  <2> QED BY <2>1
<1>5. CASE CheckStaged
  <2>1. spc' \in {"main", "tail"}
    BY <1>5 DEF CheckStaged, Take
  <2>2. down' = down \/ down' = Append(down, "ECRC") \/ down' = Append(down, "OK")
    BY <1>5 DEF CheckStaged, Reply
  <2> QED BY <2>1, <2>2
<1> QED BY <1>2, <1>3, <1>4, <1>5 DEF Takes

-----------------------------------------------------------------------------
\* What stage 2 does with the next token of a transfer that is on script.
Answers(c) ==
    IF Pos' = 1 THEN down' = down
    ELSE IF Pos' = 2 \/ (Pos' - 2) % Chunk = 0 \/ Pos' - 2 = Pieces[c]
            THEN down' = Append(down, "OK") ELSE down' = down

LEMMA TakesScript ==
    ASSUME TypeOK, Bookkept, Takes, NEW c \in Cores, OnScript(c)
    PROVE  \/ /\ Pos' = Pos + 1 /\ Pos < Pieces[c] + 2 /\ Answers(c)
              /\ spc' \in Receiving /\ intact' /\ (spc' \in {"data", "tail"} => hdr' = c)
              /\ spc' \in {"data", "tail"} => got' + 2 = Pos'
              /\ Pos' \in Nat \ {0} /\ (Pos' >= 2 => spc' \in {"data", "tail"})
           \/ /\ Pos = Pieces[c] + 2 /\ spc' = "main"
              /\ \E r \in {"OK", "ECRC"} :
                    down' = Append(down, r) /\ (r = "OK" => staged_valid' /\ hdr' = c)
<1>1. /\ spc \in S2Waiting /\ (spc \in Receiving => intact) /\ (spc \in {"data", "tail"} => hdr = c)
      /\ Along(ring, c, Pos)
  BY DEF OnScript
<1>2. Typed /\ Pos \in Nat /\ ring # <<>>
  BY TypedIs, PosIs, TakesFrame
<1>3. Head(ring) = Script(c, Pos + 1)
  BY <1>1, <1>2, TakeOn DEF Typed
<1>4. Pieces[c] \in Nat \ {0} /\ got \in Nat
  BY <1>2, PiecesIs DEF Typed
<1> USE DEF Receiving
<1>5. CASE Listen
  <2>1. spc = "main" /\ Pos = 0
    BY <1>5 DEF Listen, Ping, Caps, BeginLegacy, CmdStatus, NotOurs, CmdBegin, CmdLoad, CmdReload,
                Hear, Take, Pos
  <2>2. Head(ring) = Cmd("C") /\ Heard(Head(ring)) = {"C"}
    BY <1>3, <2>1, HeardAs DEF Script, Commands
  <2>3. CmdBegin
    BY <1>5, <2>2 DEF Listen, Ping, Caps, BeginLegacy, CmdStatus, NotOurs, CmdLoad, CmdReload, Hear
  <2>4. spc' = "hdr" /\ intact' = TRUE /\ down' = down
    BY <2>3 DEF CmdBegin
  <2>5. Pos' = 1
    BY <2>4 DEF Pos
  <2> QED BY <1>4, <2>1, <2>4, <2>5 DEF Answers
<1>6. CASE Header
  <2>1. spc = "hdr" /\ Pos = 1 /\ intact /\ got = 0
    BY <1>1, <1>6 DEF Header, Take, Pos, Bookkept
  <2>2. Head(ring) = Hdr(c)
    BY <1>3, <2>1 DEF Script
  <2>3. Head(ring).kind = "hdr" /\ Head(ring).core = c
    BY <2>2 DEF Hdr
  <2>4. hdr' = c /\ spc' = "data" /\ down' = Append(down, "OK") /\ intact' = intact /\ got' = 0
    BY <1>6, <2>1, <2>3 DEF Header, Reply
  <2>5. Pos' = 2
    BY <2>4 DEF Pos
  <2> QED BY <1>4, <2>1, <2>4, <2>5 DEF Answers
<1>7. CASE Payload
  <2>1. spc = "data" /\ Pos = got + 2 /\ intact /\ hdr = c /\ packed = Pieces[c] /\ got < packed
    BY <1>1, <1>7 DEF Payload, Take, Pos, Bookkept
  <2>2. Head(ring) = Data(hdr, got + 1)
    <3>1. Pos + 1 = got + 3 /\ Pos + 1 # 1 /\ Pos + 1 # 2 /\ Pos + 1 <= Pieces[c] + 2 /\ Pos + 1 - 2 = got + 1
      BY <1>4, <2>1
    <3> QED BY <1>3, <2>1, <3>1 DEF Script
  <2>3. intact' = TRUE /\ hdr' = c
    BY <1>7, <2>1, <2>2 DEF Payload
  <2>4. got' = got + 1
    BY <1>7, <2>3 DEF Payload
  <2>5. spc' \in {"data", "tail"}
    BY <1>7 DEF Payload
  <2>6. Pos' = got' + 2
    BY <2>5 DEF Pos
  <2>7. Answers(c)
    <3>1. IF got' % Chunk = 0 \/ got' = Pieces[c] THEN down' = Append(down, "OK") ELSE down' = down
      BY <1>4, <1>7, <2>1, <2>4 DEF Payload, Reply
    <3>2. Pos' # 1 /\ Pos' # 2 /\ Pos' - 2 = got'
      BY <1>4, <2>4, <2>6
    <3> QED BY <3>1, <3>2 DEF Answers
  <2> QED BY <1>4, <2>1, <2>3, <2>4, <2>5, <2>6, <2>7
<1>8. CASE CheckStaged
  <2>1. spc = "tail" /\ Pos = got + 2 /\ intact /\ hdr = c /\ got = Pieces[c]
    BY <1>1, <1>8 DEF CheckStaged, Take, Pos, Bookkept
  <2>2. Head(ring) = Crc(hdr)
    <3>1. Pos + 1 # 1 /\ Pos + 1 # 2 /\ ~(Pos + 1 <= Pieces[c] + 2)
      BY <1>4, <2>1
    <3> QED BY <1>3, <2>1, <3>1 DEF Script
  <2>3. hdr' = hdr /\ spc' = "main"
    BY <1>8, <2>1, <2>2 DEF CheckStaged
  <2>4. \/ staged_valid' = TRUE /\ down' = Append(down, "OK")
        \/ down' = Append(down, "ECRC")
    BY <1>8, <2>1, <2>2 DEF CheckStaged, Reply
  <2> QED BY <2>1, <2>3, <2>4
<1> QED BY <1>5, <1>6, <1>7, <1>8 DEF Takes

\* What follows it stays on script.
LEMMA ScriptTaken ==
    ASSUME TypeOK, Takes, NEW c \in Cores, OnScript(c), Pos' = Pos + 1,
           spc' \in Receiving, intact', spc' \in {"data", "tail"} => hdr' = c
    PROVE  /\ OnScript(c)' /\ Len(ring') = Len(ring) - 1 /\ Len(ring) \in Nat /\ Len(fifo) \in Nat
           /\ Pos' + Len(ring') = Pos + Len(ring)
<1>1. Typed /\ Pos \in Nat /\ ring # <<>> /\ ring' = Tail(ring) /\ fifo' = fifo
  BY TypedIs, PosIs, TakesFrame
<1>2. Along(ring, c, Pos) /\ Along(fifo, c, Pos + Len(ring))
  BY DEF OnScript
<1>3. Along(ring', c, Pos + 1) /\ Len(ring') = Len(ring) - 1 /\ Len(ring) \in Nat
  BY <1>1, <1>2, TakeOn DEF Typed
<1>4. Len(fifo) \in Nat
  BY <1>1, EmptyIs DEF Typed
<1>5. Pos' + Len(ring') = Pos + Len(ring)
  BY <1>1, <1>3
<1>6. Along(ring', c, Pos') /\ Along(fifo', c, Pos' + Len(ring'))
  BY <1>1, <1>2, <1>3, <1>5
<1>7. /\ Pos' + Len(ring') + Len(fifo') = Pos + Len(ring) + Len(fifo)
      /\ Len(ring') + Len(fifo') <= Len(ring) + Len(fifo)
  BY <1>1, <1>3, <1>4, <1>5
<1>8. /\ Pos' + Len(ring') + Len(fifo') <= Pieces[c] + 3
      /\ Len(ring') + Len(fifo') <= Burst
  <2>1. Len(ring') + Len(fifo') \in Nat /\ Len(ring) + Len(fifo) \in Nat /\ Burst \in Int
    BY <1>1, <1>3, <1>4, SizesAssumption, EmptyIs, TailIs DEF Typed, Burst
  <2> QED BY <1>7, <2>1 DEF OnScript
<1>9. spc' \in S2Waiting /\ (spc' \in Receiving => intact') /\ (spc' \in {"data", "tail"} => hdr' = c)
  BY DEF S2Waiting
<1> QED BY <1>1, <1>3, <1>4, <1>5, <1>6, <1>8, <1>9 DEF OnScript, Burst

\* The last of it leaves nothing under way.
LEMMA ScriptEnds ==
    ASSUME TypeOK, Takes, NEW c \in Cores, OnScript(c), Pos = Pieces[c] + 2
    PROVE  Empty' /\ Len(ring) = 1 /\ Len(fifo) = 0
<1>1. Typed /\ Pos \in Nat /\ ring # <<>> /\ ring' = Tail(ring) /\ fifo' = fifo
  BY TypedIs, PosIs, TakesFrame
<1>2. Len(ring) \in Nat \ {0} /\ Len(fifo) \in Nat /\ Pieces[c] \in Nat
  BY <1>1, TailIs, EmptyIs, PiecesIs DEF Typed
<1>3. Pos + Len(ring) + Len(fifo) <= Pieces[c] + 3
  BY DEF OnScript
<1>4. Len(ring) = 1 /\ Len(fifo) = 0
  <2>1. \A k, l, n \in Nat : (n + 2) + k + l <= n + 3 /\ k # 0 => k = 1 /\ l = 0
    OBVIOUS
  <2> QED BY <1>2, <1>3, <2>1
<1>5. ring' = <<>> /\ fifo' = <<>>
  BY <1>1, <1>4, LenOne, EmptyIs DEF Typed
<1> QED BY <1>4, <1>5 DEF Empty

LEMMA QuietSingle == ASSUME Empty', out' = <<>>, NEW x PROVE Single(x)'
BY DEF Empty, Single

\* A dock that was restarted hears none of it.
LEMMA TakesBoot ==
    ASSUME TypeOK, Bookkept, Books, Underway, dpc = "boot", Takes, UNCHANGED dockVars
    PROVE  spc' \in S2Waiting /\ Underway'
<1>1. out = <<>> /\ out' = <<>> /\ ring # <<>> /\ (Muted' <=> Muted)
  BY TakesFrame DEF Books, dockVars, Muted
<1>2. ASSUME NEW x \in {"P", "V"}, Single(x) PROVE spc' \in S2Waiting /\ Underway'
  <2>1. spc' \in S2Waiting /\ Empty'
    BY <1>2, TakesShort, TakesOnly
  <2>2. Single("P")'
    BY <1>1, <2>1, QuietSingle
  <2> QED BY <2>1, <2>2 DEF Underway
<1>3. ASSUME ~Muted, NEW c \in Cores, OnScript(c) PROVE spc' \in S2Waiting /\ Underway'
  <2>1. CASE Pos = Pieces[c] + 2 /\ spc' = "main"
    <3>1. Single("P")'
      BY <1>1, <1>3, <2>1, ScriptEnds, QuietSingle
    <3> QED BY <2>1, <3>1 DEF Underway, S2Waiting
  <2>2. CASE Pos' = Pos + 1 /\ spc' \in Receiving /\ intact' /\ (spc' \in {"data", "tail"} => hdr' = c)
    <3>1. OnScript(c)'
      BY <1>3, <2>2, ScriptTaken
    <3> QED BY <1>1, <1>3, <2>2, <3>1 DEF Underway, S2Waiting
  <2> QED BY <1>3, <2>1, <2>2, TakesScript
<1> QED BY <1>1, <1>2, <1>3 DEF Underway

\* Stage 2 answers at the end of what the dock says at once, and not before.
LEMMA WantIs ==
    ASSUME TypeOK, target \in Cores, sent < Pieces[target]
    PROVE  /\ Want \in 1 .. Chunk /\ sent + Want <= Pieces[target] /\ sent \in Nat /\ Chunk \in Nat
           /\ Pieces[target] \in Nat
           /\ Want = Chunk \/ sent + Want = Pieces[target]
<1>1. Pieces[target] \in Nat /\ sent \in Nat /\ Chunk \in Nat \ {0}
  BY PiecesIs, SizesAssumption DEF TypeOK, DockTypeOK
<1> QED BY <1>1 DEF Want

LEMMA TakesTelling ==
    ASSUME TypeOK, Bookkept, Books, dpc \in {"push", "wait"}, phase \in {"begin", "chunk", "crc"},
           Telling, Takes, UNCHANGED dockVars
    PROVE  /\ spc' \in S2Waiting
           /\ \/ Telling'
              \/ /\ Told' /\ fresh' = FALSE
                 /\ down' = <<>> \/ \E r \in Codes : down' = <<r>>
<1>1. /\ ~Muted /\ ~fresh /\ down = <<>> /\ OnScript(target) /\ From <= Pos /\ Pos < To
      /\ Along(out, target, Pos + Len(ring) + Len(fifo))
      /\ Pos + Len(ring) + Len(fifo) + Len(out) = To
  BY DEF Telling
<1>2. target \in Cores
  BY DEF TypeOK, DockTypeOK
<1>3. /\ UNCHANGED <<fifo, fresh, dpc, phase, target, out, sent>> /\ ring # <<>> /\ ring' = Tail(ring)
      /\ (Muted' <=> Muted) /\ From' = From /\ To' = To
  BY TakesFrame DEF dockVars, Muted, From, To, Want
<1>4. Typed /\ Pos \in Nat /\ Pieces[target] \in Nat \ {0} /\ sent \in Nat
  BY <1>2, TypedIs, PosIs, PiecesIs DEF Typed
<1>5. Len(ring) \in Nat \ {0} /\ Len(fifo) \in Nat /\ Len(out) \in Nat
  BY <1>3, <1>4, TailIs, EmptyIs DEF Typed
<1>6. \A r : Append(<<>>, r) = <<r>>
  OBVIOUS
<1>t. To \in Int
  BY <1>1, <1>4, <1>5
<1>7. CASE Pos = Pieces[target] + 2 /\ spc' = "main"
           /\ \E r \in {"OK", "ECRC"} :
                 down' = Append(down, r) /\ (r = "OK" => staged_valid' /\ hdr' = target)
  <2>1. phase = "crc"
    <3>1. phase = "chunk" => sent < Pieces[target] /\ To = sent + Want + 2 /\ To <= Pieces[target] + 2
      BY <1>2, <1>4, WantIs DEF To, Books
    <3>2. phase = "begin" => To = 2
      BY DEF To
    <3> QED BY <1>1, <1>4, <1>7, <1>t, <3>1, <3>2
  <2>2. Empty' /\ Len(ring) = 1 /\ Len(fifo) = 0
    BY <1>1, <1>2, <1>7, ScriptEnds
  <2>3. out = <<>>
    <3>1. To = Pieces[target] + 3
      BY <2>1 DEF To
    <3>2. Len(out) = 0
      <4>1. \A n, k \in Nat : (n + 2) + 1 + 0 + k = n + 3 => k = 0
        OBVIOUS
      <4> QED BY <1>1, <1>4, <1>5, <1>7, <2>2, <3>1, <4>1
    <3> QED BY <1>4, <3>2, EmptyIs DEF Typed
  <2>4. dpc = "wait"
    BY <2>3 DEF Books
  <2>5. PICK r \in {"OK", "ECRC"} : down' = <<r>> /\ (r = "OK" => staged_valid' /\ hdr' = target)
    BY <1>1, <1>6, <1>7
  <2>6. Answered("OK")' => staged_valid' /\ hdr' = target
    BY <1>1, <1>3, <2>5 DEF Answered
  <2>7. Told'
    BY <1>1, <1>3, <1>7, <2>1, <2>2, <2>4, <2>6 DEF Told, S2Waiting
  <2> QED BY <1>1, <1>3, <1>7, <2>5, <2>7 DEF S2Waiting, Codes
<1>8. CASE /\ Pos' = Pos + 1 /\ Pos < Pieces[target] + 2 /\ Answers(target)
           /\ spc' \in Receiving /\ intact' /\ (spc' \in {"data", "tail"} => hdr' = target)
           /\ spc' \in {"data", "tail"} => got' + 2 = Pos'
           /\ Pos' \in Nat \ {0} /\ (Pos' >= 2 => spc' \in {"data", "tail"})
  <2>1. /\ OnScript(target)' /\ Pos' + Len(ring') = Pos + Len(ring) /\ Len(ring') = Len(ring) - 1
    <3>1. PICK c \in Cores : c = target /\ target' = c /\ OnScript(c)
      BY <1>1, <1>2, <1>3
    <3>2. OnScript(c)' /\ Pos' + Len(ring') = Pos + Len(ring) /\ Len(ring') = Len(ring) - 1
      BY <1>8, <3>1, ScriptTaken
    <3> QED BY <3>1, <3>2
  <2>2. phase # "crc"
    BY <1>1, <1>8, <1>4 DEF From
  <2>3. CASE Pos' < To
    <3>1. down' = <<>>
      <4>1. CASE phase = "begin"
        <5>1. To = 2 /\ Pos' = 1
          BY <1>4, <1>8, <2>3, <4>1 DEF To
        <5> QED BY <1>1, <1>8, <5>1 DEF Answers
      <4>2. CASE phase = "chunk"
        <5>1. /\ Want \in 1 .. Chunk /\ sent + Want <= Pieces[target] /\ Chunk \in Nat
              /\ sent % Chunk = 0 /\ From = sent + 2 /\ To = sent + Want + 2
          BY <1>2, <4>2, WantIs DEF Books, From, To
        <5> DEFINE k == Pos' - 2 - sent
        <5>2. k \in 1 .. Chunk - 1 /\ Pos' - 2 = sent + k /\ sent + k < Pieces[target] /\ Pos' > 2
          BY <1>1, <1>4, <1>8, <2>3, <5>1
        <5>3. (Pos' - 2) % Chunk # 0
          <6>1. (sent + k) % Chunk # 0
            BY <1>4, <5>1, <5>2, ChunkEnds
          <6> QED BY <5>2, <6>1
        <5>4. Pos' # 1 /\ Pos' # 2 /\ Pos' - 2 # Pieces[target]
          BY <1>4, <5>2
        <5> QED BY <1>1, <1>8, <5>3, <5>4 DEF Answers
      <4> QED BY <2>2, <4>1, <4>2
    <3>2. From <= Pos'
      <4>1. From \in Int
        BY <1>4, SizesAssumption DEF From
      <4> QED BY <1>1, <1>4, <1>8, <4>1
    <3>3. /\ Pos' + Len(ring') + Len(fifo') = Pos + Len(ring) + Len(fifo)
          /\ Pos' + Len(ring') + Len(fifo') + Len(out') = Pos + Len(ring) + Len(fifo) + Len(out)
      BY <1>3, <2>1
    <3>4. Along(out', target', Pos' + Len(ring') + Len(fifo'))
      BY <1>1, <1>3, <3>3 DEF Along, Script
    <3>5. Telling'
      BY <1>1, <1>3, <2>1, <2>3, <3>1, <3>2, <3>3, <3>4 DEF Telling
    <3> QED BY <1>8, <3>5 DEF S2Waiting
  <2>4. CASE Pos' = To
    <3>1. Len(ring) = 1 /\ Len(fifo) = 0 /\ Len(out) = 0
      <4>1. Pos + Len(ring) + Len(fifo) + Len(out) = Pos + 1
        BY <1>1, <1>8, <2>4
      <4> QED BY <1>4, <1>5, <4>1
    <3>2. out = <<>> /\ Empty'
      BY <1>3, <1>4, <3>1, EmptyIs, LenOne DEF Typed, Empty
    <3>3. dpc = "wait"
      BY <3>2 DEF Books
    <3>4. Pos' >= 2
      BY <1>1, <1>4, <1>8, <2>4, <2>2, SizesAssumption DEF To, From
    <3>5. down' = <<>> \/ down' = <<"OK">>
      BY <1>1, <1>6, <1>8 DEF Answers
    <3>6. Told'
      BY <1>1, <1>3, <1>8, <2>2, <2>4, <3>2, <3>3, <3>4 DEF Told, S2Waiting
    <3> QED BY <1>1, <1>3, <1>8, <3>5, <3>6 DEF S2Waiting, Codes
  <2>5. Pos' < To \/ Pos' = To
    <3>1. Pos < To /\ Pos' = Pos + 1
      BY <1>1, <1>8
    <3> QED BY <1>4, <1>t, <3>1
  <2> QED BY <2>3, <2>4, <2>5
<1> QED BY <1>1, <1>2, <1>7, <1>8, TakesScript

-----------------------------------------------------------------------------
\* Taking the load command.
LEMMA TakesLoad ==
    ASSUME TypeOK, Takes, Single("L"), spc = "main", staged_valid
    PROVE  spc' = "loadDelay" /\ down' = Append(down, "OK") /\ staged_valid'
<1>1. Head(ring) = Cmd("L") /\ Heard(Head(ring)) = {"L"}
  BY TakesOnly, HeardAs DEF Commands
<1>2. CmdLoad
  BY <1>1 DEF Takes, Listen, Ping, Caps, BeginLegacy, CmdStatus, NotOurs, CmdBegin, CmdReload, Hear,
              Header, Payload, CheckStaged, Take
<1> QED BY <1>2 DEF CmdLoad, Reply

LEMMA TakesTalking ==
    ASSUME TypeOK, Bookkept, Books, Talking, dpc \in {"push", "wait"}, Takes, UNCHANGED dockVars
    PROVE  Talking' /\ (spc' \in S2Waiting \/ (spc' = "loadDelay" /\ Ending'))
<1>1. /\ ring # <<>> /\ ~Empty /\ ~fresh /\ down = <<>> /\ fresh' = fresh
      /\ UNCHANGED <<dpc, phase, target, out, mounted, wdg, hold>> /\ (Muted' <=> Muted)
  BY TakesFrame DEF Talking, OneAnswer, Empty, dockVars, Muted
<1>2. \A r : Append(<<>>, r) = <<r>> /\ Len(<<r>>) = 1
  OBVIOUS
<1>3. \A r, s : <<r>> = <<s>> => r = s
  OBVIOUS
<1> USE DEF Talking
<1>4. ASSUME NEW x \in {"P", "V"}, Single(x), phase = IF x = "P" THEN "ping" ELSE "caps"
      PROVE  Talking' /\ spc' \in S2Waiting
  <2>1. Empty' /\ out' = <<>> /\ spc' \in S2Waiting
    BY <1>1, <1>4, TakesOnly, TakesShort
  <2>2. down' = <<>> \/ \E r : down' = <<r>> /\ (r = "VERSION51" => spc' = "main")
    BY <1>1, <1>2, <1>4, TakesShort
  <2>3. Len(down') <= 1
    BY <1>2, <2>2
  <2>4. OneAnswer'
    BY <1>1, <2>1, <2>3 DEF OneAnswer
  <2>5. Single("P")' /\ Single("V")'
    BY <2>1, QuietSingle
  <2>6. Answered("VERSION51")' => spc' = "main"
    BY <1>1, <1>3, <2>2 DEF Answered
  <2> QED BY <1>1, <1>4, <2>1, <2>4, <2>5, <2>6 DEF Pinging, Asking, Transferring, LoadSaid
<1>5. CASE phase \in {"begin", "chunk", "crc"}
  <2>1. Telling
    BY <1>1, <1>5 DEF Transferring, Told, Mute
  <2>2. /\ spc' \in S2Waiting
        /\ \/ Telling'
           \/ /\ Told' /\ fresh' = FALSE
              /\ down' = <<>> \/ \E r \in Codes : down' = <<r>>
    BY <1>5, <2>1, TakesTelling
  <2>3. OneAnswer'
    <3>1. CASE Telling'
      BY <3>1 DEF Telling, OneAnswer
    <3>2. CASE Told' /\ (down' = <<>> \/ \E r \in Codes : down' = <<r>>)
      <4>1. Empty' /\ dpc' = "wait" /\ out' = <<>>
        BY <1>1, <3>2 DEF Told, Books
      <4>2. Len(down') <= 1
        <5>1. down' = <<>> => Len(down') <= 1
          OBVIOUS
        <5>2. ASSUME NEW r \in Codes, down' = <<r>> PROVE Len(down') <= 1
          BY <5>2
        <5> QED BY <3>2, <5>1, <5>2
      <4>3. fresh' = FALSE
        BY <1>1
      <4> QED BY <4>1, <4>2, <4>3 DEF OneAnswer
    <3> QED BY <2>2, <3>1, <3>2
  <2> QED BY <1>1, <1>5, <2>2, <2>3 DEF Pinging, Asking, Transferring, LoadSaid
<1>6. CASE phase = "load"
  <2>1. Single("L") /\ spc = "main" /\ staged_valid /\ ~wdg /\ hold
    BY <1>1, <1>6 DEF LoadSaid
  <2>2. Empty' /\ out' = <<>> /\ spc' = "loadDelay" /\ down' = <<"OK">> /\ staged_valid'
    BY <1>1, <1>2, <2>1, TakesOnly, TakesLoad
  <2>3. OneAnswer'
    BY <1>1, <1>2, <2>2 DEF OneAnswer
  <2>4. LoadSaid'
    <3>1. Single("L")'
      BY <2>2, QuietSingle
    <3> QED BY <1>1, <1>6, <2>1, <2>2, <3>1 DEF LoadSaid, Answered, Receiving
  <2>5. Ending'
    BY <1>1, <1>6, <2>1, <2>2 DEF Ending, Books
  <2> QED BY <1>1, <1>6, <2>2, <2>3, <2>4, <2>5 DEF Pinging, Asking, Transferring
<1>7. phase \in {"ping", "caps", "begin", "chunk", "crc", "load"}
  BY DEF TypeOK, DockTypeOK, Phases
<1> QED BY <1>1, <1>4, <1>5, <1>6, <1>7 DEF Pinging, Asking

LEMMA TakesConv ==
    ASSUME TypeOK, Bookkept, Conv, Takes, UNCHANGED dockVars
    PROVE  Conv'
<1>1. /\ present /\ ring # <<>> /\ UNCHANGED <<fpga, present>> /\ dpc' = dpc /\ out' = out /\ ~Empty
      /\ spc \in S2Waiting
  BY TakesFrame DEF dockVars, Empty
<1>2. Running /\ Running' /\ present' /\ Up /\ Books
  BY <1>1 DEF Conv, Blank, Running
<1>3. Books'
  BY <1>2 DEF Books, dockVars
<1>4. CASE dpc = "boot"
  <2>1. spc' \in S2Waiting /\ Underway'
    BY <1>2, <1>4, TakesBoot DEF Up
  <2>2. Up'
    BY <1>1, <1>4, <2>1 DEF Up
  <2> QED BY <1>2, <1>3, <2>2 DEF Conv
<1>5. CASE dpc \in {"push", "wait"}
  <2>1. Talking' /\ (spc' \in S2Waiting \/ (spc' = "loadDelay" /\ Ending'))
    BY <1>2, <1>5, TakesTalking DEF Up
  <2>2. Up'
    BY <1>1, <1>5, <2>1 DEF Up
  <2> QED BY <1>2, <1>3, <2>2 DEF Conv
<1>6. dpc \in {"boot", "push", "wait"}
  BY <1>1, <1>2 DEF Up, Reading, TypeOK, DockTypeOK
<1> QED BY <1>4, <1>5, <1>6

-----------------------------------------------------------------------------
(* Stage 2 without a token: the byte timeout and the FPGA.                 *)

LEMMA SilenceConv ==
    ASSUME TypeOK, Conv, Clean, Clean', ByteTimeout, DockSilent, UNCHANGED dockVars
    PROVE  Conv'
<1>1. /\ present /\ spc \in Receiving /\ ring = <<>> /\ fifo = <<>> /\ Empty
      /\ spc' = "main" /\ down' = Append(down, "EABORT")
      /\ UNCHANGED <<ring, fifo, fresh, claimed, fpga, present>>
      /\ UNCHANGED <<dpc, phase, out, wdg, hold, mounted>> /\ (Muted' <=> Muted)
  BY DEF ByteTimeout, DockSilent, Reply, Empty, fpgaVars, dockVars, Muted
<1>2. Running /\ Running' /\ present' /\ Up /\ Books
  BY <1>1 DEF Conv, Blank, Running, Receiving
<1>3. Books' /\ Empty' /\ spc' \in S2Waiting
  BY <1>1, <1>2 DEF Books, dockVars, Empty, S2Waiting
<1>4. dpc \notin {"read", "push", "open"}
  BY <1>2, NotSpent DEF DockSilent
<1>5. out = <<>> /\ out' = <<>>
  BY <1>1, <1>2, <1>4 DEF Books
<1>6. Single("P")' /\ Single("V")'
  BY <1>3, <1>5, QuietSingle
<1>7. CASE dpc = "wait"
  <2>1. ~fresh /\ down = <<>> /\ down' = <<"EABORT">> /\ Len(down') = 1
    BY <1>1, <1>7 DEF DockSilent
  <2>2. OneAnswer' /\ ~(Answered("OK")') /\ ~(Answered("VERSION51")')
    BY <1>1, <1>3, <1>5, <2>1 DEF OneAnswer, Answered
  <2>3. Talking
    BY <1>2, <1>7 DEF Up
  <2>4. Transferring'
    <3> SUFFICES ASSUME phase \in {"begin", "chunk", "crc"} PROVE Told'
      BY <1>1 DEF Transferring
    <3>1. ~Telling
      <4> SUFFICES ASSUME Telling PROVE FALSE
        OBVIOUS
      <4>1. Pos + Len(ring) + Len(fifo) + Len(out) = To /\ Pos < To /\ Pos \in Nat
        BY TypedIs, PosIs DEF Telling
      <4>2. Len(ring) = 0 /\ Len(fifo) = 0 /\ Len(out) = 0
        BY <1>1, <1>5
      <4> QED BY <4>1, <4>2
    <3>2. ~Mute
      BY <1>1 DEF Mute, Receiving
    <3> QED BY <1>1, <1>3, <1>7, <2>2, <2>3, <3>1, <3>2 DEF Talking, Transferring, Told
  <2>5. phase # "load" /\ phase # "none"
    BY <1>1, <2>3 DEF Talking, LoadSaid
  <2>6. Talking'
    BY <1>1, <1>3, <1>6, <2>2, <2>4, <2>5 DEF Talking, Pinging, Asking, LoadSaid
  <2> QED BY <1>1, <1>2, <1>3, <1>7, <2>6 DEF Conv, Up
<1>8. CASE dpc \in {"boot", "idle", "spin"}
  BY <1>1, <1>2, <1>3, <1>6, <1>8 DEF Conv, Up, Underway
<1> QED BY <1>4, <1>7, <1>8 DEF TypeOK, DockTypeOK

\* The FPGA still runs, and nothing of the conversation changes.
LEMMA EndingOn ==
    ASSUME TypeOK, Conv, Running, present, spc \notin S2Waiting, spc' \in {"erase", "reload"}, down = <<>>,
           UNCHANGED <<linkVars, fpgaVars, present, staged_valid, dockVars>>
    PROVE  Conv'
<1>1. /\ UNCHANGED <<ring, fifo, down, fresh, last, claimed, fpga, present, staged_valid>>
      /\ UNCHANGED <<dpc, phase, out, wdg, hold, mounted>>
  BY DEF linkVars, fpgaVars, dockVars
<1>2. Up /\ Books /\ Ending /\ Empty /\ phase = "load" /\ dpc \in {"wait", "spin"} /\ out = <<>>
  BY DEF Conv, Up, Ending, Books
<1>3. Books' /\ Ending' /\ Empty' /\ Running' /\ present'
  BY <1>1, <1>2 DEF Books, dockVars, Ending, Empty, Running
<1>4. dpc = "wait" => Talking'
  <2> SUFFICES ASSUME dpc = "wait" PROVE Talking'
    OBVIOUS
  <2>1. Talking /\ ~wdg /\ hold
    BY <1>2 DEF Up, Talking, LoadSaid
  <2>2. OneAnswer' /\ (Answered("OK")' <=> Answered("OK"))
    BY <1>1, <1>3, <2>1 DEF Talking, OneAnswer, Answered
  <2>3. Single("L")'
    BY <1>1, <1>2, <1>3, QuietSingle
  <2> QED BY <1>1, <1>2, <1>3, <2>1, <2>2, <2>3
          DEF Talking, Pinging, Asking, Transferring, LoadSaid, Receiving
<1> QED BY <1>1, <1>2, <1>3, <1>4 DEF Conv, Up

\* It goes blank.
LEMMA GoneBlank ==
    ASSUME TypeOK, Conv, present, spc \in {"erase", "reload"}, GoBlank,
           spc' \in {"main", "write", "reload"}, booting' => spc' = "main",
           UNCHANGED <<ring, down, present, dockVars>>
    PROVE  Conv'
<1>1. /\ fpga' = NoCore /\ fifo' = <<>> /\ fresh' = FALSE /\ UNCHANGED <<ring, down, present>>
      /\ UNCHANGED <<dpc, phase, out, wdg, hold, mounted>>
  BY DEF GoBlank, BridgeReset, dockVars
<1>2. /\ ring = <<>> /\ down = <<>> /\ ~mounted /\ Books /\ dpc # "read"
      /\ dpc \in {"push", "wait"} =>
           /\ phase \in {"ping", "caps", "load"}
           /\ phase = "ping" => Single("P")
           /\ phase = "caps" => Single("V")
           /\ phase = "load" => dpc = "wait" /\ ~wdg /\ hold
  <2>1. CASE Running
    <3>1. Ending /\ Empty /\ Up /\ Books /\ down = <<>>
      BY <2>1 DEF Conv, Up, Ending, S2Waiting, Receiving
    <3> QED BY <3>1 DEF Ending, Empty, Up, Talking, LoadSaid
  <2>2. CASE ~Running
    BY <2>2 DEF Conv, Blank, Empty
  <2> QED BY <2>1, <2>2
<1>3. \A x : Single(x) => Single(x)'
  BY <1>1, <1>2 DEF Single
<1>4. Blank'
  BY <1>1, <1>2, <1>3 DEF Blank, Empty
<1>5. Books' /\ ~Running' /\ present'
  BY <1>1, <1>2 DEF Books, dockVars, Running
<1> QED BY <1>4, <1>5 DEF Conv

LEMMA DriveConv ==
    ASSUME TypeOK, StagedIsWhole, BlankWhy, Conv, DriveFpga, UNCHANGED dockVars
    PROVE  Conv'
<1>0. present
  BY DEF Conv, Absent, DriveFpga, DelayOver, EraseSram, WrongIdcode, WriteSram, Reload
<1>1. CASE DelayOver
  <2>1. /\ spc \in {"loadDelay", "reloadDelay"} /\ down = <<>>
        /\ spc' = IF spc = "loadDelay" THEN "erase" ELSE "reload"
        /\ UNCHANGED <<linkVars, fpgaVars, left, present, staged_valid>>
    BY <1>1 DEF DelayOver
  <2>2. Running /\ spc \notin S2Waiting
    BY <1>0, <2>1 DEF Conv, Blank, S2Waiting, Receiving
  <2> QED BY <1>0, <2>1, <2>2, EndingOn
<1>2. CASE WrongIdcode
  <2>1. spc = "erase" /\ spc' = "reload" /\ UNCHANGED <<linkVars, fpgaVars, present, staged_valid>>
    BY <1>2 DEF WrongIdcode
  <2>2. Running /\ spc \notin S2Waiting /\ down = <<>>
    BY <1>0, <2>1 DEF Conv, Blank, Up, Ending, S2Waiting, Receiving
  <2> QED BY <1>0, <2>1, <2>2, EndingOn
<1>3. CASE EraseSram \/ Reload
  BY <1>0, <1>3, GoneBlank DEF EraseSram, Reload
<1>4. CASE WriteSram
  <2>1. spc = "write" /\ hdr \in Cores /\ ~booting /\ UNCHANGED <<booting, ring, down, present>>
    BY <1>4 DEF WriteSram, StagedIsWhole, Loading, BlankWhy
  <2>2. ~Running /\ Blank /\ Books
    BY <1>0, <2>1 DEF Conv, Up, S2Waiting, Receiving
  <2>3. Books' /\ present'
    BY <1>0, <2>1, <2>2 DEF Books, dockVars
  <2>4. CASE ComeUp(hdr) /\ spc' = "main"
    <3>1. Up'
      BY <2>1, <2>2, <2>4, BlankUp
    <3>2. Running'
      BY <2>1, <2>4, CoresAssumption DEF ComeUp, Running
    <3> QED BY <2>3, <3>1, <3>2 DEF Conv
  <2>5. CASE spc' = "reload" /\ UNCHANGED <<fpga, claimed, fifo, fresh, last>>
    <3>1. Blank'
      BY <2>1, <2>2, <2>5 DEF Blank, Empty, Single, dockVars
    <3> QED BY <2>2, <2>3, <2>5, <3>1 DEF Conv, Running
  <2> QED BY <1>4, <2>4, <2>5 DEF WriteSram
<1> QED BY <1>1, <1>2, <1>3, <1>4 DEF DriveFpga

-----------------------------------------------------------------------------
(* The dock.                                                               *)

\* The wire and stage 2 stay as they are.
Apart == UNCHANGED <<fifo, ring, down, last, fpga, booting, s2Vars>>

LEMMA ApartIs ==
    ASSUME Apart
    PROVE  /\ UNCHANGED <<fifo, ring, down, last, fpga, booting, present, spc, staged_valid, hdr, got, intact>>
           /\ (Running' <=> Running) /\ (Empty' <=> Empty) /\ Pos' = Pos
BY DEF Apart, s2Vars, Running, Empty, Pos

\* Giving up with nothing under way.
LEMMA AbandonConv ==
    ASSUME TypeOK, Conv, NEW e, Abandon(e), Apart, UNCHANGED mounted,
           dpc \in {"push", "wait", "open", "read"}, present /\ Running => spc \in S2Waiting /\ Empty
    PROVE  Conv'
<1>1. /\ UNCHANGED <<fifo, ring, down, fpga, booting, present, spc, mounted, fresh>>
      /\ dpc' = "idle" /\ out' = <<>> /\ (Running' <=> Running) /\ (Empty' <=> Empty)
  BY ApartIs DEF Abandon
<1>2. Books'
  BY <1>1 DEF Books
<1>3. present /\ Running => Up'
  BY <1>1 DEF Up
<1>4. present /\ ~Running => Blank'
  BY <1>1 DEF Conv, Blank
<1>5. ~present => Absent'
  BY <1>1 DEF Conv, Absent
<1> QED BY <1>1, <1>2, <1>3, <1>4, <1>5 DEF Conv

\* Going on to the reset after the load command.
LEMMA SpinConv ==
    ASSUME TypeOK, Conv, Spin, Apart, UNCHANGED mounted, phase = "load", dpc = "wait",
           hold, present /\ Running => Empty
    PROVE  Conv'
<1>1. /\ UNCHANGED <<fifo, ring, down, fpga, booting, present, spc, staged_valid, mounted, fresh, phase, hold>>
      /\ dpc' = "spin" /\ out' = <<>> /\ (Running' <=> Running) /\ (Empty' <=> Empty)
  BY ApartIs DEF Spin
<1>2. Books' /\ present
  BY <1>1 DEF Conv, Books, Absent
<1>3. Running => Up'
  BY <1>1, <1>2 DEF Conv, Up, Ending
<1>4. ~Running => Blank'
  BY <1>1, <1>2 DEF Conv, Blank
<1> QED BY <1>1, <1>2, <1>3, <1>4 DEF Conv

\* An answer that was read while the FPGA runs is the one that came.
LEMMA Read ==
    ASSUME TypeOK, Conv, NEW p, NEW r, Answer(p, r), Running
    PROVE  /\ present /\ Up /\ Talking /\ Books /\ fresh /\ Answered(r) /\ phase = p /\ dpc = "wait"
           /\ Empty /\ out = <<>> /\ down = <<>>
<1>1. fresh /\ r = last /\ phase = p /\ dpc = "wait"
  BY DEF Answer
<1>2. present /\ Books
  BY <1>1 DEF Conv, Absent
<1>3. Up /\ Talking /\ OneAnswer
  BY <1>1, <1>2 DEF Conv, Up, Talking
<1> QED BY <1>1, <1>2, <1>3 DEF OneAnswer, Answered

\* What a switch asks for next, and what the FPGA is made to answer when it
\* is blank.
LEMMA AskConv ==
    ASSUME TypeOK, Conv, dpc \in {"idle", "wait"}, NEW p \in {"ping", "caps"}, NEW x, x = (IF p = "ping" THEN "P" ELSE "V"),
           Say(p, <<Cmd(x)>>), Apart, ~mounted', sent' = 0, down = <<>>,
           ~present => p = "ping",
           present /\ Running => spc \in S2Waiting /\ Empty
    PROVE  Conv'
<1>1. /\ UNCHANGED <<fifo, ring, down, fpga, booting, present, spc>>
      /\ dpc' = "push" /\ phase' = p /\ out' = <<Cmd(x)>> /\ fresh' = FALSE
      /\ (Running' <=> Running) /\ (Empty' <=> Empty)
  BY ApartIs DEF Say
<1>2. Books'
  <2>1. out' # <<>>
    BY <1>1
  <2> QED BY <1>1, <2>1 DEF Books
<1>3. Empty => Single(x)'
  <2> SUFFICES ASSUME Empty PROVE Single(x)'
    OBVIOUS
  <2>1. ring' = <<>> /\ fifo' = <<>> /\ out' = <<Cmd(x)>>
    BY <1>1 DEF Empty
  <2>2. Len(ring') = 0 /\ Len(fifo') = 0 /\ Len(out') = 1 /\ out'[1] = Cmd(x)
    BY <2>1
  <2> QED BY <2>1, <2>2 DEF Single
<1>4. present /\ Running => Up'
  <2> SUFFICES ASSUME present, Running PROVE Up'
    OBVIOUS
  <2>1. spc' \in S2Waiting /\ Single(x)'
    BY <1>1, <1>3
  <2>2. OneAnswer' /\ \A r : ~(Answered(r)')
    BY <1>1 DEF OneAnswer, Answered
  <2>3. Talking'
    BY <1>1, <2>1, <2>2 DEF Talking, Pinging, Asking, Transferring, LoadSaid
  <2> QED BY <1>1, <2>1, <2>3 DEF Up
<1>5. present /\ ~Running => Blank'
  BY <1>1, <1>3 DEF Conv, Blank
<1>6. ~present => Absent'
  BY <1>1 DEF Conv, Absent
<1> QED BY <1>1, <1>2, <1>4, <1>5, <1>6 DEF Conv

\* What a blank FPGA can be made to answer.
LEMMA Seen ==
    ASSUME TypeOK, Conv, NEW p, NEW r, Answer(p, r), ~Running
    PROVE  present /\ Blank /\ Books /\ phase = p /\ dpc = "wait" /\ p \in {"ping", "caps", "load"} /\ down = <<>>
<1>1. phase = p /\ dpc = "wait"
  BY DEF Answer
<1>2. present /\ Blank /\ Books
  BY DEF Conv, Absent
<1> QED BY <1>1, <1>2 DEF Blank

LEMMA PingConv ==
    ASSUME TypeOK, Conv, NEW r \in Codes, OnPing(r), UNCHANGED s2Vars
    PROVE  Conv'
<1>1. Answer("ping", r) /\ Apart /\ UNCHANGED <<sent, mounted>>
  BY DEF OnPing, OsdUnchanged, Apart, fpgaVars
<1>2. /\ dpc = "wait" /\ present /\ down = <<>> /\ ~mounted' /\ sent' = 0
      /\ Running => spc \in S2Waiting /\ Empty
  <2>1. CASE Running
    BY <1>1, <2>1, Read DEF Talking, Pinging, Books
  <2>2. CASE ~Running
    BY <1>1, <2>2, Seen DEF Books
  <2> QED BY <2>1, <2>2
<1>3. Say("caps", <<Cmd("V")>>) \/ Abandon("LINK")
  BY DEF OnPing
<1> QED BY <1>1, <1>2, <1>3, AskConv, AbandonConv

LEMMA CapsConv ==
    ASSUME TypeOK, Conv, NEW r \in Codes, OnCaps(r), UNCHANGED s2Vars
    PROVE  Conv'
<1>1. Answer("caps", r) /\ Apart /\ UNCHANGED <<sent, mounted>>
  BY DEF OnCaps, OsdUnchanged, Apart, fpgaVars
<1>2. CASE r # "VERSION51"
  <2>1. Abandon("VERSION")
    BY <1>2 DEF OnCaps
  <2>2. dpc = "wait" /\ (Running => spc \in S2Waiting /\ Empty)
    BY <1>1, Read DEF Talking, Asking, Answer
  <2> QED BY <1>1, <2>1, <2>2, AbandonConv
<1>3. CASE r = "VERSION51"
  <2>1. dpc' = "open" /\ UNCHANGED <<claimed, fresh, phase, out, sent, mounted>>
    BY <1>1, <1>3 DEF OnCaps
  <2>2. /\ UNCHANGED <<fifo, ring, down, fpga, booting, present, spc>>
        /\ (Running' <=> Running) /\ (Empty' <=> Empty)
    BY <1>1, ApartIs
  <2>3. present /\ Books /\ phase = "caps" /\ dpc = "wait"
    BY <1>1, Read, Seen
  <2>4. Books'
    BY <2>1, <2>3 DEF Books
  <2>5. Running => Up'
    <3> SUFFICES ASSUME Running PROVE Up'
      OBVIOUS
    <3>1. spc = "main" /\ Empty /\ down = <<>>
      BY <1>1, <1>3, <2>3, Read DEF Talking, Asking
    <3> QED BY <2>1, <2>2, <3>1 DEF Up, S2Waiting
  <2>6. ~Running => Blank'
    BY <1>1, <2>1, <2>2, Seen DEF Blank
  <2> QED BY <2>2, <2>3, <2>4, <2>5, <2>6 DEF Conv
<1> QED BY <1>2, <1>3

\* An answer to a part of a transfer.
LEMMA Transferred ==
    ASSUME TypeOK, Bookkept, Conv, NEW p \in {"begin", "chunk", "crc"}, NEW r, Answer(p, r)
    PROVE  /\ Running /\ present /\ Books /\ phase = p /\ dpc = "wait" /\ fresh /\ Empty /\ out = <<>> /\ down = <<>>
           /\ spc \in S2Waiting /\ target \in Cores
           /\ r = "OK" =>
                /\ ~Muted
                /\ p = "crc" => spc = "main" /\ staged_valid /\ hdr = target
                /\ p # "crc" =>
                     /\ spc \in {"data", "tail"} /\ intact /\ hdr = target /\ got + 2 = To
                     /\ spc = "data" => got < Pieces[target]
                     /\ spc = "tail" => got = Pieces[target]
<1>1. Running
  BY Seen
<1>2. /\ present /\ Books /\ phase = p /\ dpc = "wait" /\ fresh /\ Empty /\ out = <<>> /\ down = <<>>
      /\ Answered(r) /\ Talking
  BY <1>1, Read
<1>3. Told
  BY <1>2 DEF Talking, Transferring, Telling, Mute
<1>4. target \in Cores
  BY <1>2 DEF TypeOK, DockTypeOK
<1> QED BY <1>1, <1>2, <1>3, <1>4 DEF Told, Bookkept

\* The next chunk is to be read.
LEMMA ReadConv ==
    ASSUME TypeOK, Conv, present, Running, Apart, UNCHANGED <<claimed, mounted, phase, out, target>>,
           dpc = "wait", dpc' = "read", phase \in {"begin", "chunk"},
           ~Muted, Empty, down = <<>>, spc = "data", intact, hdr = target, got = sent',
           phase = "begin" => sent' = 0, phase = "chunk" => sent' % Chunk = 0
    PROVE  Conv'
<1>1. /\ UNCHANGED <<fifo, ring, down, fpga, present, spc, intact, hdr, got>> /\ Running' /\ Empty' /\ (Muted' <=> Muted)
  BY ApartIs DEF Muted
<1>2. Books'
  <2>1. out = <<>> /\ ~mounted
    BY DEF Conv, Books
  <2> QED BY <2>1 DEF Books
<1>3. Reading'
  BY <1>1 DEF Reading
<1>4. Up'
  BY <1>1, <1>3 DEF Up, S2Waiting, Receiving
<1> QED BY <1>1, <1>2, <1>4 DEF Conv

LEMMA BeginConv ==
    ASSUME TypeOK, Bookkept, Conv, NEW r \in Codes, OnBegin(r), UNCHANGED s2Vars
    PROVE  Conv'
<1>1. Answer("begin", r) /\ Apart /\ UNCHANGED <<target, sent, mounted>>
  BY DEF OnBegin, OsdUnchanged, Apart, fpgaVars
<1>2. CASE r # "OK"
  BY <1>1, <1>2, Transferred, AbandonConv DEF OnBegin
<1>3. CASE r = "OK"
  <2>1. dpc' = "read" /\ UNCHANGED <<claimed, phase, out>>
    BY <1>3 DEF OnBegin
  <2>2. /\ Running /\ present /\ phase = "begin" /\ dpc = "wait" /\ Empty /\ down = <<>> /\ ~Muted
        /\ intact /\ hdr = target /\ sent = 0 /\ target \in Cores
    BY <1>1, <1>3, Transferred DEF Books
  <2>3. got + 2 = To /\ To = 2
    BY <1>1, <1>3, <2>2, Transferred DEF To
  <2>4. got = 0
    BY <2>3 DEF TypeOK, S2TypeOK
  <2>5. Pieces[target] \in Nat \ {0}
    BY <2>2, PiecesIs
  <2>6. spc = "data"
    BY <1>1, <1>3, <2>4, <2>5, Transferred
  <2> QED BY <1>1, <2>1, <2>2, <2>4, <2>6, ReadConv
<1> QED BY <1>2, <1>3

LEMMA ChunkConv ==
    ASSUME TypeOK, Bookkept, Conv, NEW r \in Codes, OnChunk(r), UNCHANGED s2Vars
    PROVE  Conv'
<1>1. Answer("chunk", r) /\ Apart /\ UNCHANGED <<target, mounted>>
  BY DEF OnChunk, OsdUnchanged, Apart, fpgaVars
<1>2. CASE r # "OK"
  BY <1>1, <1>2, Transferred, AbandonConv DEF OnChunk
<1>3. CASE r = "OK"
  <2>1. sent' = sent + Want /\ claimed' = claimed
    BY <1>3 DEF OnChunk
  <2>2. /\ Running /\ present /\ phase = "chunk" /\ dpc = "wait" /\ Empty /\ down = <<>> /\ ~Muted
        /\ intact /\ hdr = target /\ target \in Cores /\ got + 2 = To /\ spc \in {"data", "tail"}
        /\ spc = "data" => got < Pieces[target]
        /\ spc = "tail" => got = Pieces[target]
        /\ Books /\ out = <<>>
    BY <1>1, <1>3, Transferred
  <2>3. /\ Want \in 1 .. Chunk /\ sent + Want <= Pieces[target] /\ sent \in Nat /\ Chunk \in Nat
        /\ Pieces[target] \in Nat /\ (Want = Chunk \/ sent + Want = Pieces[target]) /\ sent % Chunk = 0
    BY <2>2, WantIs DEF Books
  <2>4. got = sent'
    <3>1. got \in Nat /\ To = sent + Want + 2
      BY <2>2 DEF To, TypeOK, S2TypeOK
    <3> QED BY <2>1, <2>2, <2>3, <3>1
  <2>5. CASE sent' < Pieces[target]
    <3>1. dpc' = "read" /\ UNCHANGED <<phase, out>>
      BY <1>3, <2>5 DEF OnChunk
    <3>2. Want = Chunk
      BY <2>1, <2>3, <2>5
    <3>3. sent' % Chunk = 0
      BY <2>1, <2>3, <3>2, ChunkEnds
    <3>4. spc = "data"
      BY <2>2, <2>4, <2>3, <2>5
    <3> QED BY <1>1, <2>1, <2>2, <2>4, <3>1, <3>3, <3>4, ReadConv
  <2>6. CASE ~(sent' < Pieces[target])
    <3>1. Say("crc", <<Crc(target)>>)
      BY <1>3, <2>6 DEF OnChunk
    <3>2. /\ UNCHANGED <<fifo, ring, down, fpga, present, spc, intact, hdr, got, claimed>> /\ Running' /\ Empty'
          /\ Pos' = Pos /\ (Muted' <=> Muted) /\ target' = target
      BY <1>1, <2>1, <2>2, ApartIs DEF Muted
    <3>3. dpc' = "push" /\ phase' = "crc" /\ out' = <<Crc(target)>> /\ fresh' = FALSE
      BY <3>1 DEF Say
    <3>4. out' # <<>> /\ Len(out') = 1 /\ out'[1] = Crc(target)
      BY <3>3
    <3>5. Pos = Pieces[target] + 2 /\ From' = Pieces[target] + 2 /\ To' = Pieces[target] + 3
      <4>1. got = Pieces[target]
        BY <2>1, <2>3, <2>4, <2>6
      <4> QED BY <2>2, <3>2, <3>3, <4>1 DEF Pos, From, To
    <3>6. /\ Len(ring') = 0 /\ Len(fifo') = 0 /\ ring' = <<>> /\ fifo' = <<>>
      BY <2>2, <3>2 DEF Empty
    <3>7. OnScript(target)'
      <4>1. \A c, p : Along(ring', c, p) /\ Along(fifo', c, p)
        BY <3>6 DEF Along
      <4>2. Burst \in Nat
        BY <2>3 DEF Burst
      <4>3. Along(ring', target, Pos') /\ Along(fifo', target, Pos' + Len(ring'))
        BY <4>1
      <4>4. Pos' + Len(ring') + Len(fifo') <= Pieces[target] + 3 /\ Len(ring') + Len(fifo') <= Burst'
        BY <2>3, <3>2, <3>5, <3>6, <4>2 DEF Burst
      <4> QED BY <2>2, <3>2, <4>3, <4>4 DEF OnScript, S2Waiting, Receiving, Along, Script, Burst
    <3>8. Telling'
      <4>1. Script(target, Pieces[target] + 3) = Crc(target)
        BY <2>3 DEF Script
      <4>2. Along(out', target, Pos' + Len(ring') + Len(fifo'))
        <5>1. \A i \in 1 .. 1 : out'[i] = Script(target, (Pieces[target] + 2) + 0 + 0 + i)
          BY <2>3, <3>4, <4>1
        <5> QED BY <3>2, <3>4, <3>5, <3>6, <5>1 DEF Along
      <4>3. /\ From' <= Pos' /\ Pos' < To'
            /\ Pos' + Len(ring') + Len(fifo') + Len(out') = To'
        BY <2>3, <3>2, <3>4, <3>5, <3>6
      <4>4. Along(out', target', Pos' + Len(ring') + Len(fifo'))
        BY <3>2, <4>2
      <4> QED BY <2>2, <3>2, <3>3, <3>7, <4>4, <4>3 DEF Telling, Along, Script
    <3>9. Books'
      BY <1>1, <2>2, <3>3, <3>4 DEF Books
    <3>10. OneAnswer'
      BY <2>2, <3>2, <3>3 DEF OneAnswer
    <3>11. Up'
      BY <2>2, <3>2, <3>3, <3>8, <3>10
         DEF Up, Talking, Pinging, Asking, Transferring, LoadSaid, S2Waiting, Receiving
    <3> QED BY <2>2, <3>2, <3>9, <3>11 DEF Conv
  <2> QED BY <2>5, <2>6
<1> QED BY <1>2, <1>3

LEMMA CrcConv ==
    ASSUME TypeOK, Bookkept, Conv, NEW r \in Codes, OnCrc(r), Settled, UNCHANGED s2Vars
    PROVE  Conv'
<1>1. Answer("crc", r) /\ Apart /\ UNCHANGED <<target, mounted, wdg>>
  BY DEF OnCrc, OsdUnchanged, Apart, fpgaVars
<1>2. CASE r # "OK"
  BY <1>1, <1>2, Transferred, AbandonConv DEF OnCrc
<1>3. CASE r = "OK"
  <2>1. Say("load", <<Cmd("L")>>) /\ hold' = TRUE /\ claimed' = claimed
    BY <1>3 DEF OnCrc
  <2>2. /\ Running /\ present /\ phase = "crc" /\ dpc = "wait" /\ Empty /\ down = <<>> /\ ~Muted
        /\ spc = "main" /\ staged_valid /\ hdr = target /\ Books /\ ~wdg
    BY <1>1, <1>3, Transferred DEF Settled
  <2>3. /\ UNCHANGED <<fifo, ring, down, fpga, present, spc, staged_valid, hdr>> /\ Running' /\ Empty'
        /\ (Muted' <=> Muted)
    BY <1>1, <2>1, <2>2, ApartIs DEF Muted
  <2>4. dpc' = "push" /\ phase' = "load" /\ out' = <<Cmd("L")>> /\ fresh' = FALSE
    BY <2>1 DEF Say
  <2>5. out' # <<>> /\ Len(out') = 1 /\ out'[1] = Cmd("L")
    BY <2>4
  <2>6. Single("L")'
    <3>1. Len(ring') = 0 /\ Len(fifo') = 0 /\ ring' = <<>> /\ fifo' = <<>>
      BY <2>3 DEF Empty
    <3> QED BY <2>5, <3>1 DEF Single
  <2>7. LoadSaid'
    BY <1>1, <2>1, <2>2, <2>3, <2>4, <2>6 DEF LoadSaid, Receiving
  <2>8. Talking'
    BY <2>2, <2>3, <2>4, <2>7 DEF Talking, OneAnswer, Pinging, Asking, Transferring
  <2>9. Books'
    BY <1>1, <2>2, <2>4, <2>5 DEF Books
  <2>10. Up'
    BY <2>2, <2>3, <2>4, <2>8 DEF Up, S2Waiting
  <2> QED BY <2>2, <2>3, <2>9, <2>10 DEF Conv
<1> QED BY <1>2, <1>3

LEMMA LoadConv ==
    ASSUME TypeOK, Conv, NEW r \in Codes, OnLoad(r), UNCHANGED s2Vars
    PROVE  Conv'
<1>1. Answer("load", r) /\ Apart /\ UNCHANGED <<target, mounted>> /\ phase = "load" /\ dpc = "wait"
  BY DEF OnLoad, Answer, Apart, fpgaVars
<1>2. CASE Running
  <2>1. present /\ Talking /\ fresh /\ Answered(r) /\ Empty /\ down = <<>>
    BY <1>1, <1>2, Read
  <2>2. hold /\ Answered("OK")
    BY <1>1, <2>1 DEF Talking, LoadSaid
  <2>3. r = "OK"
    <3>1. \A s : <<s>> # <<>>
      OBVIOUS
    <3> QED BY <1>1, <1>2, <2>1, <2>2, <3>1 DEF Answered, Answer
  <2>4. Spin
    BY <2>3 DEF OnLoad
  <2> QED BY <1>1, <2>1, <2>2, <2>4, SpinConv
<1>3. CASE ~Running
  <2>1. Blank /\ hold
    BY <1>1, <1>3, Seen DEF Blank
  <2>2. Spin \/ Abandon("REFUSED")
    BY DEF OnLoad
  <2> QED BY <1>1, <1>3, <2>1, <2>2, SpinConv, AbandonConv
<1> QED BY <1>2, <1>3

-----------------------------------------------------------------------------
\* The token that cl_push hands to the FPGA.
LEMMA SinglePushed ==
    ASSUME TypeOK, NEW x, Single(x), out # <<>>, UNCHANGED ring,
           fifo' = fifo \/ fifo' = Append(fifo, Head(out)), out' = Tail(out)
    PROVE  Single(x)'
<1>1. Typed /\ Len(ring) \in Nat /\ Len(fifo) \in Nat /\ Len(out) \in Nat \ {0} /\ Head(out) = out[1]
  BY TypedIs, EmptyIs, TailIs DEF Typed
<1>2. Len(out) = 1 /\ ring = <<>> /\ fifo = <<>> /\ out[1] = Cmd(x)
  <2>1. Len(out) = 1 /\ Len(ring) = 0 /\ Len(fifo) = 0
    BY <1>1 DEF Single
  <2>2. ring = <<>> /\ fifo = <<>>
    BY <1>1, <2>1, EmptyIs DEF Typed
  <2> QED BY <2>1, <2>2 DEF Single
<1>3. out' = <<>> /\ (fifo' = <<>> \/ fifo' = <<Cmd(x)>>) /\ ring' = <<>>
  <2>1. out' = <<>>
    BY <1>1, <1>2, LenOne DEF Typed
  <2>2. Append(<<>>, Head(out)) = <<Head(out)>>
    OBVIOUS
  <2> QED BY <1>1, <1>2, <2>1, <2>2
<1>4. Len(out') = 0 /\ Len(ring') = 0 /\ (fifo' = <<>> \/ (Len(fifo') = 1 /\ fifo'[1] = Cmd(x)))
  <2>1. fifo' = <<Cmd(x)>> => Len(fifo') = 1 /\ fifo'[1] = Cmd(x)
    OBVIOUS
  <2>2. Len(out') = 0 /\ Len(ring') = 0
    BY <1>3
  <2> QED BY <1>3, <2>1, <2>2
<1>5. fifo' = <<>> => Len(fifo') = 0
  OBVIOUS
<1> QED BY <1>3, <1>4, <1>5 DEF Single

LEMMA ToIs ==
    ASSUME TypeOK, Books, dpc \in {"push", "wait"}, phase \in {"begin", "chunk", "crc"}
    PROVE  From \in Nat /\ To \in Nat /\ To - From <= Burst /\ To <= Pieces[target] + 3 /\ Burst \in Nat
<1>1. target \in Cores
  BY DEF TypeOK, DockTypeOK
<1>2. Pieces[target] \in Nat \ {0} /\ Chunk \in Nat \ {0} /\ sent \in Nat
  BY <1>1, PiecesIs, SizesAssumption DEF TypeOK, DockTypeOK
<1>3. Burst \in Nat /\ Chunk <= Burst /\ 2 <= Burst
  BY <1>2 DEF Burst
<1>4. CASE phase = "chunk"
  <2>1. Want \in 1 .. Chunk /\ sent + Want <= Pieces[target]
    BY <1>1, <1>4, WantIs DEF Books
  <2>2. From = sent + 2 /\ To = sent + Want + 2
    BY <1>4 DEF From, To
  <2> QED BY <1>2, <1>3, <2>1, <2>2
<1>5. CASE phase # "chunk"
  BY <1>2, <1>3, <1>5 DEF From, To
<1> QED BY <1>4, <1>5

LEMMA TellingPushed ==
    ASSUME TypeOK, Books, dpc \in {"push", "wait"}, phase \in {"begin", "chunk", "crc"}, Telling, out # <<>>,
           UNCHANGED <<ring, spc, intact, hdr, got, claimed, fpga, fresh, down, phase, target, sent>>,
           fifo' = Append(fifo, Head(out)), out' = Tail(out)
    PROVE  Telling'
<1>1. /\ ~Muted /\ ~fresh /\ down = <<>> /\ OnScript(target) /\ From <= Pos /\ Pos < To
      /\ Along(out, target, Pos + Len(ring) + Len(fifo))
      /\ Pos + Len(ring) + Len(fifo) + Len(out) = To
  BY DEF Telling
<1>2. Typed /\ Pos \in Nat /\ target' = target /\ Pos' = Pos /\ From' = From /\ To' = To /\ (Muted' <=> Muted)
  BY TypedIs, PosIs DEF Pos, From, To, Want, Muted
<1>3. Len(ring) \in Nat /\ Len(fifo) \in Nat /\ Len(out) \in Nat /\ ring' = ring
  BY <1>2, EmptyIs DEF Typed
<1>4. PICK p \in Nat, q \in Nat : p = Pos + Len(ring) /\ q = p + Len(fifo)
  BY <1>2, <1>3
<1>5. /\ Along(fifo', target, p) /\ Along(out', target, q + 1)
      /\ Len(fifo') = Len(fifo) + 1 /\ Len(out') = Len(out) - 1
  <2>1. Along(fifo, target, p) /\ Along(out, target, q) /\ fifo \in Seq(Token) /\ out \in Seq(Token)
    BY <1>1, <1>2, <1>4 DEF OnScript, Typed
  <2> QED BY <1>4, <2>1, MoveOn
<1>6. /\ Pos' + Len(ring') = p /\ Pos' + Len(ring') + Len(fifo') = q + 1
      /\ Pos' + Len(ring') + Len(fifo') + Len(out') = To
      /\ Len(ring') + Len(fifo') <= To - Pos /\ q + 1 <= To
  BY <1>1, <1>2, <1>3, <1>4, <1>5
<1>7. /\ Len(ring') + Len(fifo') <= Burst /\ Pos' + Len(ring') + Len(fifo') <= Pieces[target] + 3
  <2>1. From \in Nat /\ To \in Nat /\ To - From <= Burst /\ To <= Pieces[target] + 3 /\ Burst \in Nat
    BY ToIs
  <2>2. Len(ring') + Len(fifo') \in Nat
    BY <1>3, <1>5
  <2>3. target \in Cores /\ Pieces[target] \in Nat
    BY PiecesIs DEF TypeOK, DockTypeOK
  <2> QED BY <1>1, <1>2, <1>4, <1>6, <2>1, <2>2, <2>3
<1>8. OnScript(target)'
  <2>1. Along(ring', target, Pos') /\ Along(fifo', target, Pos' + Len(ring'))
    BY <1>1, <1>2, <1>3, <1>5, <1>6 DEF OnScript
  <2> QED BY <1>1, <1>2, <1>7, <2>1 DEF OnScript, Along, Script, Burst
<1>9. Along(out', target', Pos' + Len(ring') + Len(fifo'))
  BY <1>2, <1>5, <1>6
<1> QED BY <1>1, <1>2, <1>6, <1>8, <1>9 DEF Telling, Along, Script

LEMMA PushConv ==
    ASSUME TypeOK, Conv, Push, UNCHANGED s2Vars
    PROVE  Conv'
<1>1. /\ dpc = "push" /\ out # <<>> /\ out' = Tail(out) /\ dpc' = IF Len(out) = 1 THEN "wait" ELSE "push"
      /\ UNCHANGED <<claimed, fresh, last, ring, down, fpga, booting, phase, target, sent, hold, wdg, mounted>>
      /\ UNCHANGED <<present, spc, staged_valid, hdr, got, intact>>
      /\ (Running => fifo' = Append(fifo, Head(out))) /\ (~Running => fifo' = fifo)
  BY DEF Push, fpgaVars, s2Vars
<1>2. out \in Seq(Token) /\ fifo \in Seq(Token)
  BY DEF TypeOK, LinkTypeOK, DockTypeOK
<1>3. (out' = <<>> <=> Len(out) = 1) /\ (Running' <=> Running) /\ (Muted' <=> Muted)
  <2>1. Len(out) \in Nat \ {0} /\ Len(out') = Len(out) - 1 /\ out' \in Seq(Token)
    BY <1>1, <1>2, TailIs
  <2>2. out' = <<>> <=> Len(out') = 0
    BY <2>1, EmptyIs
  <2> QED BY <1>1, <2>1, <2>2 DEF Running, Muted
<1>4. Books /\ Books' /\ dpc' \in {"push", "wait"}
  BY <1>1, <1>3 DEF Conv, Books
<1>5. \A x : Single(x) => Single(x)'
  BY <1>1, SinglePushed
<1>6. ASSUME present, Running PROVE Up'
  <2>1. Talking /\ ~fresh /\ down = <<>> /\ spc \in S2Waiting
    BY <1>1, <1>6 DEF Conv, Up, Talking, OneAnswer, Ending
  <2>2. OneAnswer'
    <3>1. Len(down') = 0
      BY <1>1, <2>1
    <3> QED BY <1>1, <2>1, <3>1 DEF OneAnswer
  <2>3. Transferring'
    <3> SUFFICES ASSUME phase \in {"begin", "chunk", "crc"} PROVE Telling' \/ Mute'
      BY <1>1 DEF Transferring
    <3>1. CASE Telling
      BY <1>1, <1>4, <1>6, <3>1, TellingPushed
    <3>2. CASE Mute
      BY <1>1, <1>3, <3>2 DEF Mute
    <3> QED BY <1>1, <2>1, <3>1, <3>2 DEF Talking, Transferring, Told
  <2>4. Pinging' /\ Asking'
    BY <1>1, <1>5, <2>1 DEF Talking, Pinging, Asking, Answered
  <2>5. LoadSaid'
    BY <1>1, <1>3, <1>5, <2>1 DEF Talking, LoadSaid
  <2> QED BY <1>1, <1>4, <2>1, <2>2, <2>3, <2>4, <2>5 DEF Up, Talking
<1>7. present /\ ~Running => Blank'
  BY <1>1, <1>4, <1>5 DEF Conv, Blank, Empty
<1>8. ~present => Absent'
  BY <1>1, <1>3, <1>4 DEF Conv, Absent
<1> QED BY <1>1, <1>3, <1>4, <1>6, <1>7, <1>8 DEF Conv

\* The dock begins to say a part of a transfer.
LEMMA TellConv ==
    ASSUME TypeOK, Conv, present, Running, Empty, down = <<>>, dpc \in {"open", "read"},
           NEW p \in {"begin", "chunk"}, NEW toks \in Seq(Token), Say(p, toks), toks # <<>>,
           Apart, UNCHANGED <<claimed, mounted, target, sent>>,
           p = "begin" => sent = 0,
           p = "chunk" => sent % Chunk = 0 /\ sent < Pieces[target],
           NEW c \in Cores, c = target, spc \in {"main", "data"},
           spc = "data" => intact /\ hdr = c,
           ~Muted \/ (p = "begin" /\ spc = "main"),
           NEW n \in Nat, n = Pos,
           n = (IF p = "begin" THEN 0 ELSE sent + 2), Len(toks) = (IF p = "begin" THEN 2 ELSE Want),
           \A i \in 1 .. Len(toks) : toks[i] = Script(c, n + i)
    PROVE  Conv'
<1>1. /\ UNCHANGED <<fifo, ring, down, fpga, present, spc, intact, hdr, got, claimed, mounted, target, sent>>
      /\ Running' /\ Empty' /\ Pos' = n /\ (Muted' <=> Muted) /\ ring' = <<>> /\ fifo' = <<>>
  BY ApartIs DEF Muted, Empty
<1>2. dpc' = "push" /\ phase' = p /\ out' = toks /\ fresh' = FALSE
  BY DEF Say
<1>3. Books'
  BY <1>1, <1>2 DEF Conv, Books
<1>4. Pieces[c] \in Nat \ {0} /\ sent \in Nat /\ Chunk \in Nat \ {0} /\ Burst \in Nat
  <2>1. Pieces[c] \in Nat \ {0} /\ sent \in Nat /\ Chunk \in Nat \ {0}
    BY PiecesIs, SizesAssumption DEF TypeOK, DockTypeOK
  <2> QED BY <2>1 DEF Burst
<1>5. /\ From' = n /\ To' = n + Len(toks) /\ Len(toks) \in Nat \ {0} /\ n <= Pieces[c] + 2
  <2>1. CASE p = "begin"
    BY <1>1, <1>2, <1>4, <2>1 DEF From, To
  <2>2. CASE p = "chunk"
    <3>1. Want \in 1 .. Chunk /\ sent < Pieces[c] /\ Want' = Want
      BY <1>1, <2>2, WantIs DEF Want
    <3> QED BY <1>1, <1>2, <1>4, <2>2, <3>1 DEF From, To
  <2> QED BY <2>1, <2>2
<1>6. Len(ring') = 0 /\ Len(fifo') = 0
  BY <1>1
<1>7. CASE ~Muted
  <2>1. \A q : Along(ring', c, q) /\ Along(fifo', c, q)
    BY <1>6 DEF Along
  <2>2. /\ Pos' + Len(ring') + Len(fifo') = n /\ Pos' + Len(ring') + Len(fifo') <= Pieces[c] + 3
        /\ Len(ring') + Len(fifo') <= Burst
    BY <1>1, <1>4, <1>5, <1>6
  <2>3. OnScript(c)'
    BY <1>1, <2>1, <2>2 DEF OnScript, S2Waiting, Receiving, Burst
  <2>4. Along(out', c, n)
    BY <1>2 DEF Along
  <2>5. /\ From' <= Pos' /\ Pos' < To' /\ Pos' + Len(ring') + Len(fifo') + Len(out') = To'
    <3>1. Len(out') = Len(toks)
      BY <1>2
    <3>2. \A k, l \in Nat : l # 0 => k <= k /\ k < k + l /\ k + 0 + 0 + l = k + l
      OBVIOUS
    <3> QED BY <1>1, <1>5, <1>6, <3>1, <3>2
  <2>6. OnScript(target)' /\ Along(out', target', Pos' + Len(ring') + Len(fifo'))
    BY <1>1, <2>2, <2>3, <2>4
  <2>7. Telling'
    BY <1>1, <1>2, <1>7, <2>5, <2>6 DEF Telling
  <2>8. Talking'
    BY <1>1, <1>2, <2>7 DEF Talking, OneAnswer, Pinging, Asking, Transferring, LoadSaid
  <2> QED BY <1>1, <1>2, <1>3, <2>8 DEF Conv, Up, S2Waiting, Receiving
<1>8. CASE Muted
  <2>1. Mute'
    BY <1>1, <1>2, <1>8 DEF Mute
  <2>2. Talking'
    BY <1>1, <1>2, <2>1 DEF Talking, OneAnswer, Pinging, Asking, Transferring, LoadSaid
  <2> QED BY <1>1, <1>2, <1>3, <2>2 DEF Conv, Up, S2Waiting, Receiving
<1> QED BY <1>7, <1>8

LEMMA OpenConv ==
    ASSUME TypeOK, Conv, OpenSidecar, UNCHANGED s2Vars
    PROVE  Conv'
<1>1. dpc = "open" /\ Running /\ Apart /\ UNCHANGED <<target, sent, mounted>>
  BY DEF OpenSidecar, OsdUnchanged, Apart, fpgaVars
<1>2. present /\ spc = "main" /\ Empty /\ down = <<>> /\ phase = "caps" /\ sent = 0 /\ target \in Cores
  BY <1>1 DEF Conv, Absent, Up, Books, TypeOK, DockTypeOK
<1>3. \/ Abandon("RAMFILE") \/ Abandon("NOTBIT")
      \/ Say("begin", <<Cmd("C"), Hdr(target)>>) /\ claimed' = claimed
  BY PayloadAssumption, <1>2 DEF OpenSidecar
<1>4. CASE Say("begin", <<Cmd("C"), Hdr(target)>>) /\ claimed' = claimed
  <2> DEFINE toks == <<Cmd("C"), Hdr(target)>>
  <2>1. PICK c \in Cores : c = target
    BY <1>2
  <2>2. toks \in Seq(Token) /\ Len(toks) = 2 /\ toks # <<>> /\ toks[1] = Cmd("C") /\ toks[2] = Hdr(c)
    BY <2>1, Tokens DEF Commands
  <2>3. Script(c, 1) = Cmd("C") /\ Script(c, 2) = Hdr(c) /\ Pos = 0
    BY <1>2 DEF Script, Pos
  <2>4. \A i \in 1 .. Len(toks) : toks[i] = Script(c, 0 + i)
    <3> SUFFICES ASSUME NEW i \in 1 .. 2 PROVE toks[i] = Script(c, 0 + i)
      BY <2>2
    <3>1. CASE i = 1
      BY <2>2, <2>3, <3>1
    <3>2. CASE i = 2
      BY <2>2, <2>3, <3>2
    <3> QED BY <3>1, <3>2
  <2> HIDE DEF toks
  <2>5. Say("begin", toks)
    BY <1>4 DEF toks
  <2> QED BY <1>1, <1>2, <1>4, <2>1, <2>2, <2>3, <2>4, <2>5, TellConv
<1> QED BY <1>1, <1>2, <1>3, <1>4, AbandonConv DEF S2Waiting

LEMMA ReadChunkConv ==
    ASSUME TypeOK, Conv, ReadChunk, UNCHANGED s2Vars
    PROVE  Conv'
<1>1. dpc = "read" /\ Running /\ sent < Pieces[target] /\ Apart /\ UNCHANGED <<claimed, target, sent, mounted>>
  BY DEF ReadChunk, OsdUnchanged, Apart, fpgaVars
<1>2. present /\ Reading /\ Books /\ target \in Cores
  BY <1>1 DEF Conv, Absent, Up, TypeOK, DockTypeOK
<1>3. /\ ~Muted /\ Empty /\ down = <<>> /\ spc = "data" /\ intact /\ hdr = target /\ got = sent
  BY <1>2 DEF Reading
<1>4. PICK c \in Cores : c = target
  BY <1>2
<1>5. /\ Want \in 1 .. Chunk /\ sent + Want <= Pieces[c] /\ sent \in Nat /\ Chunk \in Nat /\ Pieces[c] \in Nat
  BY <1>1, <1>4, WantIs
<1>6. sent % Chunk = 0
  <2>1. phase = "begin" => sent = 0
    BY <1>1, <1>2 DEF Books
  <2>2. 0 % Chunk = 0
    BY SizesAssumption
  <2> QED BY <1>1, <1>2, <2>1, <2>2 DEF Books, Reading
<1> DEFINE toks == [i \in 1..Want |-> Data(c, sent + i)]
<1>7. toks \in Seq(Token) /\ Len(toks) = Want /\ toks # <<>>
  <2>1. \A i \in 1 .. Want : Data(c, sent + i) \in Token
    BY <1>5, Tokens
  <2>2. Want \in Nat
    BY <1>5
  <2>3. toks \in Seq(Token) /\ Len(toks) = Want
    BY <2>1, <2>2
  <2> QED BY <1>5, <2>3
<1>8. \A i \in 1 .. Len(toks) : toks[i] = Script(c, (sent + 2) + i)
  <2> TAKE i \in 1 .. Len(toks)
  <2>1. i \in 1 .. Want
    BY <1>7
  <2>2. PICK p : p = (sent + 2) + i
    OBVIOUS
  <2>3. p # 1 /\ p # 2 /\ p <= Pieces[c] + 2 /\ p - 2 = sent + i
    BY <1>5, <2>1, <2>2
  <2>4. Script(c, p) = Data(c, sent + i)
    BY <2>3 DEF Script
  <2> QED BY <2>1, <2>2, <2>4
<1>9. Say("chunk", toks)
  BY <1>4 DEF ReadChunk
<1>10. Pos = sent + 2 /\ sent + 2 \in Nat
  BY <1>3, <1>5 DEF Pos
<1> HIDE DEF toks
<1> QED BY <1>1, <1>2, <1>3, <1>4, <1>6, <1>7, <1>8, <1>9, <1>10, TellConv

LEMMA QuitConv ==
    ASSUME TypeOK, Conv, NeverRoom \/ CardFails \/ (ReplyTimeout /\ NobodyAnswers), UNCHANGED s2Vars
    PROVE  Conv'
<1>1. CASE NeverRoom
  <2>1. dpc = "push" /\ ~Running /\ Apart /\ UNCHANGED mounted
    BY <1>1 DEF NeverRoom, Apart, fpgaVars
  <2>2. phase # "load"
    BY <2>1 DEF Conv, Absent, Blank
  <2>3. Abandon("CMD11")
    BY <1>1, <2>2 DEF NeverRoom
  <2> QED BY <2>1, <2>3, AbandonConv
<1>2. CASE CardFails
  <2>1. dpc \in {"open", "read"} /\ Apart /\ UNCHANGED mounted /\ Abandon("READ")
    BY <1>2 DEF CardFails, OsdUnchanged, Apart, fpgaVars
  <2>2. present /\ Running => spc \in S2Waiting /\ Empty
    BY <2>1 DEF Conv, Up, Reading, S2Waiting, Receiving
  <2> QED BY <2>1, <2>2, AbandonConv
<1>3. CASE ReplyTimeout /\ NobodyAnswers
  <2>1. dpc = "wait" /\ ~fresh /\ Apart /\ UNCHANGED mounted
    BY <1>3 DEF ReplyTimeout, Apart, fpgaVars
  <2>2. present /\ Running => spc \in S2Waiting /\ Empty
    BY <1>3 DEF NobodyAnswers, WireQuiet, Empty
  <2>3. CASE phase = "load"
    <3>1. Spin
      BY <1>3, <2>3 DEF ReplyTimeout
    <3>2. hold
      BY <2>1, <2>3 DEF Conv, Absent, Blank, Up, Talking, LoadSaid
    <3> QED BY <2>1, <2>2, <2>3, <3>1, <3>2, SpinConv
  <2>4. CASE phase # "load"
    <3>1. PICK e : Abandon(e)
      BY <1>3, <2>4, Zenon DEF ReplyTimeout
    <3> QED BY <2>1, <2>2, <3>1, AbandonConv
  <2> QED BY <2>3, <2>4
<1> QED BY <1>1, <1>2, <1>3

LEMMA StartConv ==
    ASSUME TypeOK, Conv, StartUp, UNCHANGED s2Vars
    PROVE  Conv'
<1>1. CASE BootOk /\ WireQuiet /\ spc \notin Receiving
  <2>1. /\ dpc = "boot" /\ Running /\ dpc' = "idle" /\ UNCHANGED <<out, fresh>> /\ Apart
    BY <1>1 DEF BootOk, linkVars, fpgaVars, Apart
  <2>2. /\ UNCHANGED <<fifo, ring, down, fpga, present, spc>> /\ Running'
    BY <2>1, ApartIs
  <2>3. Books'
    BY <2>1 DEF Conv, Books
  <2>4. present => Up'
    <3> SUFFICES ASSUME present PROVE Up'
      OBVIOUS
    <3>1. spc \in S2Waiting /\ Empty'
      BY <1>1, <2>1, <2>2 DEF Conv, Up, Underway, WireQuiet, Empty
    <3> QED BY <2>1, <2>2, <3>1 DEF Up
  <2>5. ~present => Absent'
    BY <2>1, <2>2 DEF Conv, Absent
  <2> QED BY <2>2, <2>3, <2>4, <2>5 DEF Conv
<1>2. CASE BootGiveUp
  <2>1. /\ dpc = "boot" /\ ~Running /\ dpc' = "idle" /\ UNCHANGED <<out, fresh, mounted>> /\ Apart
    BY <1>2 DEF BootGiveUp, linkVars, fpgaVars, Apart
  <2>2. /\ UNCHANGED <<fifo, ring, down, booting, present, spc>> /\ ~Running' /\ (Empty' <=> Empty)
    BY <2>1, ApartIs
  <2>3. Books' /\ present /\ Blank
    BY <2>1 DEF Conv, Books, Absent
  <2> QED BY <2>1, <2>2, <2>3 DEF Conv, Blank
<1> QED BY <1>1, <1>2 DEF StartUp

LEMMA UserConv ==
    ASSUME TypeOK, Conv, User, WireQuiet, UNCHANGED s2Vars
    PROVE  Conv'
<1>1. ASSUME NEW c \in Cores, Switch(c) PROVE Conv'
  <2>1. dpc = "idle" /\ Say("ping", <<Cmd("P")>>) /\ Apart /\ ~mounted' /\ sent' = 0
    BY <1>1 DEF Switch, OsdUnchanged, Apart, fpgaVars
  <2>2. down = <<>> /\ (present /\ Running => spc \in S2Waiting /\ Empty)
    BY <2>1 DEF WireQuiet, Conv, Up
  <2> QED BY <2>1, <2>2, AskConv
<1>2. CASE Remount
  <2>1. dpc = "idle" /\ Running /\ UNCHANGED <<dpc, out, fresh>> /\ Apart
    BY <1>2 DEF Remount, linkVars, fpgaVars, Apart
  <2>2. /\ UNCHANGED <<fifo, ring, down, fpga, present, spc>> /\ Running' /\ (Empty' <=> Empty)
    BY <2>1, ApartIs
  <2>3. Books'
    BY <2>1 DEF Conv, Books
  <2>4. present => Up'
    BY <2>1, <2>2 DEF Conv, Up
  <2>5. ~present => Absent'
    BY <2>1, <2>2 DEF Conv, Absent
  <2> QED BY <2>2, <2>3, <2>4, <2>5 DEF Conv
<1> QED BY <1>1, <1>2 DEF User

LEMMA IrqConv ==
    ASSUME TypeOK, Conv, ColdIrq, UNCHANGED s2Vars
    PROVE  Conv'
<1>1. /\ Running /\ ~hold /\ Apart
      /\ UNCHANGED <<claimed, fresh, last, dpc, phase, target, out, sent, hold, mounted>>
  BY DEF ColdIrq, linkVars, Apart
<1>2. /\ UNCHANGED <<fifo, ring, down, fpga, present, spc, staged_valid, hdr, got, intact>>
      /\ Running' /\ (Empty' <=> Empty) /\ Pos' = Pos /\ (Muted' <=> Muted)
  BY <1>1, ApartIs DEF Muted
<1>3. Books'
  BY <1>1 DEF Conv, Books
<1>4. present => Up'
  <2> SUFFICES ASSUME present PROVE Up'
    OBVIOUS
  <2>1. Up /\ ~(phase = "load" /\ dpc \in {"push", "wait"})
    BY <1>1 DEF Conv, Up, Talking, LoadSaid
  <2>2. (Underway' <=> Underway) /\ (Reading' <=> Reading) /\ (Ending' <=> Ending)
    BY <1>1, <1>2 DEF Underway, Reading, Ending, Single, OnScript, Along, Script, Burst
  <2>3. dpc \in {"push", "wait"} => Talking'
    <3> SUFFICES ASSUME dpc \in {"push", "wait"} PROVE Talking'
      OBVIOUS
    <3>1. Talking /\ phase # "load"
      BY <2>1 DEF Up
    <3>2. /\ (OneAnswer' <=> OneAnswer) /\ (Pinging' <=> Pinging) /\ (Asking' <=> Asking)
      BY <1>1, <1>2 DEF OneAnswer, Pinging, Asking, Single, Answered
    <3>3. (Telling' <=> Telling) /\ (Told' <=> Told) /\ (Mute' <=> Mute)
      BY <1>1, <1>2 DEF Telling, Told, Mute, OnScript, Along, Script, Burst, From, To, Want, Answered
    <3> QED BY <1>1, <3>1, <3>2, <3>3 DEF Talking, Transferring, LoadSaid
  <2> QED BY <1>1, <1>2, <2>1, <2>2, <2>3 DEF Up
<1>5. ~present => Absent'
  BY <1>1, <1>2 DEF Conv, Absent
<1> QED BY <1>2, <1>3, <1>4, <1>5 DEF Conv

LEMMA WatchdogConv ==
    ASSUME TypeOK, Conv, Watchdog, BlankByNow, UNCHANGED s2Vars
    PROVE  Conv'
<1>1. /\ wdg /\ dpc' = "boot" /\ out' = <<>> /\ ~mounted' /\ Apart /\ UNCHANGED <<claimed, fresh, last>>
  BY DEF Watchdog, linkVars, fpgaVars, Apart
<1>2. /\ UNCHANGED <<fifo, ring, down, fpga, booting, present, spc, staged_valid, hdr, got, intact>>
      /\ (Running' <=> Running) /\ (Empty' <=> Empty) /\ Pos' = Pos /\ (Muted' <=> Muted)
  BY <1>1, ApartIs DEF Muted
<1>3. Books'
  BY <1>1 DEF Books
<1>4. ASSUME present, Running PROVE Up'
  <2>1. Up /\ Books
    BY <1>4 DEF Conv
  <2>2. spc \in S2Waiting
    <3>1. dpc = "wait" => phase # "load"
      BY <1>1, <2>1 DEF Up, Talking, LoadSaid
    <3> QED BY <2>1, <3>1 DEF Up, Ending, BlankByNow
  <2>3. Empty => Underway'
    BY <1>1, <1>2, <2>2, QuietSingle DEF Underway
  <2>4. \A x : Single(x) => Single(x)'
    <3> TAKE x
    <3> HAVE Single(x)
    <3>1. Len(ring) \in Nat /\ Len(fifo) \in Nat /\ Len(out) \in Nat
      BY EmptyIs DEF TypeOK, LinkTypeOK, DockTypeOK
    <3>2. Len(out') = 0
      BY <1>1
    <3> QED BY <1>1, <1>2, <3>1, <3>2 DEF Single
  <2>5. \A c \in Cores : OnScript(c) => OnScript(c)'
    BY <1>2 DEF OnScript, Along, Script, Burst
  <2> SUFFICES Underway'
    BY <1>1, <1>2, <2>2 DEF Up
  <2>6. CASE dpc = "boot"
    BY <1>2, <2>1, <2>2, <2>4, <2>5, <2>6 DEF Up, Underway
  <2>7. CASE dpc \in {"idle", "open", "read", "spin"}
    BY <2>1, <2>3, <2>7 DEF Up, Reading
  <2>8. CASE dpc \in {"push", "wait"}
    <3>1. Talking
      BY <2>1, <2>8 DEF Up
    <3>2. phase \in {"ping", "caps", "begin", "chunk", "crc"}
      BY <1>1, <3>1 DEF Talking, LoadSaid, TypeOK, DockTypeOK, Phases
    <3>3. CASE phase \in {"ping", "caps"}
      BY <1>2, <2>2, <2>4, <3>1, <3>3 DEF Talking, Pinging, Asking, Underway
    <3>4. CASE phase \in {"begin", "chunk", "crc"}
      <4>1. target \in Cores
        BY <2>8 DEF TypeOK, DockTypeOK
      <4>2. CASE Telling
        <5>1. ~Muted /\ OnScript(target)
          BY <4>2 DEF Telling
        <5>2. PICK c \in Cores : OnScript(c)
          BY <4>1, <5>1
        <5>3. OnScript(c)'
          BY <2>5, <5>2
        <5> QED BY <1>2, <2>2, <5>1, <5>3 DEF Underway
      <4>3. CASE Told
        BY <2>3, <4>3 DEF Told
      <4>4. CASE Mute
        BY <1>2, <2>2, <4>4 DEF Mute, Underway
      <4> QED BY <3>1, <3>4, <4>2, <4>3, <4>4 DEF Talking, Transferring
    <3> QED BY <3>2, <3>3, <3>4
  <2> QED BY <2>6, <2>7, <2>8 DEF TypeOK, DockTypeOK
<1>5. present /\ ~Running => Blank'
  BY <1>1, <1>2 DEF Conv, Blank
<1>6. ~present => Absent'
  BY <1>1, <1>2 DEF Conv, Absent
<1> QED BY <1>2, <1>3, <1>4, <1>5, <1>6 DEF Conv

-----------------------------------------------------------------------------
LEMMA ConvInit == Init => Conv
<1> SUFFICES ASSUME Init PROVE Conv
  OBVIOUS
<1>1. /\ spc = "main" /\ down = <<>> /\ fresh = FALSE /\ dpc = "boot" /\ out = <<>> /\ mounted = FALSE
      /\ Running /\ Empty
  BY CoresAssumption DEF Init, LinkInit, S2Init, DockInit, Running, Empty
<1>2. Books
  BY <1>1 DEF Books
<1>3. Up
  BY <1>1, EmptyUnderway DEF Up, S2Waiting
<1>4. Absent
  BY <1>1 DEF Absent
<1> QED BY <1>1, <1>2, <1>3, <1>4 DEF Conv

LEMMA ConvStep ==
    ASSUME IInv, Conv, RingTakesChunk, Clean, Clean', [Next]_vars
    PROVE  Conv'
<1>1. TypeOK /\ StagedIsWhole /\ Bookkept /\ BlankWhy
  BY DEF IInv
<1>2. CASE LinkStep
  BY <1>1, <1>2, LinkConv
<1>3. CASE S2Step
  <2>1. CASE Takes
    BY <1>1, <1>3, <2>1, TakesConv DEF S2Step
  <2>2. CASE ByteTimeout /\ DockSilent
    BY <1>1, <1>3, <2>2, SilenceConv DEF S2Step
  <2>3. CASE DriveFpga
    BY <1>1, <1>3, <2>3, DriveConv DEF S2Step
  <2> QED BY <1>3, <2>1, <2>2, <2>3 DEF S2Step, Transfer, Takes
<1>4. CASE OsdStep
  <2>1. UNCHANGED s2Vars
    BY <1>4 DEF OsdStep
  <2>2. CASE \E r \in Codes : OnPing(r) \/ OnCaps(r) \/ OnBegin(r) \/ OnChunk(r) \/ OnLoad(r) \/ (OnCrc(r) /\ Settled)
    BY <1>1, <2>1, <2>2, PingConv, CapsConv, BeginConv, ChunkConv, LoadConv, CrcConv
  <2>3. CASE Push \/ OpenSidecar \/ ReadChunk
    BY <1>1, <2>1, <2>3, PushConv, OpenConv, ReadChunkConv
  <2>4. CASE NeverRoom \/ CardFails \/ (ReplyTimeout /\ NobodyAnswers)
    BY <1>1, <2>1, <2>4, QuitConv
  <2>5. CASE StartUp
    BY <1>1, <2>1, <2>5, StartConv
  <2> QED BY <1>4, <2>2, <2>3, <2>4, <2>5 DEF OsdStep, Converse
<1>5. CASE UserStep
  BY <1>1, <1>5, UserConv DEF UserStep
<1>6. CASE IrqStep \/ WdgStep
  BY <1>1, <1>6, IrqConv, WatchdogConv DEF IrqStep, WdgStep
<1>7. CASE UNCHANGED vars
  <2>1. /\ UNCHANGED <<fifo, ring, down, fpga, booting, fresh, last, claimed, present, spc, staged_valid, hdr, got, intact>>
        /\ UNCHANGED <<dpc, phase, target, out, sent, hold, wdg, mounted>>
    BY <1>7 DEF vars, linkVars, fpgaVars, s2Vars, dockVars
  <2>2. (Books' <=> Books) /\ (Absent' <=> Absent) /\ (Running' <=> Running)
    BY <2>1 DEF Books, Absent, Running
  <2>3. /\ (Empty' <=> Empty) /\ (\A x : Single(x)' <=> Single(x)) /\ (\A r : Answered(r)' <=> Answered(r))
        /\ (Muted' <=> Muted)
    BY <2>1 DEF Empty, Single, Answered, Muted
  <2>4. Blank' <=> Blank
    BY <2>1, <2>3 DEF Blank
  <2>5. (Underway' <=> Underway) /\ (Reading' <=> Reading) /\ (Ending' <=> Ending)
    BY <2>1 DEF Underway, Reading, Ending, Single, OnScript, Along, Script, Burst, Muted, Empty, Pos
  <2>6. Talking' <=> Talking
    <3>1. (OneAnswer' <=> OneAnswer) /\ (Pinging' <=> Pinging) /\ (Asking' <=> Asking) /\ (LoadSaid' <=> LoadSaid)
      BY <2>1 DEF OneAnswer, Pinging, Asking, LoadSaid, Single, Answered, Empty, Muted
    <3>2. (Telling' <=> Telling) /\ (Told' <=> Told) /\ (Mute' <=> Mute)
      BY <2>1 DEF Telling, Told, Mute, OnScript, Along, Script, Burst, From, To, Want, Answered, Empty, Muted, Pos
    <3> QED BY <2>1, <3>1, <3>2 DEF Talking, Transferring
  <2>7. Up' <=> Up
    BY <2>1, <2>3, <2>5, <2>6 DEF Up
  <2> QED BY <2>1, <2>2, <2>4, <2>7 DEF Conv
<1> QED BY <1>2, <1>3, <1>4, <1>5, <1>6, <1>7 DEF Next

-----------------------------------------------------------------------------
(* Faults are spent and never come back: a conversation that is clean now  *)
(* has been clean all along.                                               *)

Bounded == \A f \in Faults : left[f] <= MaxFaults[f]

LEMMA LeftStep ==
    ASSUME TypeOK, [Next]_vars
    PROVE  UNCHANGED left \/ \E f \in Faults : Spend(f)
<1>f. \A f \in {"up", "down", "card", "jtag", "serial", "stall"} : f \in Faults
  BY DEF Faults
<1>1. CASE LinkStep
  BY <1>1, <1>f DEF LinkStep, LinkNext, Transmit, LoseUp, SerialNoise, Deliver, LoseDown, FlashBoot
<1>2. CASE S2Step
  <2>1. CASE Listen \/ Header \/ Payload \/ CheckStaged
    BY <2>1, TakesFrame DEF Takes
  <2>2. CASE ByteTimeout /\ DockSilent
    BY <2>2, <1>f DEF DockSilent
  <2>3. CASE DriveFpga
    BY <2>3, <1>f DEF DriveFpga, DelayOver, EraseSram, WrongIdcode, WriteSram, Reload
  <2> QED BY <1>2, <2>1, <2>2, <2>3 DEF S2Step, Transfer
<1>3. CASE OsdStep
  <2>1. CASE StartUp
    BY <2>1 DEF StartUp, BootOk, BootGiveUp
  <2>2. CASE Converse
    BY <2>2, <1>f DEF Converse, OnPing, OnCaps, OnBegin, OnChunk, OnCrc, OnLoad, Answer, Push, NeverRoom,
                OpenSidecar, ReadChunk, CardFails, ReplyTimeout
  <2> QED BY <1>3, <2>1, <2>2 DEF OsdStep
<1>4. CASE UserStep \/ IrqStep \/ WdgStep
  BY <1>4 DEF UserStep, IrqStep, WdgStep, User, Switch, Remount, ColdIrq, Watchdog
<1>5. CASE UNCHANGED vars
  BY <1>5 DEF vars
<1> QED BY <1>1, <1>2, <1>3, <1>4, <1>5 DEF Next

LEMMA StillBounded ==
    ASSUME TypeOK, Bounded, [Next]_vars
    PROVE  /\ Bounded'
           /\ \A f \in Faults : left'[f] = MaxFaults[f] => left[f] = MaxFaults[f] /\ ~Spend(f)
<1>1. left \in [Faults -> Nat] /\ MaxFaults \in [Faults -> Nat]
  BY FaultsAssumption DEF TypeOK, LinkTypeOK
<1>2. \A f \in Faults : left'[f] <= left[f]
  BY <1>1, LeftStep DEF Spend
<1>3. \A f \in Faults : Spend(f) => left'[f] = left[f] - 1
  BY <1>1 DEF Spend
<1>4. \A f \in Faults : left'[f] \in Int /\ left[f] \in Nat /\ MaxFaults[f] \in Nat
  BY <1>1, LeftStep DEF Spend
<1> QED BY <1>2, <1>3, <1>4 DEF Bounded

LEMMA StillClean == ASSUME TypeOK, Bounded, [Next]_vars, Clean' PROVE Clean
<1>1. \A f \in {"up", "serial", "stall"} : f \in Faults
  BY DEF Faults
<1> QED BY <1>1, StillBounded DEF Clean

CInv == IInv /\ Bounded /\ (Clean => Conv)

LEMMA CInvCorrect == RingTakesChunk => (Spec => []CInv)
<1> SUFFICES ASSUME RingTakesChunk PROVE Spec => []CInv
  OBVIOUS
<1>1. Init => CInv
  <2>1. Init => Bounded
    BY FaultsAssumption DEF Init, LinkInit, Bounded
  <2> QED BY <2>1, IInvInit, ConvInit DEF CInv
<1>2. CInv /\ [Next]_vars => CInv'
  <2> SUFFICES ASSUME CInv, [Next]_vars PROVE CInv'
    OBVIOUS
  <2>1. IInv' /\ Bounded' /\ TypeOK
    BY IInvStep, StillBounded DEF CInv, IInv
  <2>2. Clean' => Conv'
    BY <2>1, StillClean, ConvStep DEF CInv
  <2> QED BY <2>1, <2>2 DEF CInv
<1> QED BY <1>1, <1>2, PTL DEF Spec

(* What the dock loads is what the user picked: while stage 2 has heard    *)
(* every byte the dock said, it holds the very core of this switch when L  *)
(* is said, whatever answers were lost, whatever the card did, and however *)
(* often the dock was restarted or the FPGA went blank in between.         *)
THEOREM LoadsThePicked == RingTakesChunk => (Spec => [](Clean => LoadsWhatWasPicked))
<1> SUFFICES ASSUME RingTakesChunk PROVE Spec => [](Clean => LoadsWhatWasPicked)
  OBVIOUS
<1>1. TypeOK /\ Conv => LoadsWhatWasPicked
  BY DEF Conv, Books, Up, Blank, Absent, Talking, LoadSaid, LoadsWhatWasPicked
<1>2. CInv => (Clean => LoadsWhatWasPicked)
  BY <1>1 DEF CInv, IInv
<1> QED BY <1>2, CInvCorrect, PTL

(* On such a link the dock closes the images before the FPGA goes blank    *)
(* and opens none until it runs again.                                     *)
THEOREM ImagesClosed == RingTakesChunk => (Spec => [](Clean => NoImageWhileBlank))
<1> SUFFICES ASSUME RingTakesChunk PROVE Spec => [](Clean => NoImageWhileBlank)
  OBVIOUS
<1>1. Conv => NoImageWhileBlank
  BY DEF Conv, Blank, Absent, NoImageWhileBlank
<1>2. CInv => (Clean => NoImageWhileBlank)
  BY <1>1 DEF CInv
<1> QED BY <1>2, CInvCorrect, PTL

\* The FPGA goes blank by stage 2's hand.
LEMMA BlankedBy ==
    ASSUME IInv, [Next]_vars, fpga # NoCore, fpga' = NoCore
    PROVE  spc \in {"erase", "reload"}
<1>1. CASE LinkStep
  BY <1>1, BoardAssumption DEF LinkStep, LinkNext, Transmit, LoseUp, SerialNoise, Deliver, LoseDown,
       FlashBoot, ComeUp, fpgaVars
<1>2. CASE S2Step
  <2>1. CASE Takes
    BY <2>1, TakesFrame
  <2>2. CASE ByteTimeout
    BY <2>2 DEF ByteTimeout, fpgaVars
  <2>3. CASE DriveFpga
    BY <2>3 DEF DriveFpga, DelayOver, EraseSram, WrongIdcode, WriteSram, Reload, fpgaVars, ComeUp,
                IInv, BlankWhy, Running
  <2> QED BY <1>2, <2>1, <2>2, <2>3 DEF S2Step, Transfer, Takes
<1>3. CASE OsdStep \/ UserStep \/ IrqStep \/ WdgStep
  <2>1. UNCHANGED fpga
    BY <1>3 DEF OsdStep, UserStep, IrqStep, WdgStep, Converse, StartUp, User, OnPing, OnCaps,
         OnBegin, OnChunk, OnCrc, OnLoad, Push, NeverRoom, OpenSidecar, ReadChunk, CardFails,
         ReplyTimeout, BootOk, BootGiveUp, Switch, Remount, ColdIrq, Watchdog, OsdUnchanged, fpgaVars
  <2> QED BY <2>1
<1>4. CASE UNCHANGED vars
  BY <1>4 DEF vars, fpgaVars
<1> QED BY <1>1, <1>2, <1>3, <1>4 DEF Next

(* The full core arrives before the FPGA is erased: nothing of a transfer  *)
(* is ever heard as the command to reload.                                 *)
THEOREM FullCoreArrives == RingTakesChunk => (Spec /\ []Clean => FullCoreFirst)
<1> SUFFICES ASSUME RingTakesChunk PROVE Spec /\ []Clean => FullCoreFirst
  OBVIOUS
<1>1. CInv /\ Clean /\ [Next]_vars => [fpga # NoCore /\ fpga' = NoCore => staged_valid]_vars
  <2> SUFFICES ASSUME CInv, Clean, [Next]_vars, fpga # NoCore, fpga' = NoCore PROVE staged_valid
    OBVIOUS
  <2>1. spc \in {"erase", "reload"} /\ Conv /\ Running
    BY BlankedBy DEF CInv, Running
  <2> QED BY <2>1 DEF Conv, Up, Absent, Ending, S2Waiting, Receiving
<1> QED BY <1>1, CInvCorrect, PTL DEF FullCoreFirst, Spec

-----------------------------------------------------------------------------
(* While no answer was lost.                                               *)

HeardLoad == spc = "loadDelay" /\ dpc = "wait" => fresh \/ down # <<>>
ThenSpun == ~Running \/ spc \in {"erase", "reload"} => dpc \in {"spin", "boot"}

LEMMA AllHeardIs == AllHeard <=> (left["down"] = MaxFaults["down"] => HeardLoad /\ ThenSpun)
BY DEF AllHeard, HeardLoad, ThenSpun

\* A step of the dock alone.
LEMMA DockHeard ==
    ASSUME IInv, Conv, FlashCore # NoCore, HeardLoad, ThenSpun, OsdStep \/ UserStep \/ IrqStep \/ WdgStep
    PROVE  HeardLoad' /\ ThenSpun'
<1>1. /\ UNCHANGED <<spc, fpga, down>> /\ (Running' <=> Running)
      /\ dpc' = dpc => fresh' = fresh
  <2>1. UNCHANGED <<spc, fpga, down>>
    BY DEF OsdStep, UserStep, IrqStep, WdgStep, s2Vars, Converse, StartUp, User, OnPing, OnCaps,
           OnBegin, OnChunk, OnCrc, OnLoad, Push, NeverRoom, OpenSidecar, ReadChunk, CardFails,
           ReplyTimeout, BootOk, BootGiveUp, Switch, Remount, ColdIrq, Watchdog, OsdUnchanged, fpgaVars, linkVars
  <2>2. CASE OsdStep \/ UserStep
    <3>1. CASE \E r \in Codes : OnPing(r) \/ OnCaps(r) \/ OnBegin(r) \/ OnChunk(r) \/ OnCrc(r) \/ OnLoad(r)
      <4>1. dpc = "wait" /\ dpc' # "wait"
        BY <3>1 DEF OnPing, OnCaps, OnBegin, OnChunk, OnCrc, OnLoad, Answer, Say, Abandon, Spin
      <4> QED BY <2>1, <4>1 DEF Running
    <3>2. CASE Push \/ Remount \/ StartUp
      BY <2>1, <3>2 DEF Push, Remount, StartUp, BootOk, BootGiveUp, linkVars, Running
    <3>3. CASE NeverRoom \/ ReplyTimeout \/ OpenSidecar \/ ReadChunk \/ CardFails
      <4>1. dpc' # dpc
        <5>1. CASE OpenSidecar
          BY <5>1, PayloadAssumption DEF OpenSidecar, Say, Abandon, IInv, TypeOK, DockTypeOK
        <5>2. CASE NeverRoom \/ ReplyTimeout
          BY <5>2 DEF NeverRoom, ReplyTimeout, Abandon, Spin
        <5>3. CASE ReadChunk \/ CardFails
          BY <5>3 DEF ReadChunk, CardFails, Say, Abandon
        <5> QED BY <3>3, <5>1, <5>2, <5>3
      <4> QED BY <2>1, <4>1 DEF Running
    <3>4. CASE \E c \in Cores : Switch(c)
      BY <2>1, <3>4 DEF Switch, Say, Running
    <3> QED BY <2>2, <3>1, <3>2, <3>3, <3>4 DEF OsdStep, Converse, UserStep, User
  <2>3. CASE IrqStep \/ WdgStep
    BY <2>1, <2>3 DEF IrqStep, WdgStep, ColdIrq, Watchdog, linkVars, Running
  <2> QED BY <2>1, <2>2, <2>3
<1>2. dpc' = "wait" => dpc \in {"push", "wait"}
  BY DEF OsdStep, UserStep, IrqStep, WdgStep, Converse, StartUp, User, OnPing, OnCaps,
         OnBegin, OnChunk, OnCrc, OnLoad, Answer, Push, NeverRoom, OpenSidecar, ReadChunk, CardFails,
         ReplyTimeout, BootOk, BootGiveUp, Switch, Remount, ColdIrq, Watchdog, Say, Abandon, Spin
<1>3. HeardLoad'
  <2> SUFFICES ASSUME spc = "loadDelay", dpc' = "wait" PROVE fresh' \/ down' # <<>>
    BY <1>1 DEF HeardLoad
  <2>1. dpc # "push"
    BY DEF Conv, Absent, Blank, Up, Ending, S2Waiting, Receiving
  <2> QED BY <1>1, <1>2, <2>1 DEF HeardLoad
<1>4. ThenSpun'
  <2> SUFFICES ASSUME ~Running \/ spc \in {"erase", "reload"} PROVE dpc' \in {"spin", "boot"}
    BY <1>1 DEF ThenSpun
  <2>1. dpc \in {"spin", "boot"}
    BY DEF ThenSpun
  <2>2. CASE StartUp
    <3>1. CASE BootOk /\ WireQuiet /\ spc \notin Receiving
      BY <3>1 DEF BootOk, Conv, Up, Underway, Absent, S2Waiting, Receiving
    <3>2. CASE BootGiveUp /\ StaysBlank
      BY <3>2 DEF BootGiveUp, StaysBlank, IInv, BlankWhy, S2Waiting, Receiving
    <3> QED BY <2>2, <3>1, <3>2 DEF StartUp
  <2>3. CASE IrqStep \/ WdgStep
    BY <2>1, <2>3 DEF IrqStep, WdgStep, ColdIrq, Watchdog
  <2>4. ~(UserStep \/ Converse)
    BY <2>1 DEF UserStep, Converse, User, OnPing, OnCaps,
         OnBegin, OnChunk, OnCrc, OnLoad, Answer, Push, NeverRoom, OpenSidecar, ReadChunk, CardFails,
         ReplyTimeout, Switch, Remount
  <2> QED BY <2>2, <2>3, <2>4 DEF OsdStep
<1> QED BY <1>3, <1>4

\* A step of the link or of stage 2.
LEMMA OthersHeard ==
    ASSUME IInv, Conv, HeardLoad, ThenSpun, LinkStep \/ S2Step, ~Spend("down")
    PROVE  HeardLoad' /\ ThenSpun'
<1>1. UNCHANGED dpc
  BY DEF LinkStep, S2Step, dockVars
<1>2. CASE LinkStep
  <2>1. spc' = spc
    BY <1>2 DEF LinkStep, s2Vars
  <2>2. CASE Transmit \/ LoseUp \/ SerialNoise
    BY <1>1, <2>1, <2>2 DEF Transmit, LoseUp, SerialNoise, fpgaVars, Running, HeardLoad, ThenSpun
  <2>3. CASE Deliver
    <3>1. spc = "loadDelay" => Running
      BY DEF Conv, Blank, Absent
    <3> QED BY <1>1, <2>1, <2>3, <3>1 DEF Deliver, fpgaVars, Running, HeardLoad, ThenSpun
  <2>4. CASE FlashBoot
    <3>1. spc = "main" /\ Running'
      BY <2>4, BoardAssumption, CoresAssumption DEF FlashBoot, ComeUp, Running, IInv, BlankWhy, Conv, Absent, Blank
    <3> QED BY <1>1, <2>1, <3>1 DEF HeardLoad, ThenSpun
  <2> QED BY <1>2, <2>2, <2>3, <2>4 DEF LinkStep, LinkNext, LoseDown
<1>3. CASE Takes
  <2>1. UNCHANGED fpga /\ spc \in S2Waiting
    BY <1>3, TakesFrame
  <2>2. spc' \notin {"erase", "reload"} /\ (spc' = "loadDelay" => down' # <<>>)
    <3>1. CASE Listen
      <4>1. CASE CmdLoad
        <5>1. spc' \notin {"erase", "reload"}
          BY <4>1 DEF CmdLoad, Hear, Take
        <5>2. down \in Seq(Codes) /\ "OK" \in Codes /\ "ENOSTAGE" \in Codes
          BY DEF IInv, TypeOK, LinkTypeOK, Codes
        <5>3. down' = Append(down, "OK") \/ down' = Append(down, "ENOSTAGE")
          BY <4>1 DEF CmdLoad, Reply
        <5> QED BY <5>1, <5>2, <5>3, AppendIs
      <4>2. CASE ~CmdLoad
        BY <3>1, <4>2 DEF Listen, Ping, Caps, BeginLegacy, CmdStatus, NotOurs, CmdBegin, CmdReload, Hear, Take
      <4> QED BY <4>1, <4>2
    <3>2. CASE Header \/ Payload \/ CheckStaged
      BY <3>2 DEF Header, Payload, CheckStaged, Take
    <3> QED BY <1>3, <3>1, <3>2 DEF Takes
  <2>3. ~Running => dpc \in {"spin", "boot"}
    BY DEF ThenSpun
  <2> QED BY <1>1, <2>1, <2>2, <2>3 DEF HeardLoad, ThenSpun, Running
<1>4. CASE ByteTimeout
  BY <1>1, <1>4 DEF ByteTimeout, HeardLoad, ThenSpun, Running, fpgaVars
<1>5. CASE DelayOver /\ AnswerRead
  <2>1. spc \in {"loadDelay", "reloadDelay"} /\ down = <<>> /\ spc' \in {"erase", "reload"}
    BY <1>5 DEF DelayOver
  <2>2. spc = "loadDelay" /\ dpc \in {"wait", "spin"}
    BY <2>1 DEF Conv, Absent, Blank, Up, Ending, S2Waiting, Receiving
  <2>3. dpc = "spin"
    BY <1>5, <2>1, <2>2 DEF AnswerRead, HeardLoad
  <2> QED BY <1>1, <2>1, <2>3 DEF HeardLoad, ThenSpun
<1>6. CASE EraseSram \/ WrongIdcode \/ WriteSram \/ Reload
  <2>1. spc \in {"erase", "reload"} \/ ~Running
    BY <1>6 DEF EraseSram, WrongIdcode, WriteSram, Reload, IInv, BlankWhy
  <2>2. spc' # "loadDelay"
    BY <1>6 DEF EraseSram, WrongIdcode, WriteSram, Reload
  <2> QED BY <1>1, <2>1, <2>2 DEF HeardLoad, ThenSpun
<1> QED BY <1>2, <1>3, <1>4, <1>5, <1>6 DEF S2Step, Takes, Transfer, DriveFpga

\* The FPGA is blank only behind a dock that is about to restart.
HInv == CInv /\ (Clean => AllHeard)

LEMMA HInvCorrect == RingTakesChunk /\ FlashCore # NoCore => (Spec => []HInv)
<1> SUFFICES ASSUME RingTakesChunk, FlashCore # NoCore PROVE Spec => []HInv
  OBVIOUS
<1>1. Init => AllHeard
  BY CoresAssumption DEF Init, S2Init, LinkInit, DockInit, AllHeard, Running
<1>2. HInv /\ CInv' /\ [Next]_vars => HInv'
  <2> SUFFICES ASSUME HInv, CInv', [Next]_vars, Clean', left'["down"] = MaxFaults["down"]
               PROVE  HeardLoad' /\ ThenSpun'
    BY DEF HInv, AllHeard, HeardLoad, ThenSpun
  <2>1. IInv /\ TypeOK /\ Bounded
    BY DEF HInv, CInv, IInv
  <2>2. Clean /\ left["down"] = MaxFaults["down"] /\ ~Spend("down")
    BY <2>1, StillClean, StillBounded DEF Faults
  <2>3. Conv /\ HeardLoad /\ ThenSpun
    BY <2>2, AllHeardIs DEF HInv, CInv
  <2>4. CASE UNCHANGED vars
    BY <2>3, <2>4 DEF vars, linkVars, fpgaVars, s2Vars, dockVars, HeardLoad, ThenSpun, Running
  <2> QED BY <2>1, <2>2, <2>3, <2>4, OthersHeard, DockHeard DEF Next
<1>3. Spec => []CInv
  BY CInvCorrect
<1> QED BY <1>1, <1>2, <1>3, PTL DEF Spec, HInv

(* While every answer arrives as well, the interrupt task is held or the   *)
(* MCU is starting up for as long as the FPGA is blank, a load that failed *)
(* and its fallback to the flash's core included.                          *)
THEOREM HeldThroughLoad ==
    RingTakesChunk /\ FlashCore # NoCore => (Spec => [](Clean => HeldWhileAnswered))
<1> SUFFICES ASSUME RingTakesChunk, FlashCore # NoCore PROVE Spec => [](Clean => HeldWhileAnswered)
  OBVIOUS
<1>1. Conv /\ AllHeard => HeldWhileAnswered
  BY DEF Conv, Books, AllHeard, HeldWhileAnswered, HoldThroughBlank
<1>2. HInv => (Clean => HeldWhileAnswered)
  BY <1>1 DEF HInv, CInv
<1> QED BY <1>2, HInvCorrect, PTL
=============================================================================
