-------------------------- MODULE GowinLoadProofs --------------------------
(***************************************************************************)
(* Wherever the pins were left, for any bitstream in any chunks and any    *)
(* number of polls: the FPGA hears every instruction, takes the bitstream  *)
(* whole and in order, is not left blank, and holds the new core when the  *)
(* load says so.                                                           *)
(***************************************************************************)
EXTENDS GowinLoad, TLAPS

Calls == {"ir", "dr", "reset"}
Plain(s) == \A i \in 1 .. Len(s) : s[i].call \in Calls /\ s[i].arg # "data" /\ s[i].arg # "done"

-----------------------------------------------------------------------------
(* The sequences.                                                          *)

LEMMA ProbeIs == Plain(Probe) /\ Len(Probe) = 7 /\ Probe[1].call = "reset"
BY DEF Probe, Plain, Ir, Dr, Reset, Call, Calls

LEMMA ForceIs == Plain(ForceState) /\ Len(ForceState) = 22
BY DEF ForceState, Plain, Ir, Dr, Reset, Call, Calls

LEMMA EraseIs == Plain(EraseSram) /\ Len(EraseSram) = 13
BY DEF EraseSram, Plain, Ir, Dr, Reset, Call, Calls

LEMMA WriteIs ==
    /\ Len(Write) = 13 /\ \A i \in 1 .. 13 : Write[i].call \in Calls
    /\ Write[3] = Ir("CONFIG_ENABLE") /\ Write[4] = Ir("INIT_ADDR") /\ Write[5] = Ir("XFER_WRITE")
    /\ Write[6] = Dr("data") /\ Write[7] = Ir("0a") /\ Write[12] = Ir("STATUS") /\ Write[13] = Dr("done")
    /\ \A i \in 1 .. 13 : /\ i # 6 => Write[i].arg # "data"
                          /\ i # 13 => Write[i].arg # "done"
BY DEF Write, WriteBegin, WriteEnd, Ir, Dr, Reset, Call, Calls

\* fpga_load: 55 calls, of which the 48th is the bitstream's.
LEMMA LoadLen == Len(FpgaLoad) = 55 /\ Forced = 30 /\ Status1 = 43 /\ DataAt = 48
BY DEF FpgaLoad, Forced, Status1, DataAt, Probe, ForceState, EraseSram, Write, WriteBegin, WriteEnd

LEMMA LoadAt ==
    /\ \A i \in 1 .. 7 : FpgaLoad[i] = Probe[i]
    /\ \A i \in 8 .. 29 : FpgaLoad[i] = ForceState[i - 7]
    /\ \A i \in 30 .. 42 : FpgaLoad[i] = EraseSram[i - 29]
    /\ \A i \in 43 .. 55 : FpgaLoad[i] = Write[i - 42]
BY DEF FpgaLoad, Probe, ForceState, EraseSram, Write, WriteBegin, WriteEnd

LEMMA LoadOps ==
    /\ \A i \in 1 .. 55 : /\ FpgaLoad[i].call \in Calls
                          /\ i # 48 => FpgaLoad[i].arg # "data"
                          /\ i # 55 => FpgaLoad[i].arg # "done"
    /\ FpgaLoad[1].call = "reset"
    /\ FpgaLoad[45] = Ir("CONFIG_ENABLE") /\ FpgaLoad[46] = Ir("INIT_ADDR")
    /\ FpgaLoad[47] = Ir("XFER_WRITE") /\ FpgaLoad[48] = Dr("data") /\ FpgaLoad[49] = Ir("0a")
    /\ FpgaLoad[54] = Ir("STATUS") /\ FpgaLoad[55] = Dr("done")
<1>1. \A i \in 1 .. 7 : /\ FpgaLoad[i].call \in Calls
                        /\ FpgaLoad[i].arg # "data" /\ FpgaLoad[i].arg # "done"
  BY LoadAt, ProbeIs DEF Plain
<1>2. \A i \in 8 .. 29 : /\ FpgaLoad[i].call \in Calls
                         /\ FpgaLoad[i].arg # "data" /\ FpgaLoad[i].arg # "done"
  BY LoadAt, ForceIs DEF Plain
<1>3. \A i \in 30 .. 42 : /\ FpgaLoad[i].call \in Calls
                          /\ FpgaLoad[i].arg # "data" /\ FpgaLoad[i].arg # "done"
  BY LoadAt, EraseIs DEF Plain
<1>4. \A i \in 43 .. 55 : /\ FpgaLoad[i].call \in Calls
                          /\ i # 48 => FpgaLoad[i].arg # "data"
                          /\ i # 55 => FpgaLoad[i].arg # "done"
  BY LoadAt, WriteIs
<1>5. \A i \in 1 .. 55 : i \in 1 .. 7 \/ i \in 8 .. 29 \/ i \in 30 .. 42 \/ i \in 43 .. 55
  OBVIOUS
<1>6. \A i \in 1 .. 55 : /\ FpgaLoad[i].call \in Calls
                         /\ i # 48 => FpgaLoad[i].arg # "data"
                         /\ i # 55 => FpgaLoad[i].arg # "done"
  BY <1>1, <1>2, <1>3, <1>4, <1>5
<1>7. FpgaLoad[1].call = "reset"
  BY LoadAt, ProbeIs
<1> QED BY <1>6, <1>7, LoadAt, WriteIs

LEMMA ReloadOps ==
    Len(GwReload) = 3 /\ GwReload[1] = Reset /\ GwReload[2] = Ir("RELOAD") /\ GwReload[3] = Ir("NOOP")
BY DEF GwReload

\* The call a job is at.
Here == job \in {"idle", "load", "reload"} /\ at \in 1 .. Len(Sequence)

LEMMA OpIs ==
    ASSUME Here
    PROVE  /\ Op.call \in Calls /\ at \in Nat
           /\ at <= IF job = "load" THEN 55 ELSE 3
           /\ Op.arg = "data" <=> (job = "load" /\ at = 48)
           /\ Op.arg = "done" <=> (job = "load" /\ at = 55)
           /\ Op.arg = "data" \/ Op.arg = "done" => Op.call = "dr"
           /\ job = "load" /\ at = 1 => Op.call = "reset"
<1>1. CASE job = "load"
  <2>1. Op = FpgaLoad[at] /\ at \in 1 .. 55
    BY <1>1, LoadLen DEF Here, Op, Sequence
  <2> QED BY <1>1, <2>1, LoadOps DEF Dr, Call
<1>2. CASE job # "load"
  <2>1. at \in 1 .. 3 /\ Op = GwReload[at]
    BY <1>2, ReloadOps DEF Here, Op, Sequence
  <2> QED BY <1>2, <2>1, ReloadOps DEF Ir, Reset, Call, Calls
<1> QED BY <1>1, <1>2

-----------------------------------------------------------------------------
(* Where the TAP is at each clock of a call.                               *)

\* Six ones lead to TEST-LOGIC-RESET from anywhere: what five leave.
ResetWay ==
    /\ step = 1 => tap \in {"reset", "selectDr", "selectIr", "exit1Dr", "exit1Ir",
                            "exit2Dr", "exit2Ir", "updateDr", "updateIr"}
    /\ step = 2 => tap \in {"reset", "selectDr", "selectIr", "updateDr", "updateIr"}
    /\ step = 3 => tap \in {"reset", "selectDr", "selectIr"}
    /\ step = 4 => tap \in {"reset", "selectIr"}
    /\ step \in {5, 6} => tap = "reset"
    /\ step = 7 => tap = "idle"

IrWay ==
    /\ step = 0 \/ step >= 14 => tap = "idle"
    /\ step = 1 => tap = "selectDr"
    /\ step = 2 => tap = "selectIr"
    /\ step = 3 => tap = "captureIr"
    /\ step \in 4 .. 11 => tap = "shiftIr"
    /\ step = 12 => tap = "exit1Ir"
    /\ step = 13 => tap = "updateIr"
    /\ step \in 5 .. 12 => sr = Bits(Op.arg, step - 4)
    /\ step >= 13 => inst = Op.arg

DrWay ==
    /\ step = 0 \/ step = DrBits + 5 => tap = "idle"
    /\ step = 1 => tap = "selectDr"
    /\ step = 2 => tap = "captureDr"
    /\ step \in 3 .. DrBits + 2 => tap = "shiftDr"
    /\ step = DrBits + 3 => tap = IF Last THEN "exit1Dr" ELSE "shiftDr"
    /\ step = DrBits + 4 => tap = "updateDr"

\* in_shift says whether the TAP is parked in SHIFT-DR, or on its way out.
Way ==
    /\ Op.call = "reset" => ResetWay
    /\ Op.call = "ir" => IrWay
    /\ Op.call = "dr" => DrWay
    /\ in_shift <=> (Op.call = "dr" /\ step \in 3 .. DrBits + 4)

LEMMA Positive == Chunks \in Nat \ {0} /\ RegBits \in Nat \ {0} /\ Tries \in Nat \ {0}
BY LoadAssumption

LEMMA SizeIs == Size \in Nat
<1>1. Chunks \in 0 .. Chunks
  BY LoadAssumption
<1> QED BY <1>1, LoadAssumption

LEMMA Bitlengths ==
    ASSUME Here, chunk \in 0 .. Chunks - 1
    PROVE  /\ DrBits \in Nat \ {0}
           /\ Op.arg = "data" => DrBits = Ends[chunk + 1] - Ends[chunk]
           /\ Ends[chunk] \in Nat /\ Ends[chunk + 1] \in Nat /\ Ends[chunk + 1] <= Size
           /\ chunk + 1 \in 1 .. Chunks
           /\ Length \in Nat /\ Size \in Nat
<1>1. chunk \in 0 .. Chunks /\ chunk + 1 \in 0 .. Chunks /\ chunk + 1 \in 1 .. Chunks
  BY LoadAssumption
<1>2. Ends[chunk] \in Nat /\ Ends[chunk + 1] \in Nat /\ Ends[chunk] < Ends[chunk + 1]
  BY <1>1, LoadAssumption
<1>3. Ends[chunk + 1] <= Size /\ Size \in Nat
  <2>1. Chunks \in 0 .. Chunks
    BY LoadAssumption
  <2>2. Ends[Chunks] = Size /\ Size \in Nat
    BY SizeIs, LoadAssumption
  <2>3. chunk + 1 = Chunks \/ Ends[chunk + 1] < Ends[Chunks]
    BY <1>1, <2>1, LoadAssumption
  <2> QED BY <2>2, <2>3, <1>2
<1>4. DrBits \in Nat \ {0} /\ (Op.arg = "data" => DrBits = Ends[chunk + 1] - Ends[chunk])
  BY <1>2, LoadAssumption DEF DrBits
<1>5. Length \in Nat
  BY <1>4 DEF Length, ResetLength, IrLength, DrLength
<1> QED BY <1>1, <1>2, <1>3, <1>4, <1>5

LEMMA SameCall ==
    ASSUME Clock
    PROVE  /\ Op' = Op /\ DrBits' = DrBits /\ (Last' <=> Last) /\ Length' = Length
           /\ step' = step + 1 /\ Sequence' = Sequence
BY DEF Clock, Op, Sequence, DrBits, Last, Length, ResetLength, IrLength, DrLength

LEMMA Steps ==
    ASSUME TypeOK, Clock
    PROVE  /\ step \in 0 .. Length - 1 /\ step' = step + 1
           /\ Op.call = "ir" => Length = 20
           /\ Op.call = "dr" => Length = DrLength
<1>1. Op.call = "ir" => Length = 20
  BY DEF Length, IrLength
<1>2. Op.call = "dr" => Length = DrLength
  BY DEF Length
<1>3. Length \in Nat /\ step \in 0 .. Length /\ step < Length /\ step' = step + 1
  BY Bitlengths DEF TypeOK, Here, Clock
<1> QED BY <1>1, <1>2, <1>3

LEMMA ResetClock ==
    ASSUME TypeOK, Way, Clock, Op.call = "reset"
    PROVE  ResetWay'
<1>1. step \in 0 .. 6 /\ step' = step + 1 /\ tap \in TapStates
  BY SameCall DEF TypeOK, Clock, Length, ResetLength
<1>2. tap' = IF step < 6 THEN OnOne[tap] ELSE OnZero[tap]
  BY DEF Clock, Pulse, Tms, ResetTms
<1>3. CASE step = 0
  BY <1>1, <1>2, <1>3 DEF TapStates, OnOne, ResetWay
<1>4. CASE step \in 1 .. 5
  BY <1>1, <1>2, <1>4 DEF Way, ResetWay, OnOne
<1>5. CASE step = 6
  BY <1>1, <1>2, <1>5 DEF Way, ResetWay, OnZero
<1> QED BY <1>1, <1>3, <1>4, <1>5

LEMMA IrClock ==
    ASSUME TypeOK, Way, Clock, Op.call = "ir"
    PROVE  /\ IrWay'
           /\ step = 12 => Execute(Op.arg)
           /\ step # 12 => UNCHANGED <<inst, sramVars>>
<1>1. step \in 0 .. 19 /\ step' = step + 1 /\ Op' = Op
  BY SameCall, Steps
<1>2. /\ tap' = IF step \in {0, 1, 11, 12} THEN OnOne[tap] ELSE OnZero[tap]
      /\ Pulse(step \in {0, 1, 11, 12}, Tdi)
  BY DEF Clock, Pulse, Tms, IrTms
<1> USE <1>1, <1>2
<1>3. CASE step \in {0, 1, 2}
  BY <1>3 DEF Way, IrWay, Pulse, OnOne, OnZero
<1>4. CASE step = 3
  BY <1>4 DEF Way, IrWay, Pulse, OnOne, OnZero
<1>5. CASE step \in 4 .. 11
  <2>1. Tdi = Bits(Op.arg, step - 4) /\ ShiftIn(Tdi)
    BY <1>5 DEF Tdi, Way, IrWay, Pulse
  <2>2. sr' = Bits(Op.arg, step - 3)
    BY <1>5, <2>1 DEF ShiftIn, Bits, Way, IrWay
  <2>3. tap = "shiftIr" /\ tap' = IF step = 11 THEN "exit1Ir" ELSE "shiftIr"
    BY <1>5 DEF Way, IrWay, OnOne, OnZero
  <2>4. UNCHANGED <<inst, sramVars>>
    BY <2>3 DEF Pulse
  <2> QED BY <1>5, <2>2, <2>3, <2>4 DEF IrWay
<1>6. CASE step = 12
  <2>1. tap = "exit1Ir" /\ tap' = "updateIr" /\ sr = Bits(Op.arg, 8)
    BY <1>6 DEF Way, IrWay, OnOne
  <2>2. Execute(Op.arg)
    BY <2>1 DEF Pulse, Bits
  <2> QED BY <1>6, <2>1, <2>2 DEF IrWay, Execute
<1>7. CASE step = 13
  BY <1>7 DEF Way, IrWay, Pulse, OnOne, OnZero
<1>8. CASE step \in 14 .. 19
  BY <1>8 DEF Way, IrWay, Pulse, OnOne, OnZero
<1> QED BY <1>3, <1>4, <1>5, <1>6, <1>7, <1>8

LEMMA DrClock ==
    ASSUME TypeOK, Way, Clock, Op.call = "dr"
    PROVE  /\ DrWay' /\ UNCHANGED <<inst, edit, config>>
           /\ IF step \in 3 .. DrBits + 2 THEN TakeBit(Tdi) ELSE UNCHANGED <<taken, astray>>
<1>1. /\ step \in 0 .. DrBits + 4 /\ (~Last => step <= DrBits + 2) /\ step' = step + 1
      /\ DrBits' = DrBits /\ (Last' <=> Last) /\ DrBits \in Nat \ {0}
  <2>1. DrBits \in Nat \ {0}
    BY Bitlengths DEF TypeOK, Here
  <2>2. step \in 0 .. DrLength - 1 /\ step' = step + 1
    BY Steps
  <2>3. step \in 0 .. DrBits + 4 /\ (~Last => step <= DrBits + 2)
    BY <2>1, <2>2 DEF DrLength
  <2> QED BY <2>1, <2>2, <2>3, SameCall
<1>2. /\ tap' = IF DrTms THEN OnOne[tap] ELSE OnZero[tap]
      /\ Pulse(DrTms, Tdi)
  BY DEF Clock, Pulse, Tms
<1> USE <1>1, <1>2
<1>3. CASE step \in {0, 1, 2}
  BY <1>3 DEF Way, DrWay, DrTms, Pulse, OnOne, OnZero, sramVars
<1>4. CASE step \in 3 .. DrBits + 2
  <2>1. tap = "shiftDr" /\ (DrTms <=> Last /\ step = DrBits + 2)
    BY <1>4 DEF Way, DrWay, DrTms
  <2>2. tap' = IF Last /\ step = DrBits + 2 THEN "exit1Dr" ELSE "shiftDr"
    BY <2>1 DEF OnOne, OnZero
  <2> QED BY <1>4, <2>1, <2>2 DEF Pulse, DrWay
<1>5. CASE step = DrBits + 3
  <2>1. Last /\ DrTms /\ tap = "exit1Dr"
    BY <1>5 DEF Way, DrWay, DrTms
  <2> QED BY <1>5, <2>1 DEF DrWay, Pulse, OnOne, sramVars
<1>6. CASE step = DrBits + 4
  <2>1. ~DrTms /\ tap = "updateDr"
    BY <1>6 DEF Way, DrWay, DrTms
  <2> QED BY <1>6, <2>1 DEF DrWay, Pulse, OnZero, sramVars
<1> QED BY <1>3, <1>4, <1>5, <1>6

-----------------------------------------------------------------------------
(* The inductive invariant.                                                *)

\* What the calls before the bitstream's have done by then.
Writing ==
    /\ at = 45 /\ step >= 13 => edit
    /\ at = 46 => edit /\ (step >= 13 => taken = 0 /\ ~astray)
    /\ at = 47 => edit /\ taken = 0 /\ ~astray
    /\ at = 48 => edit /\ inst = "XFER_WRITE" /\ taken = BitsSent /\ ~astray
    /\ at = 55 => inst = "STATUS"

Flash == at = 3 \/ (at = 2 /\ step >= 13) => config = "flash"

IInv ==
    /\ TypeOK /\ Way
    /\ Op.arg # "data" => chunk = 0
    /\ job = "load" => Writing
    /\ job = "reload" => Flash
    /\ job = "idle" => config # "blank" /\ at = 1 /\ step = 0

LEMMA InitOK == Init => IInv
<1> SUFFICES ASSUME Init PROVE IInv
  OBVIOUS
<1>1. job = "idle" /\ at = 1 /\ step = 0 /\ Sequence = GwReload /\ in_shift = FALSE
  BY DEF Init, Sequence
<1>2. Op = Reset /\ at \in 1 .. Len(Sequence)
  BY <1>1, ReloadOps DEF Op
<1>3. Op.call = "reset" /\ Op.arg = "0" /\ Length = 7
  BY <1>2 DEF Reset, Call, Length, ResetLength
<1>4. TypeOK
  <2>1. sr = Bits(sr.of, sr.n) /\ sr.n \in 0 .. 8 /\ taken \in 0 .. Size
    BY SizeIs DEF Init, TapInit, Empty, Bits
  <2>2. step \in 0 .. Length /\ chunk \in 0 .. Chunks - 1 /\ tries \in 1 .. Tries
    BY <1>1, <1>3, LoadAssumption DEF Init
  <2>3. tap \in TapStates /\ edit \in BOOLEAN /\ config \in {"running", "blank", "new", "flash"} /\ astray \in BOOLEAN
    BY DEF Init, TapInit
  <2>4. job \in {"idle", "load", "reload"} /\ in_shift \in BOOLEAN /\ e \in BOOLEAN /\ result \in Results
    BY DEF Init, Results
  <2> QED BY <1>2, <2>1, <2>2, <2>3, <2>4 DEF TypeOK
<1>5. Way
  BY <1>1, <1>3 DEF Way, ResetWay
<1>6. chunk = 0 /\ config # "blank"
  BY DEF Init, TapInit
<1> QED BY <1>1, <1>4, <1>5, <1>6 DEF IInv

-----------------------------------------------------------------------------
(* A clock.                                                                *)

\* What an instruction changes keeps its type.
LEMMA ExecuteType ==
    ASSUME TypeOK, NEW c, Execute(c)
    PROVE  /\ edit' \in BOOLEAN /\ config' \in {"running", "blank", "new", "flash"}
           /\ taken' \in 0 .. Size /\ astray' \in BOOLEAN
<1>1. edit' \in BOOLEAN
  BY DEF TypeOK, Execute
<1>2. config' \in {"running", "blank", "new", "flash"}
  BY DEF TypeOK, Execute
<1>3. (taken' = 0 /\ astray' = FALSE) \/ (taken' = taken /\ astray' = astray)
  BY DEF Execute
<1>4. taken' \in 0 .. Size
  BY <1>3, SizeIs DEF TypeOK
<1>5. astray' \in BOOLEAN
  BY <1>3 DEF TypeOK
<1> QED BY <1>1, <1>2, <1>4, <1>5

LEMMA ShiftInType ==
    ASSUME sr = Bits(sr.of, sr.n), sr.n \in 0 .. 8, NEW bit, ShiftIn(bit), bit = Bits(bit.of, bit.n), bit.n \in 0 .. 7
    PROVE  sr' = Bits(sr'.of, sr'.n) /\ sr'.n \in 0 .. 8
<1>1. CASE bit.n = 0
  BY <1>1 DEF ShiftIn, Bits
<1>2. CASE bit.n # 0 /\ bit = sr
  BY <1>2 DEF ShiftIn, Bits
<1>3. CASE bit.n # 0 /\ bit # sr
  BY <1>3 DEF ShiftIn, Bits, Empty
<1> QED BY <1>1, <1>2, <1>3

LEMMA TdiIs ==
    ASSUME TypeOK, Clock
    PROVE  /\ Tdi = Bits(Tdi.of, Tdi.n)
           /\ Op.arg # "data" => Tdi.n \in 0 .. 7 /\ Tdi.of # "data"
           /\ Op.call = "ir" => Tdi.n \in 0 .. 7
           /\ Op.call = "dr" /\ Op.arg = "data" /\ step \in 3 .. DrBits + 2 => Tdi = Bits("data", Ends[chunk] + step - 3)
           /\ Op.call # "ir" /\ step < 3 => Tdi = NoBit
<1>1. step \in Nat
  BY Steps, Bitlengths DEF TypeOK, Here
<1>2. CASE Op.call = "ir" /\ step \in 4 .. 11
  BY <1>1, <1>2 DEF Tdi, Bits
<1>3. CASE ~(Op.call = "ir" /\ step \in 4 .. 11)
  <2>1. Op.call = "ir" => Op.arg # "data"
    BY OpIs DEF TypeOK, Here
  <2>2. CASE Op.arg = "data" /\ step \in 3 .. DrBits + 2
    BY <1>1, <1>3, <2>1, <2>2 DEF Tdi, Bits
  <2>3. CASE ~(Op.arg = "data" /\ step \in 3 .. DrBits + 2)
    BY <1>1, <1>3, <2>1, <2>3 DEF Tdi, Bits, NoBit
  <2> QED BY <2>2, <2>3
<1> QED BY <1>2, <1>3

LEMMA OpAt ==
    ASSUME Here
    PROVE  /\ job = "load" /\ at = 45 => Op = Ir("CONFIG_ENABLE")
           /\ job = "load" /\ at = 46 => Op = Ir("INIT_ADDR")
           /\ job = "load" /\ at = 47 => Op = Ir("XFER_WRITE")
           /\ job = "load" /\ at = 48 => Op = Dr("data")
           /\ job = "load" /\ at = 49 => Op = Ir("0a")
           /\ job = "load" /\ at = 54 => Op = Ir("STATUS")
           /\ job = "load" /\ at = 55 => Op = Dr("done")
           /\ job # "load" /\ at = 1 => Op = Reset
           /\ job # "load" /\ at = 2 => Op = Ir("RELOAD")
           /\ job # "load" /\ at = 3 => Op = Ir("NOOP")
BY LoadOps, ReloadOps DEF Here, Op, Sequence

\* The pulse keeps the types of the FPGA's state.
LEMMA PulseType ==
    ASSUME TypeOK, Way, Clock
    PROVE  /\ tap' \in TapStates
           /\ sr' = Bits(sr'.of, sr'.n) /\ sr'.n \in 0 .. 8
           /\ edit' \in BOOLEAN /\ config' \in {"running", "blank", "new", "flash"}
           /\ astray' \in BOOLEAN
           /\ Op.arg # "data" => taken' \in 0 .. Size
<1>1. Pulse(Tms, Tdi) /\ tap \in TapStates
  BY DEF Clock, TypeOK
<1>2. tap' \in TapStates
  BY <1>1 DEF Pulse, TapStates, OnOne, OnZero
<1>3. sr' = Bits(sr'.of, sr'.n) /\ sr'.n \in 0 .. 8
  <2>1. CASE tap = "shiftIr"
    <3>1. ShiftIn(Tdi)
      BY <1>1, <2>1 DEF Pulse
    <3>2. Tdi.n \in 0 .. 7 /\ Tdi = Bits(Tdi.of, Tdi.n)
      <4>1. CASE Op.call = "dr" /\ Op.arg = "data"
        <5>1. DrWay /\ DrBits \in Nat \ {0} /\ step \in 0 .. Length - 1 /\ Length = DrLength
          BY <4>1, Steps, Bitlengths DEF Way, TypeOK, Here
        <5>2. step < 3
          BY <2>1, <5>1 DEF DrWay, DrLength
        <5> QED BY <4>1, <5>2, TdiIs DEF NoBit, Bits
      <4>2. CASE ~(Op.call = "dr" /\ Op.arg = "data")
        BY <4>2, TdiIs, OpIs DEF TypeOK, Here
      <4> QED BY <4>1, <4>2
    <3> QED BY <3>1, <3>2, ShiftInType DEF TypeOK
  <2>2. CASE tap # "shiftIr"
    <3>1. sr' = Empty \/ sr' = sr
      BY <1>1, <2>2 DEF Pulse
    <3> QED BY <3>1 DEF TypeOK, Empty, Bits
  <2> QED BY <2>1, <2>2
<1>4. /\ edit' \in BOOLEAN /\ config' \in {"running", "blank", "new", "flash"}
      /\ astray' \in BOOLEAN
      /\ Op.arg # "data" => taken' \in 0 .. Size
  <2>1. ASSUME NEW c, Execute(c) PROVE <1>4
    BY <2>1, ExecuteType
  <2>2. CASE UNCHANGED sramVars
    BY <2>2 DEF TypeOK, sramVars
  <2>3. CASE TakeBit(Tdi) /\ UNCHANGED <<inst, edit, config>>
    <3>1. CASE Op.arg = "data"
      BY <2>3, <3>1 DEF TypeOK, TakeBit
    <3>2. CASE Op.arg # "data"
      <4>1. Tdi # Bits("data", taken)
        BY <3>2, TdiIs DEF Bits
      <4> QED BY <2>3, <3>2, <4>1 DEF TypeOK, TakeBit
    <3> QED BY <3>1, <3>2
  <2> QED BY <1>1, <2>1, <2>2, <2>3 DEF Pulse
<1> QED BY <1>2, <1>3, <1>4

LEMMA ParkedIs ==
    ASSUME TypeOK, Way, Clock
    PROVE  /\ in_shift' <=> (Op.call = "dr" /\ step' \in 3 .. DrBits + 4)
           /\ in_shift' \in BOOLEAN
<1>1. Op.call \in Calls /\ in_shift' = Parked /\ step' = step + 1
  BY OpIs, Steps DEF TypeOK, Here, Clock
<1>2. CASE Op.call = "reset"
  BY <1>1, <1>2 DEF Parked
<1>3. CASE Op.call = "ir"
  BY <1>1, <1>3 DEF Parked, Way, TypeOK
<1>4. CASE Op.call = "dr"
  <2>1. Parked = (step + 1 \in 3 .. DrBits + 4)
    BY <1>4 DEF Parked
  <2>2. (step + 1 \in 3 .. DrBits + 4) \in BOOLEAN
    OBVIOUS
  <2>3. in_shift' = (step + 1 \in 3 .. DrBits + 4)
    BY <1>1, <2>1, Zenon
  <2>4. in_shift' \in BOOLEAN
    BY <2>2, <2>3, Zenon
  <2> QED BY <1>1, <1>4, <2>3, <2>4
<1> QED BY <1>1, <1>2, <1>3, <1>4 DEF Calls

\* A bit of the bitstream goes where the one before it went.
LEMMA DataClock ==
    ASSUME IInv, Clock, job = "load", at = 48
    PROVE  taken' = BitsSent' /\ taken' \in 0 .. Size /\ ~astray' /\ edit' /\ inst' = "XFER_WRITE"
<1>1. Op = Dr("data") /\ Op.call = "dr" /\ Op.arg = "data"
  BY OpAt DEF IInv, TypeOK, Here, Dr, Call
<1>2. /\ UNCHANGED <<inst, edit, config, chunk>>
      /\ IF step \in 3 .. DrBits + 2 THEN TakeBit(Tdi) ELSE UNCHANGED <<taken, astray>>
  BY <1>1, DrClock DEF IInv, Clock
<1>3. edit /\ inst = "XFER_WRITE" /\ taken = BitsSent /\ ~astray
  BY DEF IInv, Writing
<1>4. /\ DrBits = Ends[chunk + 1] - Ends[chunk] /\ DrBits' = DrBits /\ DrBits \in Nat \ {0}
      /\ Ends[chunk] \in Nat /\ Ends[chunk + 1] \in Nat /\ Ends[chunk + 1] <= Size /\ Size \in Nat
      /\ step \in Nat /\ step' = step + 1
  BY <1>1, SameCall, Steps, Bitlengths DEF IInv, TypeOK, Here
<1>5. CASE step \in 3 .. DrBits + 2
  <2>1. Tdi = Bits("data", Ends[chunk] + step - 3) /\ taken = Ends[chunk] + step - 3
    BY <1>1, <1>3, <1>4, <1>5, TdiIs DEF IInv, BitsSent
  <2>2. taken' = taken + 1 /\ astray' = astray
    <3>1. Ends[chunk] + step - 3 = taken /\ Tdi = Bits("data", taken)
      BY <2>1
    <3> QED BY <1>2, <1>3, <1>5, <3>1 DEF TakeBit
  <2>3. BitsSent' = Ends[chunk] + step' - 3
    BY <1>2, <1>4, <1>5 DEF BitsSent
  <2> QED BY <1>2, <1>3, <1>4, <1>5, <2>1, <2>2, <2>3
<1>6. CASE step \notin 3 .. DrBits + 2
  <2>1. BitsSent' = BitsSent
    BY <1>2, <1>4, <1>6 DEF BitsSent
  <2> QED BY <1>2, <1>3, <1>6, <2>1 DEF IInv, TypeOK
<1> QED BY <1>5, <1>6

LEMMA ClockOK ==
    ASSUME IInv, Clock
    PROVE  IInv'
<1>1. /\ Op' = Op /\ Length' = Length /\ DrBits' = DrBits /\ Sequence' = Sequence
      /\ UNCHANGED <<job, at, chunk, tries, e, result>> /\ job # "idle"
      /\ step \in 0 .. Length - 1 /\ step' = step + 1 /\ Length \in Nat
  BY SameCall, Steps, Bitlengths DEF IInv, TypeOK, Here, Clock
<1>2. TypeOK /\ Way /\ Here /\ Op.call \in Calls
  BY OpIs DEF IInv, TypeOK, Here
<1>3. Way'
  <2>1. Op.call = "reset" => ResetWay'
    BY <1>2, ResetClock
  <2>2. Op.call = "ir" => IrWay'
    BY <1>2, IrClock
  <2>3. Op.call = "dr" => DrWay'
    BY <1>2, DrClock
  <2>4. in_shift' <=> (Op.call = "dr" /\ step' \in 3 .. DrBits + 4)
    BY <1>2, ParkedIs
  <2> QED BY <1>1, <2>1, <2>2, <2>3, <2>4 DEF Way
<1>4. TypeOK'
  <2>1. taken' \in 0 .. Size
    <3>1. CASE job = "load" /\ at = 48
      BY <3>1, DataClock
    <3>2. CASE ~(job = "load" /\ at = 48)
      BY <1>2, <3>2, PulseType, OpIs
    <3> QED BY <3>1, <3>2
  <2>2. step' \in 0 .. Length' /\ in_shift' \in BOOLEAN
    BY <1>1, <1>2, ParkedIs
  <2>3. at' \in 1 .. Len(Sequence')
    BY <1>1, <1>2 DEF Here
  <2> QED BY <1>1, <1>2, <2>1, <2>2, <2>3, PulseType DEF TypeOK
<1>5. (job = "load" => Writing)'
  <2> SUFFICES ASSUME job = "load" PROVE Writing'
    BY <1>1
  <2>1. Writing
    BY DEF IInv
  <2>2. CASE at = 45
    <3>1. Op.call = "ir" /\ Op.arg = "CONFIG_ENABLE"
      BY <1>2, <2>2, OpAt DEF Ir, Call
    <3>2. CASE step = 12
      <4>1. Execute("CONFIG_ENABLE")
        BY <1>2, <3>1, <3>2, IrClock
      <4>2. edit' = TRUE
        BY <2>1, <2>2, <4>1 DEF Execute
      <4> QED BY <1>1, <2>1, <2>2, <3>2, <4>2 DEF Writing
    <3>3. CASE step # 12
      <4>1. UNCHANGED <<inst, edit, config, taken, astray>>
        BY <1>2, <3>1, <3>3, IrClock DEF sramVars
      <4> QED BY <1>1, <2>1, <2>2, <3>3, <4>1 DEF Writing
    <3> QED BY <3>2, <3>3
  <2>3. CASE at = 46
    <3>1. Op.call = "ir" /\ Op.arg = "INIT_ADDR"
      BY <1>2, <2>3, OpAt DEF Ir, Call
    <3>2. CASE step = 12
      <4>1. Execute("INIT_ADDR")
        BY <1>2, <3>1, <3>2, IrClock
      <4>2. edit' = TRUE /\ taken' = 0 /\ astray' = FALSE
        BY <2>1, <2>3, <4>1 DEF Execute, Writing, IInv, TypeOK
      <4> QED BY <1>1, <2>1, <2>3, <3>2, <4>2 DEF Writing
    <3>3. CASE step # 12
      <4>1. UNCHANGED <<inst, edit, config, taken, astray>>
        BY <1>2, <3>1, <3>3, IrClock DEF sramVars
      <4> QED BY <1>1, <2>1, <2>3, <3>3, <4>1 DEF Writing
    <3> QED BY <3>2, <3>3
  <2>4. CASE at = 47
    <3>1. Op.call = "ir" /\ Op.arg = "XFER_WRITE"
      BY <1>2, <2>4, OpAt DEF Ir, Call
    <3>2. CASE step = 12
      <4>1. Execute("XFER_WRITE")
        BY <1>2, <3>1, <3>2, IrClock
      <4>2. edit' = TRUE /\ taken' = 0 /\ astray' = astray
        BY <2>1, <2>4, <4>1 DEF Execute, Writing, IInv, TypeOK
      <4> QED BY <1>1, <2>1, <2>4, <3>2, <4>2 DEF Writing
    <3>3. CASE step # 12
      <4>1. UNCHANGED <<inst, edit, config, taken, astray>>
        BY <1>2, <3>1, <3>3, IrClock DEF sramVars
      <4> QED BY <1>1, <2>1, <2>4, <3>3, <4>1 DEF Writing
    <3> QED BY <3>2, <3>3
  <2>5. CASE at = 48
    BY <1>1, <2>5, DataClock DEF Writing
  <2>6. CASE at = 55
    BY <1>1, <1>2, <2>1, <2>6, OpAt, DrClock DEF Writing, Dr, Call
  <2>7. CASE at \notin {45, 46, 47, 48, 55}
    BY <1>1, <2>7 DEF Writing
  <2> QED BY <2>2, <2>3, <2>4, <2>5, <2>6, <2>7
<1>6. (job = "reload" => Flash)'
  <2> SUFFICES ASSUME job = "reload" PROVE Flash'
    BY <1>1
  <2>1. Flash
    BY DEF IInv
  <2>2. CASE at = 2
    <3>1. Op.call = "ir" /\ Op.arg = "RELOAD"
      BY <1>2, <2>2, OpAt DEF Ir, Call
    <3>2. CASE step = 12
      <4>1. Execute("RELOAD")
        BY <1>2, <3>1, <3>2, IrClock
      <4> QED BY <1>1, <2>1, <2>2, <3>2, <4>1 DEF Flash, Execute
    <3>3. CASE step # 12
      <4>1. UNCHANGED <<inst, edit, config, taken, astray>>
        BY <1>2, <3>1, <3>3, IrClock DEF sramVars
      <4> QED BY <1>1, <2>1, <2>2, <3>3, <4>1 DEF Flash
    <3> QED BY <3>2, <3>3
  <2>3. CASE at = 3
    <3>1. Op.call = "ir" /\ Op.arg = "NOOP"
      BY <1>2, <2>3, OpAt DEF Ir, Call
    <3>2. CASE step = 12
      <4>1. Execute("NOOP")
        BY <1>2, <3>1, <3>2, IrClock
      <4> QED BY <1>1, <2>1, <2>3, <3>2, <4>1 DEF Flash, Execute
    <3>3. CASE step # 12
      <4>1. UNCHANGED <<inst, edit, config, taken, astray>>
        BY <1>2, <3>1, <3>3, IrClock DEF sramVars
      <4> QED BY <1>1, <2>1, <2>3, <3>3, <4>1 DEF Flash
    <3> QED BY <3>2, <3>3
  <2>4. CASE at \notin {2, 3}
    BY <1>1, <2>4 DEF Flash
  <2> QED BY <2>2, <2>3, <2>4
<1> QED BY <1>1, <1>3, <1>4, <1>5, <1>6 DEF IInv

-----------------------------------------------------------------------------
(* A call that returns, and the next one.                                  *)

LEMMA ReturnedIs ==
    ASSUME IInv, NEW f, Returned(f)
    PROVE  /\ step = Length /\ Op.call = f /\ job # "idle" /\ Here
           /\ Op.arg # "data" \/ Last => tap = "idle" /\ in_shift = FALSE
           /\ Op.call = "ir" => inst = Op.arg /\ step = 20
           /\ Op.arg # "data" => chunk = 0
           /\ f = "dr" => job = "load" /\ at \notin {1, 45, 46, 47, 49, 54} /\ step = DrLength
<1>1. step = Length /\ Op.call = f /\ job # "idle" /\ Here /\ Op.call \in Calls
  BY OpIs DEF Returned, IInv, TypeOK, Here
<1>2. chunk \in 0 .. Chunks - 1 /\ DrBits \in Nat \ {0} /\ in_shift \in BOOLEAN
  BY <1>1, Bitlengths DEF IInv, TypeOK
<1>3. CASE f = "reset"
  <2>1. step = 7 /\ Op.arg # "data"
    BY <1>1, <1>3, OpIs DEF Length, ResetLength
  <2> QED BY <1>1, <1>2, <1>3, <2>1 DEF IInv, Way, ResetWay
<1>4. CASE f = "ir"
  <2>1. step = 20 /\ Op.arg # "data"
    BY <1>1, <1>4, OpIs DEF Length, IrLength
  <2> QED BY <1>1, <1>2, <1>4, <2>1 DEF IInv, Way, IrWay
<1>5. CASE f = "dr"
  <2>1. step = DrLength
    BY <1>1, <1>5 DEF Length
  <2>2. job = "load" /\ at \notin {1, 45, 46, 47, 49, 54}
    <3>1. job = "load"
      <4>1. SUFFICES ASSUME job # "load" PROVE FALSE
        OBVIOUS
      <4>2. at \in {1, 2, 3}
        BY <1>1, <4>1, OpIs, ReloadOps DEF Here, Sequence
      <4> QED BY <1>1, <1>5, <4>1, <4>2, OpAt DEF Ir, Reset, Call
    <3>2. at \notin {45, 46, 47, 49, 54}
      BY <1>1, <1>5, <3>1, OpAt DEF Ir, Call
    <3>3. at # 1
      BY <1>1, <1>5, <3>1, OpIs
    <3> QED BY <3>1, <3>2, <3>3
  <2>3. Op.arg # "data" => Last
    BY DEF Last
  <2>4. Last => tap = "idle" /\ in_shift = FALSE
    BY <1>1, <1>2, <1>5, <2>1 DEF IInv, Way, DrWay, DrLength
  <2> QED BY <1>1, <1>5, <2>1, <2>2, <2>3, <2>4 DEF IInv
<1> QED BY <1>1, <1>3, <1>4, <1>5 DEF Calls

LEMMA PieceIs ==
    \A c \in 0 .. Chunks - 1 : Ends[c + 1] - Ends[c] \in Nat \ {0}
<1> SUFFICES ASSUME NEW c \in 0 .. Chunks - 1 PROVE Ends[c + 1] - Ends[c] \in Nat \ {0}
  OBVIOUS
<1>1. c \in 0 .. Chunks /\ c + 1 \in 0 .. Chunks /\ c < c + 1
  BY Positive
<1>2. Ends[c] \in Nat /\ Ends[c + 1] \in Nat /\ Ends[c] < Ends[c + 1]
  BY <1>1, LoadAssumption
<1> QED BY <1>2

LEMMA LengthNext ==
    ASSUME chunk' \in 0 .. Chunks - 1
    PROVE  Length' \in Nat /\ DrBits' \in Nat \ {0} /\ (Op'.call = "dr" => Length' >= 3)
<1>1. DrBits' = Ends[chunk' + 1] - Ends[chunk'] \/ DrBits' = RegBits
  BY DEF DrBits
<1>2. DrBits' \in Nat \ {0}
  BY <1>1, PieceIs, Positive
<1> QED BY <1>2 DEF Length, ResetLength, IrLength, DrLength

\* What stays of the FPGA's types when no clock is given.
LEMMA StillTyped ==
    ASSUME IInv, UNCHANGED tapVars
    PROVE  /\ tap' \in TapStates /\ sr' = Bits(sr'.of, sr'.n) /\ sr'.n \in 0 .. 8 /\ edit' \in BOOLEAN
           /\ config' \in {"running", "blank", "new", "flash"}
           /\ taken' \in 0 .. Size /\ astray' \in BOOLEAN
BY DEF IInv, TypeOK, tapVars, sramVars

\* A call that starts from RUN-TEST/IDLE, or is jtag_reset.
LEMMA StartOK ==
    ASSUME IInv, UNCHANGED tapVars, Here', step' = 0, in_shift' = FALSE, chunk' = 0,
           tap = "idle" \/ Op'.call = "reset",
           tries' \in 1 .. Tries, e' \in BOOLEAN, result' \in Results,
           (job = "load" => Writing)', (job = "reload" => Flash)',
           job' = "idle" => config # "blank" /\ at' = 1
    PROVE  IInv'
<1>1. chunk' \in 0 .. Chunks - 1
  BY LoadAssumption
<1>2. step' \in 0 .. Length'
  BY <1>1, LengthNext
<1>3. TypeOK'
  BY <1>1, <1>2, StillTyped DEF TypeOK, Here
<1>4. Way'
  <2>1. tap' = tap
    BY DEF tapVars
  <2>2. Op'.call # "reset" => tap' = "idle"
    BY <2>1
  <2>3. DrBits' \in Nat
    BY <1>1, LengthNext
  <2>4. ResetWay' /\ (Op'.call = "ir" => IrWay')
    BY <2>2 DEF ResetWay, IrWay
  <2>5. Op'.call = "dr" => DrWay'
    <3> DEFINE Start(n, d) == n \notin {1, 2} /\ n \notin 3 .. d + 2 /\ n # d + 3 /\ n # d + 4
    <3>1. \A d \in Nat : Start(0, d)
      OBVIOUS
    <3>2. Start(step', DrBits')
      BY <2>3, <3>1
    <3> QED BY <2>2, <3>2 DEF DrWay
  <2> QED BY <2>4, <2>5 DEF Way
<1>5. job' = "idle" => config' # "blank" /\ at' = 1
  BY DEF tapVars, sramVars
<1> QED BY <1>3, <1>4, <1>5 DEF IInv

LEMMA GotoOK ==
    ASSUME IInv, NEW n \in 1 .. Len(Sequence), Goto(n), job # "idle", UNCHANGED tapVars,
           tap = "idle", in_shift = FALSE, in_shift' = FALSE, chunk' = 0,
           tries' \in 1 .. Tries, e' \in BOOLEAN,
           (job = "load" => Writing)', (job = "reload" => Flash)'
    PROVE  IInv'
<1>1. at' = n /\ step' = 0 /\ job' = job /\ result' = result
  BY DEF Goto
<1>2. Here' /\ result' \in Results
  BY <1>1 DEF Here, IInv, TypeOK, Sequence
<1> QED BY <1>1, <1>2, StartOK

LEMMA FinishOK ==
    ASSUME IInv, NEW r \in Results, Finish(r), UNCHANGED tapVars, UNCHANGED <<e, tries>>, config # "blank",
           tap = "idle", in_shift' = FALSE, chunk' = 0
    PROVE  IInv'
<1>1. at' = 1 /\ step' = 0 /\ job' = "idle" /\ result' = r
  BY DEF Finish
<1>2. tries' \in 1 .. Tries /\ e' \in BOOLEAN
  BY DEF IInv, TypeOK
<1>3. Sequence' = GwReload
  BY <1>1 DEF Sequence
<1>4. Here'
  BY <1>1, <1>3, ReloadOps DEF Here
<1> QED BY <1>1, <1>2, <1>4, StartOK

LEMMA FailOK ==
    ASSUME IInv, NEW r \in Results, Fail(r), UNCHANGED tapVars, UNCHANGED <<e, tries>>,
           tap = "idle", in_shift' = FALSE, chunk' = 0
    PROVE  IInv'
<1>1. at' = 2 /\ step' = 0 /\ job' = "reload" /\ result' = r
  BY DEF Fail
<1>2. tries' \in 1 .. Tries /\ e' \in BOOLEAN
  BY DEF IInv, TypeOK
<1>3. Sequence' = GwReload
  BY <1>1 DEF Sequence
<1>4. Here'
  BY <1>1, <1>3, ReloadOps DEF Here
<1>5. (job = "load" => Writing)' /\ (job = "reload" => Flash)'
  BY <1>1 DEF Flash
<1> QED BY <1>1, <1>2, <1>4, <1>5, StartOK

LEMMA BeginOK ==
    ASSUME IInv, Begin
    PROVE  IInv'
<1>1. /\ at' = 1 /\ step' = 0 /\ job' \in {"load", "reload"} /\ tries' = Tries
      /\ in_shift' = FALSE /\ chunk' = 0 /\ e' = FALSE /\ result' = "none" /\ UNCHANGED tapVars
  BY DEF Begin
<1>2. Here' /\ Op'.call = "reset"
  <2>1. CASE job' = "load"
    <3>1. Sequence' = FpgaLoad
      BY <2>1 DEF Sequence
    <3>2. Op' = FpgaLoad[1]
      BY <1>1, <3>1 DEF Op
    <3> QED BY <1>1, <2>1, <3>1, <3>2, LoadLen, LoadOps DEF Here
  <2>2. CASE job' = "reload"
    <3>1. Sequence' = GwReload
      BY <2>2 DEF Sequence
    <3>2. Op' = GwReload[1]
      BY <1>1, <3>1 DEF Op
    <3> QED BY <1>1, <2>2, <3>1, <3>2, ReloadOps DEF Here, Reset, Call
  <2> QED BY <1>1, <2>1, <2>2
<1>3. (job = "load" => Writing)' /\ (job = "reload" => Flash)'
  BY <1>1 DEF Writing, Flash
<1>4. tries' \in 1 .. Tries /\ e' \in BOOLEAN /\ result' \in Results
  <2>1. Tries \in 1 .. Tries
    BY Positive
  <2> QED BY <1>1, <2>1 DEF Results
<1> QED BY <1>1, <1>2, <1>3, <1>4, StartOK

\* Going on to a call none of whose predecessors matter.
LEMMA JumpOK ==
    ASSUME IInv, NEW f, Returned(f), job = "load", Op.arg # "data", NEW n \in 1 .. 55, n \notin {46, 47, 48, 55},
           Goto(n), UNCHANGED tapVars, UNCHANGED <<chunk, in_shift>>,
           tries' \in 1 .. Tries, e' \in BOOLEAN
    PROVE  IInv'
<1>1. tap = "idle" /\ in_shift = FALSE /\ chunk = 0
  BY ReturnedIs
<1>2. n \in 1 .. Len(Sequence)
  BY LoadLen DEF Sequence
<1>3. at' = n /\ step' = 0 /\ job' = "load"
  BY <1>1 DEF Goto
<1>4. (job = "load" => Writing)' /\ (job = "reload" => Flash)'
  BY <1>3 DEF Writing
<1> QED BY <1>1, <1>2, <1>4, GotoOK

\* Going on from a register.
LEMMA NextOK ==
    ASSUME IInv, Returned("dr"), Op.arg \notin {"data", "done"},
           Goto(at + 1), UNCHANGED tapVars, UNCHANGED <<chunk, in_shift>>,
           tries' \in 1 .. Tries, e' \in BOOLEAN
    PROVE  IInv'
<1>1. job = "load" /\ at \notin {45, 46, 47, 54} /\ Here
  BY ReturnedIs
<1>2. at \in 1 .. 55 /\ at # 55
  BY <1>1, OpIs, LoadLen DEF Here, Sequence
<1>3. at + 1 \in 1 .. 55 /\ at + 1 \notin {46, 47, 48, 55}
  BY <1>1, <1>2
<1> QED BY <1>1, <1>3, JumpOK

LEMMA SentOK ==
    ASSUME IInv, Sent, UNCHANGED tapVars
    PROVE  IInv'
<1>1. PICK f \in Calls : Returned(f) /\ (f = "dr" => Op.arg \in {"read", "sum"})
  BY DEF Sent, Calls
<1>2. Op.arg # "data" /\ Op.arg # "done"
  <2>1. Here /\ Op.call = f
    BY <1>1, ReturnedIs
  <2>2. (Op.arg = "data" \/ Op.arg = "done") => Op.call = "dr"
    BY <2>1, OpIs
  <2> QED BY <1>1, <2>1, <2>2
<1>3. /\ tap = "idle" /\ in_shift = FALSE /\ chunk = 0 /\ Here /\ step = Length /\ Op.call = f /\ job # "idle"
      /\ Op.call = "ir" => inst = Op.arg /\ step = 20
  BY <1>1, <1>2, ReturnedIs
<1>4. UNCHANGED <<chunk, e, tries, in_shift>> /\ tries' \in 1 .. Tries /\ e' \in BOOLEAN
  BY DEF Sent, IInv, TypeOK
<1>5. CASE at < Len(Sequence)
  <2>1. Goto(at + 1) /\ at + 1 \in 1 .. Len(Sequence)
    BY <1>3, <1>5, LoadLen, ReloadOps DEF Sent, Here, Sequence
  <2>2. at' = at + 1 /\ step' = 0 /\ job' = job
    BY <1>3, <2>1 DEF Goto
  <2>3. (job = "load" => Writing)'
    <3> SUFFICES ASSUME job = "load" PROVE Writing'
      BY <2>2
    <3>1. UNCHANGED <<edit, taken, astray, inst>>
      BY DEF tapVars, sramVars
    <3>2. Writing
      BY DEF IInv
    <3>3. CASE at = 45
      <4>1. edit
        BY <1>3, <3>2, <3>3, OpAt DEF Writing, Ir, Call
      <4> QED BY <2>2, <3>1, <3>3, <4>1 DEF Writing
    <3>4. CASE at = 46
      <4>1. edit /\ taken = 0 /\ ~astray
        BY <1>3, <3>2, <3>4, OpAt DEF Writing, Ir, Call
      <4> QED BY <2>2, <3>1, <3>4, <4>1 DEF Writing
    <3>5. CASE at = 47
      <4>1. edit /\ taken = 0 /\ ~astray /\ inst = "XFER_WRITE"
        BY <1>3, <3>2, <3>5, OpAt DEF Writing, Ir, Call
      <4>2. chunk' = 0 /\ Ends[0] = 0
        BY <1>3, <1>4, LoadAssumption
      <4>3. BitsSent' = 0
        BY <2>2, <4>2 DEF BitsSent
      <4> QED BY <2>2, <3>1, <3>5, <4>1, <4>3 DEF Writing
    <3>6. CASE at = 54
      <4>1. inst = "STATUS"
        BY <1>3, <3>6, OpAt DEF Ir, Call
      <4> QED BY <2>2, <3>1, <3>6, <4>1 DEF Writing
    <3>7. CASE at \notin {45, 46, 47, 54}
      <4>1. at' \notin {46, 47, 48, 55} /\ (at' = 45 => step' < 13)
        BY <1>3, <2>2, <3>7, OpIs
      <4> QED BY <2>2, <4>1 DEF Writing
    <3> QED BY <3>3, <3>4, <3>5, <3>6, <3>7
  <2>4. (job = "reload" => Flash)'
    <3> SUFFICES ASSUME job = "reload" PROVE Flash'
      BY <2>2
    <3>1. CASE at = 2
      <4>1. config = "flash"
        BY <1>3, <3>1, OpAt DEF IInv, Flash, Ir, Call
      <4> QED BY <4>1 DEF Flash, tapVars, sramVars
    <3>2. CASE at # 2
      <4>1. at' # 3 /\ (at' = 2 => step' < 13)
        BY <1>3, <2>2, <3>2, OpIs
      <4> QED BY <2>2, <4>1 DEF Flash
    <3> QED BY <3>1, <3>2
  <2> QED BY <1>3, <1>4, <2>1, <2>3, <2>4, GotoOK
<1>6. CASE ~(at < Len(Sequence))
  <2>1. Finish(result) /\ result \in Results
    BY <1>6 DEF Sent, IInv, TypeOK
  <2>2. job = "reload"
    <3>1. SUFFICES ASSUME job = "load" PROVE FALSE
      BY <1>3 DEF Here
    <3>2. at = 55
      <4>1. Len(Sequence) = 55
        BY <3>1, LoadLen DEF Sequence
      <4>2. at \in 1 .. Len(Sequence)
        BY <1>3 DEF Here
      <4> QED BY <1>6, <4>1, <4>2
    <3> QED BY <1>2, <1>3, <3>1, <3>2, OpIs
  <2>3. at = 3
    BY <1>3, <1>6, <2>2, ReloadOps DEF Here, Sequence
  <2>4. config = "flash"
    BY <2>2, <2>3 DEF IInv, Flash
  <2> QED BY <1>3, <1>4, <2>1, <2>4, FinishOK
<1> QED BY <1>5, <1>6

LEMMA PollOK ==
    ASSUME IInv, Poll, UNCHANGED tapVars
    PROVE  IInv'
<1>1. /\ Returned("dr") /\ Op.arg \in {"edit", "noedit", "erased"} /\ UNCHANGED <<chunk, in_shift>>
      /\ tries \in 1 .. Tries /\ e \in BOOLEAN
  BY DEF Poll, IInv, TypeOK
<1>2. job = "load" /\ Here /\ at \notin {1, 45, 46, 47, 49, 54} /\ at # 48 /\ at # 55 /\ Op.arg # "data"
  BY <1>1, ReturnedIs, OpIs
<1>3. at \in 2 .. 54
  BY <1>2, OpIs DEF Here
<1>4. Tries \in 1 .. Tries
  BY Positive
<1>5. CASE Goto(at + 1) /\ tries' = Tries /\ UNCHANGED e
  BY <1>1, <1>4, <1>5, NextOK
<1>6. CASE tries > 1 /\ Goto(at - 1) /\ tries' = tries - 1 /\ UNCHANGED e
  <2>1. tries - 1 \in 1 .. Tries
    BY <1>1, <1>6, Positive
  <2>2. at - 1 \in 1 .. 55 /\ at - 1 \notin {46, 47, 48, 55}
    BY <1>2, <1>3
  <2> QED BY <1>1, <1>2, <1>6, <2>1, <2>2, JumpOK
<1>7. CASE Goto(Status1) /\ tries' = Tries /\ e' = TRUE
  BY <1>1, <1>2, <1>4, <1>7, JumpOK, LoadLen
<1> QED BY <1>5, <1>6, <1>7 DEF Poll

LEMMA ChunkSentOK ==
    ASSUME IInv, ChunkSent, UNCHANGED tapVars
    PROVE  IInv'
<1>1. Returned("dr") /\ Op.arg = "data" /\ UNCHANGED <<e, tries, in_shift>>
  BY DEF ChunkSent
<1>2. job = "load" /\ at = 48 /\ Here /\ step = DrLength
  BY <1>1, ReturnedIs, OpIs
<1>3. tries' \in 1 .. Tries /\ e' \in BOOLEAN /\ chunk \in 0 .. Chunks - 1
  BY <1>1 DEF IInv, TypeOK
<1>4. CASE Last
  <2>1. tap = "idle" /\ in_shift = FALSE /\ chunk' = 0 /\ Goto(49)
    <3>1. tap = "idle" /\ in_shift = FALSE
      BY <1>1, <1>4, ReturnedIs
    <3>2. chunk' = 0 /\ Goto(at + 1) /\ at + 1 = 49
      BY <1>2, <1>4 DEF ChunkSent
    <3> QED BY <1>1, <3>1, <3>2
  <2>2. at' = 49 /\ job' = "load"
    BY <1>2, <2>1 DEF Goto
  <2>3. (job = "load" => Writing)' /\ (job = "reload" => Flash)'
    BY <2>2 DEF Writing
  <2>4. 49 \in 1 .. Len(Sequence)
    BY <1>2, LoadLen DEF Sequence
  <2> QED BY <1>1, <1>2, <1>3, <2>1, <2>3, <2>4, GotoOK
<1>5. CASE ~Last
  <2>1. chunk' = chunk + 1 /\ Goto(48) /\ chunk + 1 # Chunks
    BY <1>1, <1>2, <1>5 DEF ChunkSent, Last
  <2>2. chunk + 1 \in 0 .. Chunks - 1
    BY <1>3, <2>1, Positive
  <2>3. DrBits \in Nat \ {0} /\ Op.call = "dr" /\ DrBits = Ends[chunk + 1] - Ends[chunk] /\ Ends[chunk] \in Nat /\ Ends[chunk + 1] \in Nat
    BY <1>1, <1>2, <1>3, Bitlengths, ReturnedIs
  <2>4. step = DrBits + 3 /\ in_shift /\ tap = "shiftDr"
    BY <1>2, <1>5, <2>3 DEF IInv, Way, DrWay, DrLength
  <2>5. at' = 48 /\ step' = 3 /\ job' = "load" /\ result' = result
    BY <1>2, <2>1, <2>4 DEF Goto
  <2>6. Sequence' = Sequence /\ Op' = Op
    BY <1>2, <2>5 DEF Sequence, Op
  <2>7. Length' \in Nat /\ DrBits' \in Nat \ {0} /\ Length' >= 3 /\ chunk' \in 0 .. Chunks - 1
    BY <2>1, <2>2, <2>3, <2>6, LengthNext
  <2>8. TypeOK'
    <3>1. step' \in 0 .. Length'
      BY <2>5, <2>7
    <3>2. job' \in {"idle", "load", "reload"} /\ at' \in 1 .. Len(Sequence') /\ in_shift' \in BOOLEAN /\ result' \in Results
      BY <1>1, <1>2, <2>5, <2>6 DEF Here, IInv, TypeOK
    <3> QED BY <1>3, <2>7, <3>1, <3>2, StillTyped DEF TypeOK
  <2>9. Way'
    <3>1. tap' = "shiftDr" /\ in_shift' /\ Op'.call = "dr"
      BY <1>1, <2>3, <2>4, <2>6 DEF tapVars
    <3> DEFINE Parks(n, d) == n \notin {0, 1, 2} /\ n \in 3 .. d + 2 /\ n \in 3 .. d + 4 /\ n # d + 3 /\ n # d + 4 /\ n # d + 5
    <3>2. \A d \in Nat \ {0} : Parks(3, d)
      OBVIOUS
    <3>3. Parks(step', DrBits')
      BY <2>5, <2>7, <3>2
    <3> QED BY <3>1, <3>3 DEF Way, DrWay
  <2>10. Writing'
    <3>1. BitsSent = Ends[chunk + 1]
      BY <2>3, <2>4 DEF BitsSent
    <3>2. BitsSent' = Ends[chunk + 1]
      <4>1. BitsSent' = Ends[chunk'] + (IF 3 < 3 THEN 0 ELSE IF 3 - 3 < DrBits' THEN 3 - 3 ELSE DrBits')
        BY <2>5 DEF BitsSent
      <4>2. \A d \in Nat \ {0} : (IF 3 < 3 THEN 0 ELSE IF 3 - 3 < d THEN 3 - 3 ELSE d) = 0
        OBVIOUS
      <4> QED BY <2>1, <2>3, <2>7, <4>1, <4>2
    <3>3. edit /\ inst = "XFER_WRITE" /\ taken = BitsSent /\ ~astray
      BY <1>2 DEF IInv, Writing
    <3> QED BY <2>5, <3>1, <3>2, <3>3 DEF Writing, tapVars, sramVars
  <2> QED BY <1>1, <2>5, <2>6, <2>8, <2>9, <2>10 DEF IInv
<1> QED BY <1>4, <1>5

LEMMA DoneOK ==
    ASSUME IInv, Done, UNCHANGED tapVars
    PROVE  IInv'
<1>1. Returned("dr") /\ Op.arg = "done" /\ UNCHANGED <<chunk, e, tries, in_shift>>
  BY DEF Done
<1>2. job = "load" /\ at = 55 /\ tap = "idle" /\ in_shift' = FALSE /\ chunk' = 0
  BY <1>1, ReturnedIs, OpIs
<1>3. CASE True("done") /\ Finish("OK")
  <2>1. inst = "STATUS"
    BY <1>2 DEF IInv, Writing
  <2>2. config # "blank"
    BY <1>3, <2>1 DEF True
  <2>3. "OK" \in Results
    BY DEF Results
  <2> QED BY <1>1, <1>2, <1>3, <2>2, <2>3, FinishOK
<1>4. CASE Fail("ELOAD")
  <2>1. "ELOAD" \in Results
    BY DEF Results
  <2> QED BY <1>1, <1>2, <1>4, <2>1, FailOK
<1> QED BY <1>3, <1>4 DEF Done

LEMMA ReturnOK ==
    ASSUME IInv, Return
    PROVE  IInv'
<1>1. UNCHANGED tapVars /\ tries \in 1 .. Tries /\ e \in BOOLEAN
  BY DEF Return, IInv, TypeOK
<1>2. CASE Sent
  BY <1>1, <1>2, SentOK
<1>3. CASE Poll
  BY <1>1, <1>3, PollOK
<1>4. CASE ChunkSent
  BY <1>1, <1>4, ChunkSentOK
<1>5. CASE Done
  BY <1>1, <1>5, DoneOK
<1>6. ASSUME Returned("dr"), Op.arg \in {"idcode", "status1"}, Goto(at + 1) \/ Fail("EIDCODE") \/ Fail("EERASE"),
             UNCHANGED <<chunk, e, tries, in_shift>>
      PROVE  IInv'
  <2>1. tap = "idle" /\ in_shift' = FALSE /\ chunk' = 0
    BY <1>6, ReturnedIs
  <2>2. CASE Goto(at + 1)
    BY <1>1, <1>6, <2>2, NextOK
  <2>3. CASE Fail("EIDCODE")
    <3>1. "EIDCODE" \in Results
      BY DEF Results
    <3> QED BY <1>1, <1>6, <2>1, <2>3, <3>1, FailOK
  <2>4. CASE Fail("EERASE")
    <3>1. "EERASE" \in Results
      BY DEF Results
    <3> QED BY <1>1, <1>6, <2>1, <2>4, <3>1, FailOK
  <2> QED BY <1>6, <2>2, <2>3, <2>4
<1>7. CASE IdCode
  BY <1>6, <1>7 DEF IdCode
<1>8. CASE Erased
  BY <1>6, <1>8 DEF Erased
<1>9. CASE CrcError
  <2>1. Returned("dr") /\ Op.arg = "crc" /\ UNCHANGED <<chunk, e, tries, in_shift>>
    BY <1>9 DEF CrcError
  <2>2. job = "load" /\ Op.arg # "data"
    BY <2>1, ReturnedIs
  <2>3. CASE Goto(at + 1)
    BY <1>1, <2>1, <2>3, NextOK
  <2>4. CASE Goto(Forced)
    BY <1>1, <2>1, <2>2, <2>4, JumpOK, LoadLen
  <2> QED BY <1>9, <2>3, <2>4 DEF CrcError
<1> QED BY <1>2, <1>3, <1>4, <1>5, <1>7, <1>8, <1>9 DEF Return

LEMMA StepOK == IInv /\ [Next]_vars => IInv'
<1> SUFFICES ASSUME IInv, [Next]_vars PROVE IInv'
  OBVIOUS
<1>1. CASE Clock
  BY <1>1, ClockOK
<1>2. CASE Return
  BY <1>2, ReturnOK
<1>3. CASE Begin
  BY <1>3, BeginOK
<1>4. CASE UNCHANGED vars
  BY <1>4 DEF vars, tapVars, sramVars, IInv, TypeOK, Way, ResetWay, IrWay, DrWay, Writing, Flash, BitsSent,
              Op, Sequence, Length, ResetLength, IrLength, DrLength, DrBits, Last
<1> QED BY <1>1, <1>2, <1>3, <1>4 DEF Next

LEMMA Inductive == Spec => []IInv
BY InitOK, StepOK, PTL DEF Spec

-----------------------------------------------------------------------------
(* The types of fpga_load, of jtag.c's calls and of the FPGA's pins hold.  *)
THEOREM TypeCorrect == Spec => []TypeOK
<1>1. IInv => TypeOK
  BY DEF IInv
<1> QED BY <1>1, Inductive, PTL

(* When gw_command returns, its instruction is in force and the TAP idle.  *)
THEOREM EveryInstructionHeard == Spec => []InstructionHeard
<1>1. IInv => InstructionHeard
  <2> SUFFICES ASSUME IInv, Returned("ir") PROVE inst = Op.arg /\ tap = "idle"
    BY DEF InstructionHeard
  <2>1. Op.call = "ir" /\ Here
    BY ReturnedIs
  <2>2. Op.arg # "data"
    BY <2>1, OpIs
  <2> QED BY <2>1, <2>2, ReturnedIs
<1> QED BY <1>1, Inductive, PTL

(* The FPGA has taken the bits of the bitstream that were sent, in order   *)
(* and nothing else, at every clock of every chunk.                        *)
THEOREM StreamWhole == Spec => []StreamTaken
<1>1. IInv => StreamTaken
  <2> SUFFICES ASSUME IInv, job = "load", Op.arg = "data"
      PROVE  /\ inst = "XFER_WRITE" /\ taken = BitsSent /\ ~astray
             /\ step = Length => tap = IF Last THEN "idle" ELSE "shiftDr"
    BY DEF StreamTaken
  <2>1. at = 48 /\ Op.call = "dr" /\ Here
    BY OpIs DEF IInv, TypeOK, Here
  <2>2. inst = "XFER_WRITE" /\ taken = BitsSent /\ ~astray
    BY <2>1 DEF IInv, Writing
  <2>3. DrBits \in Nat \ {0} /\ Length = DrLength
    BY <2>1, Bitlengths DEF IInv, TypeOK, Length
  <2> QED BY <2>1, <2>2, <2>3 DEF IInv, Way, DrWay, DrLength
<1> QED BY <1>1, Inductive, PTL

(* No load and no reload leaves the FPGA blank.                            *)
THEOREM NeverLeftBlank == Spec => []NotLeftBlank
<1>1. IInv => NotLeftBlank
  BY DEF IInv, NotLeftBlank
<1> QED BY <1>1, Inductive, PTL

-----------------------------------------------------------------------------
(* What the SRAM holds once the erase was answered.                        *)

LEMMA LateOps ==
    /\ FpgaLoad[35] = Ir("STATUS") /\ FpgaLoad[36] = Dr("erased")
    /\ FpgaLoad[37] = Ir("XFER_DONE") /\ FpgaLoad[44] = Dr("status1")
    /\ \A i \in 37 .. 55 : FpgaLoad[i].call # "reset" /\ FpgaLoad[i].arg # "RELOAD"
<1>1. EraseSram[6] = Ir("STATUS") /\ EraseSram[7] = Dr("erased") /\ EraseSram[8] = Ir("XFER_DONE")
  BY DEF EraseSram
<1>2. \A i \in 8 .. 13 : EraseSram[i].call # "reset" /\ EraseSram[i].arg # "RELOAD"
  BY DEF EraseSram, Ir, Dr, Call
<1>3. Write[2] = Dr("status1")
  BY DEF Write, WriteBegin, WriteEnd
<1>4. \A i \in 1 .. 13 : Write[i].call # "reset" /\ Write[i].arg # "RELOAD"
  BY DEF Write, WriteBegin, WriteEnd, Ir, Dr, Call
<1>5. \A i \in 37 .. 42 : FpgaLoad[i].call # "reset" /\ FpgaLoad[i].arg # "RELOAD"
  BY <1>2, LoadAt
<1>6. \A i \in 43 .. 55 : FpgaLoad[i].call # "reset" /\ FpgaLoad[i].arg # "RELOAD"
  BY <1>4, LoadAt
<1>7. \A i \in 37 .. 55 : i \in 37 .. 42 \/ i \in 43 .. 55
  OBVIOUS
<1> QED BY <1>1, <1>3, <1>5, <1>6, <1>7, LoadAt

\* From the answer to the erase on, the old core is gone unless the erase
\* failed, and then nothing is written; only the last call says "OK".
Fresh ==
    /\ job # "idle" => result # "OK"
    /\ job = "idle" /\ result = "OK" => config = "new"
    /\ job = "load" /\ at = 36 => inst = "STATUS"
    /\ job = "load" /\ at >= 37 => e \/ config \in {"blank", "new"}
    /\ job = "load" /\ at >= 45 => ~e

LEMMA LateAt ==
    ASSUME Here, job = "load"
    PROVE  /\ at \in 1 .. 55
           /\ at = 35 => Op = Ir("STATUS")
           /\ at = 36 => Op = Dr("erased")
           /\ at = 37 => Op = Ir("XFER_DONE")
           /\ at = 44 => Op = Dr("status1")
           /\ at >= 37 => Op.call # "reset" /\ Op.arg # "RELOAD"
<1>1. Op = FpgaLoad[at] /\ at \in 1 .. 55
  BY LoadLen DEF Here, Op, Sequence
<1> QED BY <1>1, LateOps

LEMMA FreshClock ==
    ASSUME IInv, Fresh, Clock
    PROVE  Fresh'
<1>1. /\ TypeOK /\ Way /\ Here /\ Op.call \in Calls /\ job # "idle"
      /\ UNCHANGED <<job, at, e, result>>
  BY OpIs DEF IInv, TypeOK, Here, Clock
<1>2. job = "load" /\ at = 36 => inst' = "STATUS"
  <2> SUFFICES ASSUME job = "load", at = 36 PROVE inst' = "STATUS"
    OBVIOUS
  <2>1. Op.call = "dr"
    BY <1>1, LateAt DEF Dr, Call
  <2>2. inst' = inst
    BY <1>1, <2>1, DrClock
  <2> QED BY <2>2 DEF Fresh
<1>3. job = "load" /\ at >= 37 => e \/ config' \in {"blank", "new"}
  <2> SUFFICES ASSUME job = "load", at >= 37, ~e PROVE config' \in {"blank", "new"}
    OBVIOUS
  <2>1. config \in {"blank", "new"}
    BY DEF Fresh
  <2>2. CASE Op.call = "dr"
    <3>1. config' = config
      BY <1>1, <2>2, DrClock
    <3> QED BY <2>1, <3>1
  <2>3. CASE Op.call = "ir"
    <3>1. Execute(Op.arg) \/ UNCHANGED config
      BY <1>1, <2>3, IrClock DEF sramVars
    <3>2. Op.arg # "RELOAD"
      BY <1>1, LateAt
    <3> QED BY <2>1, <3>1, <3>2 DEF Execute
  <2> QED BY <1>1, <2>2, <2>3, LateAt DEF Calls
<1> QED BY <1>1, <1>2, <1>3 DEF Fresh

\* Every way to another call of the load.
LEMMA FreshGoto ==
    ASSUME IInv, Fresh, UNCHANGED tapVars, job = "load", NEW n \in Nat, Goto(n), Here',
           n <= at + 1,
           n = 36 => inst = "STATUS",
           n >= 37 => at >= 37 \/ config = "blank" \/ e',
           n >= 37 => (e => e'),
           n >= 45 => ~e' /\ at >= 44
    PROVE  Fresh'
<1>1. at' = n /\ job' = "load" /\ result' = result /\ at \in Nat /\ config' = config /\ inst' = inst
  BY OpIs DEF Goto, tapVars, sramVars, IInv, TypeOK, Here
<1> QED BY <1>1 DEF Fresh

LEMMA FreshReturn ==
    ASSUME IInv, Fresh, Return
    PROVE  Fresh'
<1>1. UNCHANGED tapVars /\ config' = config /\ inst' = inst
  BY DEF Return, tapVars, sramVars
<1>2. Here /\ Here' /\ IInv'
  BY ReturnOK DEF IInv, TypeOK, Here
<1>3. ASSUME NEW r, Fail(r), r # "OK" PROVE Fresh'
  BY <1>3 DEF Fail, Fresh
<1>4. CASE Sent
  <2>1. \/ Op.call = "ir" /\ inst = Op.arg
        \/ Op.call = "reset"
        \/ Op.call = "dr" /\ Op.arg \in {"read", "sum"}
    BY <1>4, ReturnedIs DEF Sent, Returned
  <2>2. job # "idle" /\ UNCHANGED e
    BY <1>4 DEF Sent, Returned
  <2>3. CASE Finish(result)
    BY <1>1, <2>2, <2>3 DEF Finish, Fresh
  <2>4. CASE Goto(at + 1) /\ job = "load"
    <3>1. at \in 1 .. 55 /\ at # 36 /\ at # 44 /\ (at = 35 => inst = "STATUS")
      BY <1>2, <2>1, <2>4, LateAt DEF Ir, Dr, Call
    <3>2. at >= 45 => ~e
      BY <2>4 DEF Fresh
    <3> QED BY <1>1, <1>2, <2>2, <2>4, <3>1, <3>2, FreshGoto
  <2>5. CASE Goto(at + 1) /\ job # "load"
    BY <2>2, <2>5 DEF Goto, Fresh
  <2> QED BY <1>4, <2>3, <2>4, <2>5 DEF Sent
<1>5. ASSUME Returned("dr"), Op.arg \notin {"erased", "status1"}, Goto(at + 1), UNCHANGED e
      PROVE  Fresh'
  <2>1. job = "load" /\ at # 54
    BY <1>5, ReturnedIs
  <2>2. at \in 1 .. 55 /\ at # 35 /\ at # 36 /\ at # 44
    BY <1>2, <1>5, <2>1, LateAt DEF Ir, Dr, Call, Returned
  <2>3. at >= 45 => ~e
    BY <2>1 DEF Fresh
  <2> QED BY <1>1, <1>2, <1>5, <2>1, <2>2, <2>3, FreshGoto
<1>6. CASE IdCode
  <2>1. Goto(at + 1) \/ Fail("EIDCODE")
    BY <1>6 DEF IdCode
  <2> QED BY <1>3, <1>5, <1>6, <2>1 DEF IdCode
<1>7. CASE CrcError
  <2>1. job = "load" /\ at \in Nat
    BY <1>2, <1>7, ReturnedIs, OpIs DEF CrcError
  <2>2. CASE Goto(Forced)
    <3>1. at' = 30 /\ job' = "load" /\ result' = result
      BY <2>1, <2>2, LoadLen DEF Goto
    <3> QED BY <2>1, <3>1 DEF Fresh
  <2> QED BY <1>5, <1>7, <2>2 DEF CrcError
<1>8. CASE Poll
  <2>1. job = "load" /\ Op.call = "dr" /\ Op.arg \in {"edit", "noedit", "erased"}
    BY <1>8, ReturnedIs DEF Poll
  <2>2. at \in 1 .. 55 /\ at # 44 /\ at # 35 /\ (at = 36 => Op.arg = "erased")
    BY <1>2, <2>1, LateAt DEF Ir, Dr, Call
  <2>3. at >= 45 => ~e
    BY <2>1 DEF Fresh
  <2>4. CASE True(Op.arg) /\ Goto(at + 1) /\ UNCHANGED e
    <3>1. at = 36 => config = "blank"
      <4> SUFFICES ASSUME at = 36 PROVE config = "blank"
        OBVIOUS
      <4>1. inst = "STATUS" /\ True("erased")
        BY <2>1, <2>2, <2>4 DEF Fresh
      <4> QED BY <4>1 DEF True
    <3> QED BY <1>1, <1>2, <2>1, <2>2, <2>3, <2>4, <3>1, FreshGoto
  <2>5. CASE Goto(at - 1) /\ UNCHANGED e
    <3>1. at' = at - 1 /\ job' = "load" /\ result' = result
      BY <2>1, <2>5 DEF Goto
    <3>2. at # 37
      BY <1>2, <2>1, LateAt DEF Ir, Call
    <3> QED BY <1>1, <2>1, <2>2, <2>5, <3>1, <3>2 DEF Fresh
  <2>6. CASE Goto(Status1) /\ e' = TRUE
    <3>1. at' = 43 /\ job' = "load" /\ result' = result
      BY <2>1, <2>6, LoadLen DEF Goto
    <3> QED BY <2>1, <2>6, <3>1 DEF Fresh
  <2> QED BY <1>8, <2>4, <2>5, <2>6 DEF Poll
<1>9. CASE Erased
  <2>1. job = "load" /\ Op.arg = "status1" /\ Op.call = "dr" /\ UNCHANGED e
    BY <1>9, ReturnedIs DEF Erased
  <2>2. at \in 1 .. 55 /\ at # 35 /\ at # 36
    BY <1>2, <2>1, LateAt DEF Ir, Dr, Call
  <2>3. CASE e
    BY <1>3, <1>9, <2>3 DEF Erased
  <2>4. CASE ~e
    <3>1. Goto(at + 1)
      BY <1>9, <2>4 DEF Erased
    <3> QED BY <1>1, <2>1, <2>2, <2>4, <3>1 DEF Fresh, Goto
  <2> QED BY <2>3, <2>4
<1>10. CASE ChunkSent
  <2>1. job = "load" /\ at = 48 /\ UNCHANGED e
    BY <1>2, <1>10, ReturnedIs, OpIs DEF ChunkSent
  <2>2. at' \in {48, 49} /\ job' = "load" /\ result' = result
    BY <1>10, <2>1 DEF ChunkSent, Goto
  <2> QED BY <1>1, <2>1, <2>2 DEF Fresh
<1>11. CASE Done
  <2>1. job = "load" /\ at = 55
    BY <1>2, <1>11, ReturnedIs, OpIs DEF Done
  <2>2. CASE True("done") /\ Finish("OK")
    <3>1. inst = "STATUS"
      BY <2>1 DEF IInv, Writing
    <3>2. config = "new"
      BY <2>1, <2>2, <3>1 DEF True, Fresh
    <3> QED BY <1>1, <2>2, <3>2 DEF Finish, Fresh
  <2> QED BY <1>3, <1>11, <2>2 DEF Done
<1> QED BY <1>4, <1>6, <1>7, <1>8, <1>9, <1>10, <1>11 DEF Return

LEMMA FreshStep == IInv /\ Fresh /\ [Next]_vars => Fresh'
<1> SUFFICES ASSUME IInv, Fresh, [Next]_vars PROVE Fresh'
  OBVIOUS
<1>1. CASE Begin
  <2>1. job' # "idle" /\ at' = 1 /\ result' = "none"
    BY <1>1 DEF Begin
  <2> QED BY <2>1 DEF Fresh
<1>2. CASE UNCHANGED vars
  BY <1>2 DEF vars, tapVars, sramVars, Fresh
<1> QED BY <1>1, <1>2, FreshClock, FreshReturn DEF Next

(* A load that reports success has put the new core in: whatever the FPGA  *)
(* answered, it was asked after the old core was seen to be erased, and    *)
(* "done" was asked of what was written since.                             *)
THEOREM SuccessIsNew == Spec => []LoadedIsNew
<1>1. Init => Fresh
  BY DEF Init, Fresh
<1>2. Fresh => LoadedIsNew
  BY DEF Fresh, LoadedIsNew
<1> QED BY <1>1, <1>2, FreshStep, Inductive, PTL DEF Spec
=============================================================================
