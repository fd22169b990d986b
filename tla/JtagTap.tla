------------------------------ MODULE JtagTap ------------------------------
(***************************************************************************)
(* The FPGA's end of the four JTAG pins, as src/onboard uses it: the       *)
(* sixteen states of an IEEE 1149.1 TAP with an instruction register of    *)
(* eight bits, and the GW2AR-18's configuration commands (gowin.h).  All   *)
(* of it is external.                                                      *)
(***************************************************************************)
EXTENDS Naturals

CONSTANT Size    \* bits of the bitstream

VARIABLES
    tap,         \* state of the TAP
    sr,          \* bits of one instruction in its shift register
    inst,        \* instruction in force
    edit,        \* SYSTEM_EDIT_MODE
    config,      \* what the SRAM holds
    taken,       \* bits of the bitstream taken in order
    astray       \* a bit that is none of them was taken

sramVars == <<edit, config, taken, astray>>
tapVars == <<tap, sr, inst, sramVars>>

OnZero == [reset |-> "idle", idle |-> "idle",
    selectDr |-> "captureDr", captureDr |-> "shiftDr", shiftDr |-> "shiftDr", exit1Dr |-> "pauseDr",
    pauseDr |-> "pauseDr", exit2Dr |-> "shiftDr", updateDr |-> "idle",
    selectIr |-> "captureIr", captureIr |-> "shiftIr", shiftIr |-> "shiftIr", exit1Ir |-> "pauseIr",
    pauseIr |-> "pauseIr", exit2Ir |-> "shiftIr", updateIr |-> "idle"]
OnOne == [reset |-> "reset", idle |-> "selectDr",
    selectDr |-> "selectIr", captureDr |-> "exit1Dr", shiftDr |-> "exit1Dr", exit1Dr |-> "updateDr",
    pauseDr |-> "exit2Dr", exit2Dr |-> "updateDr", updateDr |-> "selectDr",
    selectIr |-> "reset", captureIr |-> "exit1Ir", shiftIr |-> "exit1Ir", exit1Ir |-> "updateIr",
    pauseIr |-> "exit2Ir", exit2Ir |-> "updateIr", updateIr |-> "selectDr"]
TapStates == {"reset", "idle", "selectDr", "captureDr", "shiftDr", "exit1Dr", "pauseDr", "exit2Dr",
    "updateDr", "selectIr", "captureIr", "shiftIr", "exit1Ir", "pauseIr", "exit2Ir", "updateIr"}

\* The first n bits of an instruction; a bit is named by those before it.
Bits(c, n) == [of |-> c, n |-> n]
Empty == Bits("junk", 0)
NoBit == Bits("level", 1)    \* TDI as it happens to stand

ShiftIn(bit) ==
    sr' = IF bit.n = 0 THEN Bits(bit.of, 1)
          ELSE IF bit = sr THEN Bits(sr.of, sr.n + 1) ELSE Empty

\* The blank SRAM has taken the bitstream, to the bit.
Whole == edit /\ config = "blank" /\ taken = Size /\ ~astray

\* The FPGA carries an instruction out; the erase may fail, and so may the
\* check of what was written.
Execute(c) ==
    /\ inst' = c
    /\ edit' = (c = "CONFIG_ENABLE" \/ (edit /\ c \notin {"CONFIG_DISABLE", "RELOAD"}))
    /\ config' \in IF c = "RELOAD" THEN {"flash"}
                   ELSE IF c = "ERASE_SRAM" /\ edit THEN {"blank", config}
                   ELSE IF c = "CONFIG_DISABLE" /\ Whole THEN {"new", "blank"}
                   ELSE {config}
    /\ IF c \in {"INIT_ADDR", "ERASE_SRAM"} /\ edit
       THEN taken' = 0 /\ astray' = FALSE
       ELSE UNCHANGED <<taken, astray>>

TakeBit(bit) ==
    IF inst = "XFER_WRITE" /\ edit
    THEN IF bit = Bits("data", taken)
         THEN taken' = taken + 1 /\ UNCHANGED astray
         ELSE astray' = TRUE /\ UNCHANGED taken
    ELSE UNCHANGED <<taken, astray>>

\* One pulse of TCK.
Pulse(tms, bit) ==
    /\ tap' = IF tms THEN OnOne[tap] ELSE OnZero[tap]
    /\ IF tap = "shiftIr" THEN ShiftIn(bit)
       ELSE IF tap = "captureIr" THEN sr' = Empty ELSE UNCHANGED sr
    /\ IF tap' = "updateIr" THEN Execute(IF sr.n = 8 THEN sr.of ELSE "junk")
       ELSE IF tap' = "reset" THEN inst' = "READ_IDCODE" /\ UNCHANGED sramVars
       ELSE IF tap = "shiftDr" THEN TakeBit(bit) /\ UNCHANGED <<inst, edit, config>>
       ELSE UNCHANGED <<inst, sramVars>>

\* The pins may have been left anywhere; a core is running.
TapInit ==
    /\ tap \in TapStates
    /\ sr = Empty /\ inst = "junk"
    /\ edit = FALSE /\ config = "running" /\ taken = 0 /\ astray = FALSE
=============================================================================
