----------------------------- MODULE GowinLoad -----------------------------
(***************************************************************************)
(* Stage 2 loads the FPGA over its JTAG pins: the bit-banged calls of      *)
(* src/onboard/jtag.c, the command sequences of gowin.c and fpga_load of   *)
(* main.c, clock by clock.  A sequence is a tuple of calls; ramstage_decode*)
(* hands the bitstream over in Chunks pieces, the n-th of which ends at    *)
(* bit Ends[n].  cmd_load has just decoded the same bytes (main.c:160), so  *)
(* the decode does not fail half-way.                                      *)
(***************************************************************************)
EXTENDS JtagTap, Sequences

CONSTANTS
    Chunks, Ends,
    RegBits,     \* bits of a register, 32
    Tries        \* polls before giving up, 1000 and 100000

ASSUME LoadAssumption ==
    /\ Chunks \in Nat \ {0} /\ RegBits \in Nat \ {0} /\ Tries \in Nat \ {0}
    /\ Ends \in [0 .. Chunks -> Nat] /\ Ends[0] = 0 /\ Ends[Chunks] = Size
    /\ \A c, d \in 0 .. Chunks : c < d => Ends[c] < Ends[d]

VARIABLES
    job,         \* "idle", or the sequence being sent
    at,          \* its call
    step,        \* clocks of that call made
    in_shift,    \* parked in SHIFT-DR between calls
    chunk,       \* pieces of the bitstream sent
    tries,       \* polls left
    e,           \* gw_erase_sram failed
    result       \* of the last job

vars == <<tapVars, job, at, step, in_shift, chunk, tries, e, result>>

-----------------------------------------------------------------------------
(* gowin.c: the sequences.                                                 *)

Call(f, arg) == [call |-> f, arg |-> arg]
Ir(c) == Call("ir", c)                      \* gw_command
Dr(what) == Call("dr", what)                \* jtag_shift_dr, and what its bits are for
Reset == Call("reset", "0")                 \* jtag_reset

\* A register is read, gw_read32, by a command and 32 bits.
ForceState ==
    <<Ir("CONFIG_DISABLE"), Ir("0"),
      Ir("READ_IDCODE"), Dr("read"), Ir("STATUS"), Dr("read"), Ir("CONFIG_DISABLE"), Ir("0"),
      Ir("STATUS"), Dr("read"), Ir("READ_IDCODE"), Dr("read"),
      Ir("CONFIG_ENABLE"), Ir("RELOAD"), Ir("NOOP"), Ir("CONFIG_DISABLE"), Ir("NOOP"),
      Ir("READ_IDCODE"), Dr("read"), Ir("NOOP"), Ir("READ_IDCODE"), Dr("read")>>

EraseSram ==
    <<Ir("CONFIG_ENABLE"), Ir("STATUS"), Dr("edit"),
      Ir("ERASE_SRAM"), Ir("NOOP"), Ir("STATUS"), Dr("erased"),
      Ir("XFER_DONE"), Ir("NOOP"), Ir("CONFIG_DISABLE"), Ir("NOOP"), Ir("STATUS"), Dr("noedit")>>

WriteBegin == <<Ir("CONFIG_ENABLE"), Ir("INIT_ADDR"), Ir("XFER_WRITE")>>

WriteEnd ==
    <<Ir("0a"), Dr("sum"), Ir("08"), Ir("CONFIG_DISABLE"), Ir("NOOP"), Ir("STATUS"), Dr("done")>>

\* fpga_load up to gw_erase_sram's look at the CRC error, and after the erase.
Probe ==
    <<Reset, Ir("READ_IDCODE"), Dr("idcode"), Ir("STATUS"), Dr("read"), Ir("STATUS"), Dr("crc")>>
Write == <<Ir("STATUS"), Dr("status1")>> \o WriteBegin \o <<Dr("data")>> \o WriteEnd

FpgaLoad == Probe \o ForceState \o EraseSram \o Write

GwReload == <<Reset, Ir("RELOAD"), Ir("NOOP")>>

Forced == Len(Probe) + Len(ForceState) + 1     \* where force_state returns to
Status1 == Forced + Len(EraseSram)             \* where gw_erase_sram does
DataAt == Status1 + 5                          \* the bitstream's call

Sequence == IF job = "load" THEN FpgaLoad ELSE GwReload
Op == Sequence[at]

-----------------------------------------------------------------------------
(* jtag.c: the levels of TMS and TDI at each clock of a call.              *)

\* jtag_shift_ir, and the idle clocks of gw_command.
IrTms == step \in {0, 1, 11, 12}
IrLength == 20

\* jtag_shift_dr and jtag_shift_dr_msb; a parked call starts with its bits.
DrBits == IF Op.arg = "data" THEN Ends[chunk + 1] - Ends[chunk] ELSE RegBits
Last == Op.arg = "data" => chunk + 1 = Chunks
DrTms == step = 0 \/ (Last /\ step \in {DrBits + 2, DrBits + 3})
DrLength == DrBits + IF Last THEN 5 ELSE 3

\* Mutant: too few ones to reach TEST-LOGIC-RESET from anywhere.
ResetTmsShort == step < 4
ResetTms == step < 6
ResetLength == 7

Tms == CASE Op.call = "reset" -> ResetTms [] Op.call = "ir" -> IrTms [] OTHER -> DrTms
Tdi == IF Op.call = "ir" /\ step \in 4 .. 11 THEN Bits(Op.arg, step - 4)
       ELSE IF Op.arg = "data" /\ step \in 3 .. DrBits + 2 THEN Bits("data", Ends[chunk] + step - 3)
       ELSE NoBit
Length == CASE Op.call = "reset" -> ResetLength [] Op.call = "ir" -> IrLength [] OTHER -> DrLength

\* Mutant: a chunk that is not the last leaves in_shift clear.
ParkedForgotten == FALSE
Parked == CASE Op.call = "reset" -> FALSE
            [] Op.call = "ir" -> in_shift
            [] OTHER -> step + 1 \in 3 .. DrBits + 4

Clock ==
    /\ job # "idle" /\ step < Length
    /\ Pulse(Tms, Tdi)
    /\ step' = step + 1
    /\ in_shift' = Parked
    /\ UNCHANGED <<job, at, chunk, tries, e, result>>

-----------------------------------------------------------------------------
(* gowin.c and main.c: what is done when a call returns.                   *)

\* The next call; a data call of a parked TAP skips the way to SHIFT-DR.
Goto(n) ==
    /\ at' = n /\ step' = IF in_shift THEN 3 ELSE 0
    /\ UNCHANGED <<job, result>>
Finish(r) ==
    /\ job' = "idle" /\ at' = 1 /\ step' = 0 /\ result' = r
Returned(call) == job # "idle" /\ step = Length /\ Op.call = call

\* Mutant: a load that failed is not followed by the reload from flash.
FailQuietly(r) == Finish(r)
\* cmd_load: gw_reload, without another reset.
Fail(r) ==
    /\ job' = "reload" /\ at' = 2 /\ step' = 0 /\ result' = r

\* A command, or a register nobody looks at.
Sent ==
    /\ \/ Returned("reset") \/ Returned("ir")
       \/ Returned("dr") /\ Op.arg \in {"read", "sum"}
    /\ IF at < Len(Sequence) THEN Goto(at + 1) ELSE Finish(result)
    /\ UNCHANGED <<chunk, e, tries, in_shift>>

\* The status the FPGA answers with; anything if it was not asked.
True(flag) ==
    inst = "STATUS" => CASE flag = "edit" -> edit
                         [] flag = "noedit" -> ~edit
                         [] flag = "erased" -> config = "blank"
                         [] flag = "done" -> config # "blank"

IdCode ==
    /\ Returned("dr") /\ Op.arg = "idcode"
    /\ Goto(at + 1) \/ Fail("EIDCODE")
    /\ UNCHANGED <<chunk, e, tries, in_shift>>

\* force_state: the status has the CRC error of a failed boot, or not.
CrcError ==
    /\ Returned("dr") /\ Op.arg = "crc"
    /\ Goto(at + 1) \/ Goto(Forced)
    /\ UNCHANGED <<chunk, e, tries, in_shift>>

\* Mutant: the polls are not counted.
PollForever ==
    /\ Returned("dr") /\ Op.arg \in {"edit", "noedit", "erased"}
    /\ \/ True(Op.arg) /\ Goto(at + 1) /\ tries' = Tries /\ UNCHANGED e
       \/ Goto(at - 1) /\ UNCHANGED <<tries, e>>
    /\ UNCHANGED <<chunk, in_shift>>

\* Mutant: a poll that gave up counts as one that was answered.
PollGivesIn ==
    /\ Returned("dr") /\ Op.arg \in {"edit", "noedit", "erased"}
    /\ \/ tries = 1 /\ Goto(at + 1) /\ tries' = Tries /\ UNCHANGED e
       \/ tries > 1 /\ Goto(at - 1) /\ tries' = tries - 1 /\ UNCHANGED e
    /\ UNCHANGED <<chunk, in_shift>>

Poll ==
    /\ Returned("dr") /\ Op.arg \in {"edit", "noedit", "erased"}
    /\ \/ True(Op.arg) /\ Goto(at + 1) /\ tries' = Tries /\ UNCHANGED e
       \/ tries > 1 /\ Goto(at - 1) /\ tries' = tries - 1 /\ UNCHANGED e
       \/ tries = 1 /\ Goto(Status1) /\ tries' = Tries /\ e' = TRUE
    /\ UNCHANGED <<chunk, in_shift>>

\* The second status is logged before the error is looked at.
Erased ==
    /\ Returned("dr") /\ Op.arg = "status1"
    /\ IF e THEN Fail("EERASE") ELSE Goto(at + 1)
    /\ UNCHANGED <<chunk, e, tries, in_shift>>

\* ramstage_decode comes back with the next piece.
ChunkSent ==
    /\ Returned("dr") /\ Op.arg = "data"
    /\ IF Last THEN chunk' = 0 /\ Goto(at + 1) ELSE chunk' = chunk + 1 /\ Goto(at)
    /\ UNCHANGED <<e, tries, in_shift>>

\* DONE_FINAL decides.
Done ==
    /\ Returned("dr") /\ Op.arg = "done"
    /\ \/ True("done") /\ Finish("OK")
       \/ Fail("ELOAD")
    /\ UNCHANGED <<chunk, e, tries, in_shift>>

\* cmd_load and cmd_reload; jtag_init and the first call, jtag_reset.
Begin ==
    /\ job = "idle"
    /\ job' \in {"load", "reload"} /\ at' = 1 /\ step' = 0
    /\ in_shift' = FALSE /\ chunk' = 0 /\ tries' = Tries /\ e' = FALSE /\ result' = "none"
    /\ UNCHANGED tapVars

Return == (Sent \/ IdCode \/ CrcError \/ Poll \/ Erased \/ ChunkSent \/ Done) /\ UNCHANGED tapVars
Next == Clock \/ Return \/ Begin

Init ==
    /\ TapInit
    /\ job = "idle" /\ at = 1 /\ step = 0 /\ in_shift = FALSE
    /\ chunk = 0 /\ tries = Tries /\ e = FALSE /\ result = "none"

Spec == Init /\ [][Next]_vars
\* The load runs to its end: nothing else runs on stage 2's core.
FairSpec == Spec /\ WF_vars(Clock) /\ WF_vars(Return)

-----------------------------------------------------------------------------
Results == {"none", "OK", "EIDCODE", "EERASE", "ELOAD"}
TypeOK ==
    /\ tap \in TapStates /\ sr = Bits(sr.of, sr.n) /\ sr.n \in 0 .. 8 /\ edit \in BOOLEAN
    /\ config \in {"running", "blank", "new", "flash"}
    /\ taken \in 0 .. Size /\ astray \in BOOLEAN
    /\ job \in {"idle", "load", "reload"} /\ at \in 1 .. Len(Sequence)
    /\ step \in 0 .. Length /\ in_shift \in BOOLEAN
    /\ chunk \in 0 .. Chunks - 1 /\ tries \in 1 .. Tries /\ e \in BOOLEAN /\ result \in Results

(* Every command is the instruction in force when gw_command returns, with *)
(* the TAP in RUN-TEST/IDLE for the next (jtag.c:65-75): wherever the TAP  *)
(* was when the load began, and whatever was shifted since.                *)
InstructionHeard == Returned("ir") => inst = Op.arg /\ tap = "idle"

(* The FPGA takes the bitstream whole and in order across the chunks it is *)
(* handed in (jtag.c:93-105): a chunk that is parked on neither drops nor *)
(* adds a bit, and the last one leaves the TAP idle.                       *)
BitsSent == Ends[chunk] + (IF step < 3 THEN 0 ELSE IF step - 3 < DrBits THEN step - 3 ELSE DrBits)
StreamTaken ==
    (job = "load" /\ Op.arg = "data") =>
        /\ inst = "XFER_WRITE" /\ taken = BitsSent /\ ~astray
        /\ step = Length => tap = IF Last THEN "idle" ELSE "shiftDr"

(* A load or a reload that is over never leaves a blank FPGA, which would  *)
(* be a board with no link at all (main.c:174).                            *)
NotLeftBlank == job = "idle" => config # "blank"

(* A load that reports success has put the new core in, not kept an old    *)
(* one (main.c:111).                                                       *)
LoadedIsNew == (job = "idle" /\ result = "OK") => config = "new"

(* Every load and every reload ends, whatever the FPGA answers.            *)
LoadEnds == job # "idle" ~> job = "idle"
=============================================================================
