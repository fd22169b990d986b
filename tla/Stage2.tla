------------------------------- MODULE Stage2 -------------------------------
(***************************************************************************)
(* Stage 2 (src/onboard/main.c with ramstage.c, link.c and gowin.c): one   *)
(* loop that takes a command byte, and inside C ("BEGIN_RAM") the header,  *)
(* the payload and the crc of a core.  It stages the core in RAM, checks   *)
(* all of it, and on L erases the FPGA and loads it over JTAG.             *)
(***************************************************************************)
EXTENDS CoreLink

VARIABLES
    present,       \* stage 2 runs at all (not behind a PC, installed)
    spc,           \* where its one thread is
    staged_valid,  \* main.c's flag: a checked core is in RAM
    packed,        \* packed_length in pieces; 0 once invalidated
    hdr,           \* the core the header named; NoCore for a garbled one
    got,           \* pieces of the payload taken so far
    intact         \* what was taken is exactly what the header announced

s2Vars == <<present, spc, staged_valid, packed, hdr, got, intact>>

Receiving == {"hdr", "data", "tail"}
Loading == {"loadDelay", "erase", "write"}
S2Waiting == {"main"} \cup Receiving

\* Sizes ramstage_begin accepts, in pieces (RAMSTAGE_CAPACITY is the card's
\* largest payload here).
Accepted == {Pieces[c] : c \in Cores}

Reply(r) == down' = Append(down, r)

\* ramstage_invalidate
Invalidate == packed' = 0

\* Taking one token from the ring, in state s of the thread.
Take(s) ==
    /\ present /\ spc = s /\ ring # <<>>
    /\ ring' = Tail(ring)
    /\ UNCHANGED <<claimed, fifo, fresh, last, fpgaVars, left, present>>

-----------------------------------------------------------------------------
(* The main loop and the commands that only answer.                        *)

Hear(m) == Take("main") /\ m \in Heard(Head(ring))

Ping ==
    /\ Hear("P") /\ Reply("OK")
    /\ UNCHANGED <<spc, staged_valid, packed, hdr, got, intact>>

Caps ==
    /\ Hear("V") /\ Reply("VERSION51")
    /\ UNCHANGED <<spc, staged_valid, packed, hdr, got, intact>>

BeginLegacy ==
    /\ Hear("B") /\ Reply("EVERSION")
    /\ UNCHANGED <<spc, staged_valid, packed, hdr, got, intact>>

CmdStatus ==
    /\ Hear("S") /\ Reply(IF staged_valid THEN "OK" ELSE "ENOSTAGE")
    /\ UNCHANGED <<spc, staged_valid, packed, hdr, got, intact>>

NotOurs ==
    /\ Hear("other")
    /\ UNCHANGED <<down, spc, staged_valid, packed, hdr, got, intact>>

-----------------------------------------------------------------------------
(* cmd_begin: header, payload, crc.  A token that is not the one the       *)
(* transfer is waiting for is taken as data all the same: it may fill what *)
(* was being waited for, or leave it short, and nothing after it is where  *)
(* it should be.                                                           *)

\* Mutant: the old core stays valid while the new one comes in over it.
CmdBeginKeepsOld ==
    /\ Hear("C")
    /\ Invalidate
    /\ spc' = "hdr" /\ hdr' = NoCore /\ got' = 0 /\ intact' = TRUE
    /\ UNCHANGED <<down, staged_valid>>

CmdBegin ==
    /\ Hear("C")
    /\ staged_valid' = FALSE /\ Invalidate
    /\ spc' = "hdr" /\ hdr' = NoCore /\ got' = 0 /\ intact' = TRUE
    /\ UNCHANGED down

\* The header is complete: ramstage_begin accepts or refuses its sizes.
Header ==
    /\ Take("hdr")
    /\ UNCHANGED <<staged_valid, got>>
    /\ LET tok == Head(ring)
           exact == intact /\ tok.kind = "hdr"
       IN  \/ /\ exact
              /\ hdr' = tok.core /\ packed' = Pieces[tok.core]
              /\ spc' = "data" /\ Reply("OK") /\ UNCHANGED intact
           \/ /\ ~exact
              /\ intact' = FALSE
              /\ UNCHANGED hdr
              /\ \/ UNCHANGED <<spc, packed, down>>
                 \/ spc' = "main" /\ Invalidate /\ Reply("ELENGTH")
                 \/ \E n \in Accepted : packed' = n /\ spc' = "data" /\ Reply("OK")

\* Mutant: the last, partial chunk is not acknowledged.
PayloadFullChunksOnly ==
    /\ Take("data")
    /\ UNCHANGED <<staged_valid, packed, hdr>>
    /\ intact' = (intact /\ Head(ring) = Data(hdr, got + 1))
    /\ got' \in IF intact' THEN {got + 1} ELSE {got, got + 1}
    /\ IF got' # got /\ got' % Chunk = 0 THEN Reply("OK") ELSE UNCHANGED down
    /\ spc' = IF got' = packed THEN "tail" ELSE "data"

\* A piece of payload; every CL_CHUNK of it, and the last of it, is
\* acknowledged.
Payload ==
    /\ Take("data")
    /\ UNCHANGED <<staged_valid, packed, hdr>>
    /\ intact' = (intact /\ Head(ring) = Data(hdr, got + 1))
    /\ got' \in IF intact' THEN {got + 1} ELSE {got, got + 1}
    /\ IF got' # got /\ (got' % Chunk = 0 \/ got' = packed) THEN Reply("OK")
                                                            ELSE UNCHANGED down
    /\ spc' = IF got' = packed THEN "tail" ELSE "data"

\* Mutant: the crc is trusted and nothing is decoded.
CheckStagedCrcOnly ==
    /\ Take("tail")
    /\ UNCHANGED <<hdr, got>>
    /\ LET good == intact /\ Head(ring) = Crc(hdr)
       IN  \/ /\ ~good
              /\ intact' = FALSE
              /\ UNCHANGED <<spc, staged_valid, packed, down>>
           \/ /\ spc' = "main"
              /\ staged_valid' = good
              /\ IF good THEN UNCHANGED packed ELSE Invalidate
              /\ Reply(IF good THEN "OK" ELSE "ECRC")
              /\ UNCHANGED intact

\* The crc is complete: the packed bytes must match it, and must decode to
\* the bitstream the header described.
CheckStaged ==
    /\ Take("tail")
    /\ UNCHANGED <<hdr, got>>
    /\ LET exact == intact /\ Head(ring) = Crc(hdr)
           good == exact /\ Sidecar[hdr] = "good"
       IN  \/ /\ ~exact
              /\ intact' = FALSE
              /\ UNCHANGED <<spc, staged_valid, packed, down>>
           \/ /\ spc' = "main"
              /\ staged_valid' = good
              /\ IF good THEN UNCHANGED packed ELSE Invalidate
              /\ Reply(IF good THEN "OK" ELSE "ECRC")
              /\ UNCHANGED intact

\* BYTE_TIMEOUT_MS of silence ends the transfer.  (Whether the dock can be
\* silent that long is CoreSwitch's business.)
ByteTimeout ==
    /\ present /\ spc \in Receiving /\ ring = <<>>
    /\ spc' = "main" /\ Invalidate /\ Reply("EABORT")
    /\ UNCHANGED <<claimed, fifo, fresh, last, ring, fpgaVars,
                   present, staged_valid, hdr, got, intact>>

-----------------------------------------------------------------------------
(* cmd_load and cmd_reload: the answer first, 100 ms for it to be read,    *)
(* then the FPGA.                                                          *)

CmdLoad ==
    /\ Hear("L")
    /\ IF staged_valid
          THEN Reply("OK") /\ spc' = "loadDelay"
          ELSE Reply("ENOSTAGE") /\ UNCHANGED spc
    /\ UNCHANGED <<staged_valid, packed, hdr, got, intact>>

CmdReload ==
    /\ Hear("R") /\ Reply("OK") /\ spc' = "reloadDelay"
    /\ UNCHANGED <<staged_valid, packed, hdr, got, intact>>

\* The 100 ms are over (CoreSwitch: the dock has read the answer by then).
DelayOver ==
    /\ spc \in {"loadDelay", "reloadDelay"} /\ down = <<>>
    /\ spc' = IF spc = "loadDelay" THEN "erase" ELSE "reload"
    /\ UNCHANGED <<linkVars, fpgaVars, left,
                   present, staged_valid, packed, hdr, got, intact>>

\* fpga_load, up to gw_erase_sram.
EraseSram ==
    /\ spc = "erase"
    /\ GoBlank /\ booting' = FALSE
    /\ \/ spc' = "write" /\ UNCHANGED left
       \/ spc' = "reload" /\ Spend("jtag")          \* CL_EERASE
    /\ UNCHANGED <<ring, down, present, staged_valid, packed, hdr, got, intact>>

\* fpga_load finds no GW2AR-18: nothing has been erased.
WrongIdcode ==
    /\ spc = "erase" /\ Spend("jtag")
    /\ spc' = "reload"
    /\ UNCHANGED <<linkVars, fpgaVars, present, staged_valid, packed, hdr, got, intact>>

\* Mutant: a load that failed is not followed by the reload from flash.
WriteSramNoReload ==
    /\ spc = "write"
    /\ \/ ComeUp(hdr) /\ spc' = "main" /\ UNCHANGED left
       \/ spc' = "main" /\ Spend("jtag")
          /\ UNCHANGED <<fpga, cold, claimed, fifo, fresh, last>>
    /\ UNCHANGED <<booting, ring, down, present, staged_valid, packed, hdr, got, intact>>

\* fpga_load, the decode into the FPGA and the DONE check.
WriteSram ==
    /\ spc = "write"
    /\ \/ ComeUp(hdr) /\ spc' = "main" /\ UNCHANGED left
       \/ spc' = "reload" /\ Spend("jtag")          \* CL_ELOAD
          /\ UNCHANGED <<fpga, cold, claimed, fifo, fresh, last>>
    /\ UNCHANGED <<booting, ring, down, present, staged_valid, packed, hdr, got, intact>>

\* gw_reload: the FPGA drops what it has and boots from its flash.
Reload ==
    /\ spc = "reload"
    /\ GoBlank /\ booting' = TRUE
    /\ spc' = "main"
    /\ UNCHANGED <<ring, down, left, present, staged_valid, packed, hdr, got, intact>>

-----------------------------------------------------------------------------
S2Init ==
    /\ present \in BOOLEAN
    /\ spc = "main" /\ staged_valid = FALSE /\ packed = 0
    /\ hdr = NoCore /\ got = 0 /\ intact = FALSE

S2TypeOK ==
    /\ present \in BOOLEAN
    /\ spc \in S2Waiting \cup Loading \cup {"reloadDelay", "reload"}
    /\ staged_valid \in BOOLEAN /\ packed \in Nat
    /\ hdr \in Cores \cup {NoCore} /\ got \in Nat /\ intact \in BOOLEAN
=============================================================================
