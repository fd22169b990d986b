-------------------------------- MODULE Dock --------------------------------
(***************************************************************************)
(* The dock's side of a core switch: ultima_switch (src/mnano/ultima.c)    *)
(* with the conversation of coreload.c it runs, the interrupt task of      *)
(* spi.c with sysctrl.c's cold-boot event, and main.c's start-up.  The OSD *)
(* task runs the switch to its end; the interrupt task and the watchdog    *)
(* may step between any two of its steps.                                  *)
(***************************************************************************)
EXTENDS CoreLink

VARIABLES
    dpc,      \* where the OSD task is
    phase,    \* which answer of the conversation it is after
    target,   \* the core being switched to
    out,      \* what cl_push has still to write
    sent,     \* pieces acknowledged
    hold,     \* sys_irq_hold
    wdg,      \* sys_reset_mcu has started the watchdog
    core,     \* core_id: the machine the dock believes in
    res,      \* what the last ultima_switch returned
    mounted   \* images are open: the machine's sector requests are served

dockVars == <<dpc, phase, target, out, sent, hold, wdg, core, res, mounted>>

Phases == {"none", "ping", "caps", "begin", "chunk", "crc", "load"}
Results == {"none", "LINK", "VERSION", "CMD11", "RAMFILE", "NOTBIT", "READ", "TIMEOUT", "REFUSED"}

\* Mutant: the answers of before are not flushed.
SayNoFlush(p, toks) ==
    /\ phase' = p /\ out' = toks /\ dpc' = "push"
    /\ UNCHANGED fresh

\* cl_flush, then cl_push of toks from the next step on.
Say(p, toks) ==
    /\ phase' = p /\ out' = toks /\ dpc' = "push"
    /\ fresh' = FALSE

\* Mutant: the error is returned with the claim still on.
AbandonNoRelease(r) ==
    /\ dpc' = "idle" /\ res' = r /\ phase' = "none" /\ out' = <<>>
    /\ UNCHANGED <<claimed, fresh>>

\* ultima_switch gives up: cl_release and the error.
Abandon(r) ==
    /\ dpc' = "idle" /\ res' = r /\ phase' = "none" /\ out' = <<>>
    /\ claimed' = FALSE
    /\ UNCHANGED fresh

\* What a step of the OSD task leaves alone.
OsdUnchanged == UNCHANGED <<fifo, last, ring, down, fpgaVars, wdg, core>>

-----------------------------------------------------------------------------
(* ultima_switch and cl_ping, up to the ping's push.                       *)

\* Mutant: the images stay open.
SwitchImagesOpen(c) ==
    /\ dpc = "idle" /\ c # core
    /\ target' = c /\ res' = "none" /\ sent' = 0
    /\ claimed' = Running
    /\ Say("ping", <<Cmd("P")>>)
    /\ UNCHANGED <<hold, mounted, left>> /\ OsdUnchanged

Switch(c) ==
    /\ dpc = "idle" /\ c # core
    /\ mounted' = FALSE
    /\ target' = c /\ res' = "none" /\ sent' = 0
    /\ claimed' = Running
    /\ Say("ping", <<Cmd("P")>>)
    /\ UNCHANGED <<hold, left>> /\ OsdUnchanged

\* cl_push: one write into a FIFO that has room; into a blank FPGA, whose
\* status byte may read as anything, the write goes nowhere.
Push ==
    /\ dpc = "push" /\ out # <<>>
    /\ IF Running THEN HasRoom /\ fifo' = Append(fifo, Head(out)) ELSE UNCHANGED fifo
    /\ out' = Tail(out)
    /\ dpc' = IF Len(out) = 1 THEN "wait" ELSE "push"
    /\ UNCHANGED <<claimed, fresh, last, ring, down, fpgaVars, left,
                   phase, target, sent, hold, wdg, core, res, mounted>>

\* Mutant: the MCU is not reset after a load.
SpinNoReset ==
    /\ dpc' = "spin" /\ out' = <<>>
    /\ UNCHANGED <<fresh, claimed, phase, res, hold, wdg>>

\* The MCU is about to be reset; ultima_switch does not return.
Spin ==
    /\ dpc' = "spin" /\ wdg' = TRUE /\ out' = <<>>
    /\ UNCHANGED <<fresh, claimed, phase, res, hold>>

\* No room in 2000 polls.  After the load command that is no refusal, and
\* the switch goes on as if it had been said.
NeverRoom ==
    /\ dpc = "push" /\ ~Running
    /\ IF phase = "load" THEN Spin ELSE Abandon("CMD11") /\ UNCHANGED <<hold, wdg>>
    /\ UNCHANGED <<fifo, last, ring, down, fpgaVars, left, target, sent, core, mounted>>

-----------------------------------------------------------------------------
(* cl_reply: a byte has come, or seems to have from a blank FPGA.          *)

Answer(p, r) ==
    /\ dpc = "wait" /\ phase = p
    /\ Running => fresh /\ r = last
    /\ UNCHANGED left

OnPing(r) ==
    /\ Answer("ping", r)
    /\ IF r = "OK" THEN Say("caps", <<Cmd("V")>>) /\ UNCHANGED <<claimed, res>> ELSE Abandon("LINK")
    /\ UNCHANGED <<target, sent, hold, mounted>> /\ OsdUnchanged

OnCaps(r) ==
    /\ Answer("caps", r)
    /\ IF r = "VERSION51" THEN dpc' = "open" /\ UNCHANGED <<claimed, fresh, res, phase, out>>
                          ELSE Abandon("VERSION")
    /\ UNCHANGED <<target, sent, hold, mounted>> /\ OsdUnchanged

OnBegin(r) ==
    /\ Answer("begin", r)
    /\ IF r = "OK" THEN dpc' = "read" /\ UNCHANGED <<claimed, fresh, res, phase, out>>
                   ELSE Abandon("REFUSED")
    /\ UNCHANGED <<target, sent, hold, mounted>> /\ OsdUnchanged

\* Pieces of the next chunk.
Want == IF Pieces[target] - sent < Chunk THEN Pieces[target] - sent ELSE Chunk

\* Mutant: stage 2's code is returned in place of CL_ERR_REFUSED.
OnChunkRawCode(r) ==
    /\ Answer("chunk", r)
    /\ IF r = "OK"
          THEN /\ sent' = sent + Want
               /\ UNCHANGED <<claimed, res>>
               /\ IF sent' < Pieces[target] THEN dpc' = "read" /\ UNCHANGED <<fresh, phase, out>>
                                            ELSE Say("crc", <<Crc(target)>>)
          ELSE Abandon(r) /\ UNCHANGED sent
    /\ UNCHANGED <<target, hold, mounted>> /\ OsdUnchanged

OnChunk(r) ==
    /\ Answer("chunk", r)
    /\ IF r = "OK"
          THEN /\ sent' = sent + Want
               /\ UNCHANGED <<claimed, res>>
               /\ IF sent' < Pieces[target] THEN dpc' = "read" /\ UNCHANGED <<fresh, phase, out>>
                                            ELSE Say("crc", <<Crc(target)>>)
          ELSE Abandon("REFUSED") /\ UNCHANGED sent
    /\ UNCHANGED <<target, hold, mounted>> /\ OsdUnchanged

\* Mutant: the interrupt task is not held.
OnCrcNoHold(r) ==
    /\ Answer("crc", r)
    /\ IF r = "OK" THEN Say("load", <<Cmd("L")>>) /\ UNCHANGED <<claimed, res>>
                   ELSE Abandon("REFUSED")
    /\ UNCHANGED <<target, sent, hold, mounted>> /\ OsdUnchanged

\* The core is staged: the interrupt task is held, then L is said.
OnCrc(r) ==
    /\ Answer("crc", r)
    /\ IF r = "OK" THEN hold' = TRUE /\ Say("load", <<Cmd("L")>>) /\ UNCHANGED <<claimed, res>>
                   ELSE Abandon("REFUSED") /\ UNCHANGED hold
    /\ UNCHANGED <<target, sent, mounted>> /\ OsdUnchanged

\* Mutant: a refused load leaves the hold on.
OnLoadHoldStays(r) ==
    /\ Answer("load", r)
    /\ IF r = "OK" THEN Spin
                   ELSE Abandon("REFUSED") /\ UNCHANGED <<hold, wdg>>
    /\ UNCHANGED <<fifo, last, ring, down, fpgaVars, target, sent, core, mounted>>

OnLoad(r) ==
    /\ Answer("load", r)
    /\ IF r = "OK" THEN Spin
                   ELSE Abandon("REFUSED") /\ hold' = FALSE /\ UNCHANGED wdg
    /\ UNCHANGED <<fifo, last, ring, down, fpgaVars, target, sent, core, mounted>>

\* cl_reply's time is up (CoreSwitch says when it can be).
ReplyTimeout ==
    /\ dpc = "wait" /\ ~fresh
    /\ IF phase = "load"
          THEN Spin
          ELSE /\ Abandon(CASE phase = "ping" -> "LINK" [] phase = "caps" -> "VERSION"
                            [] OTHER -> "TIMEOUT")
               /\ UNCHANGED <<hold, wdg>>
    /\ UNCHANGED <<fifo, last, ring, down, fpgaVars, left, target, sent, core, mounted>>

-----------------------------------------------------------------------------
(* cl_send's card side.  The card hangs on the FPGA.                       *)

OpenSidecar ==
    /\ dpc = "open" /\ Running
    /\ CASE Sidecar[target] = "missing" -> Abandon("RAMFILE")
         [] Sidecar[target] = "badContainer" -> Abandon("NOTBIT")
         [] OTHER -> Say("begin", <<Cmd("C"), Hdr(target)>>) /\ UNCHANGED <<claimed, res>>
    /\ UNCHANGED <<target, sent, hold, mounted, left>> /\ OsdUnchanged

ReadChunk ==
    /\ dpc = "read" /\ Running /\ sent < Pieces[target]
    /\ Say("chunk", [i \in 1..Want |-> Data(target, sent + i)])
    /\ UNCHANGED <<claimed, res, target, sent, hold, mounted, left>> /\ OsdUnchanged

CardFails ==
    /\ dpc \in {"open", "read"}
    /\ IF Running THEN Spend("card") ELSE UNCHANGED left
    /\ Abandon("READ")
    /\ UNCHANGED <<target, sent, hold, mounted>> /\ OsdUnchanged

\* The user, or the menu, opens an image again.
Remount ==
    /\ dpc = "idle" /\ Running /\ ~mounted
    /\ mounted' = TRUE
    /\ UNCHANGED <<linkVars, fpgaVars, left, dpc, phase, target, out, sent, hold, wdg, core, res>>

-----------------------------------------------------------------------------
(* The interrupt task, the watchdog and start-up.                          *)

\* The FPGA says it came up: unless a switch expects that, the MCU restarts.
ColdIrq ==
    /\ Running /\ cold /\ ~hold /\ dpc # "boot"
    /\ cold' = FALSE /\ wdg' = TRUE
    /\ UNCHANGED <<linkVars, fpga, booting, left,
                   dpc, phase, target, out, sent, hold, core, res, mounted>>

\* The MCU restarts; the FPGA, the claim in it included, is not touched.
Watchdog ==
    /\ wdg /\ wdg' = FALSE
    /\ dpc' = "boot" /\ phase' = "none" /\ target' = NoCore /\ out' = <<>> /\ sent' = 0
    /\ hold' = FALSE /\ core' = NoCore /\ res' = "none" /\ mounted' = FALSE
    /\ UNCHANGED <<linkVars, fpgaVars, left>>

\* main: a valid status names the core; the menu opens its images.
BootOk ==
    /\ dpc = "boot" /\ Running
    /\ dpc' = "idle" /\ core' = fpga /\ mounted' = TRUE
    /\ UNCHANGED <<linkVars, fpgaVars, left, phase, target, out, sent, hold, wdg, res>>

\* Mutant: start-up waits for the FPGA without a bound.
BootWaitsForever ==
    /\ dpc = "boot" /\ ~Running
    /\ UNCHANGED <<linkVars, fpgaVars, left, dockVars>>

\* Ten seconds without one (CoreSwitch says when).
BootGiveUp ==
    /\ dpc = "boot" /\ ~Running
    /\ dpc' = "idle"
    /\ UNCHANGED <<linkVars, fpgaVars, left,
                   phase, target, out, sent, hold, wdg, core, res, mounted>>

DockInit ==
    /\ dpc = "boot" /\ phase = "none" /\ target = NoCore /\ out = <<>> /\ sent = 0
    /\ hold = FALSE /\ wdg = FALSE /\ core = NoCore /\ res = "none" /\ mounted = FALSE

DockTypeOK ==
    /\ dpc \in {"boot", "idle", "push", "wait", "open", "read", "spin"}
    /\ phase \in Phases
    /\ target \in Cores \cup {NoCore}
    /\ dpc \notin {"boot", "idle"} => target \in Cores
    /\ out \in Seq(Token) /\ sent \in Nat
    /\ hold \in BOOLEAN /\ wdg \in BOOLEAN /\ mounted \in BOOLEAN
    /\ core \in Cores \cup {NoCore} /\ res \in Results
=============================================================================
