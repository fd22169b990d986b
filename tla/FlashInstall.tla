---------------------------- MODULE FlashInstall ----------------------------
(***************************************************************************)
(* Saving the running core to the configuration flash: ultima_install      *)
(* (src/mnano/ultima.c) and flash_install (src/mnano/flashwr.c), run by    *)
(* the OSD task.  The flash is erased in blocks and programmed in pages; a *)
(* page programmed without having been erased holds a mixture.  The card,  *)
(* the transaction engine and the flash may fail at every step, and the    *)
(* flash may also fail silently.                                           *)
(***************************************************************************)
EXTENDS CardLock

CONSTANTS
    Cores,        \* the machines
    NoCore,
    CoreSize,     \* pages of each core's bitstream, the last one perhaps short
    SlotPages,    \* FLASH_SLOT, in pages
    BlockPages    \* FLASH_BLOCK, in pages

ASSUME FlashAssumption ==
    /\ NoCore \notin Cores
    /\ SlotPages \in Nat /\ BlockPages \in Nat \ {0}
    /\ SlotPages % BlockPages = 0
    /\ CoreSize \in [Cores -> Nat \ {0}]

Pages == 0 .. SlotPages - 1
Erased == "erased"
Mixed == "mixed"

ASSUME ContentAssumption == {Erased, Mixed} \intersect (Cores \union {NoCore}) = {}

VARIABLES
    flash,     \* what each page of the slot at address 0 holds
    at,        \* the block or page the loop has come to
    running,   \* core_id: the machine in the FPGA
    glitch     \* history: the flash has failed silently in this attempt

flashVars == <<flash, at, running, glitch>>

CeilDiv(n, k) == (n + k - 1) \div k

\* The contents f hold the whole of core c.
Holds(f, c) == \A p \in 0 .. CoreSize[c] - 1 : p \in Pages /\ f[p] = c

\* What the FPGA loads at power-up: the core that is whole at address 0.
Boots(f) == IF \E c \in Cores : Holds(f, c) THEN CHOOSE c \in Cores : Holds(f, c) ELSE NoCore

\* The contents with x all over block b.
WithBlock(b, x) == [p \in Pages |-> IF p \div BlockPages = b THEN x ELSE flash[p]]

\* The return of flash_install: its locals end with it.
Return == at' = 0 /\ glitch' = FALSE
Fails == Return /\ OsdFails("idle")
Goes(s, n) == at' = n /\ OsdGoes(s) /\ UNCHANGED <<flash, glitch>>

\* JEDEC ID, f_open and f_size, and the head of the file: every refusal,
\* that of a file of the wrong size among them, precedes the first erase.
CheckFile ==
    /\ osd = "check" /\ Locked /\ OsdHasSpi
    /\ \/ Fails /\ UNCHANGED flash
       \/ /\ CoreSize[running] \notin BlockPages .. SlotPages
          /\ Return /\ OsdGoes("idle") /\ UNCHANGED flash
       \/ CoreSize[running] \in BlockPages .. SlotPages /\ Goes("erase", 0)
    /\ UNCHANGED running

\* One block of the erase loop, of which there are n, or its end.  An erase
\* that is reported to have failed may have happened, and one that is not
\* may have failed silently.
EraseLoop(n) ==
    /\ osd = "erase" /\ OsdHasSpi
    /\ \/ at = n /\ Goes("rewind", 0) /\ UNCHANGED lock
       \/ at < n /\ Locked /\ flash' \in {flash, WithBlock(at, Erased)} /\ Fails
       \/ /\ at < n
          /\ flash' = WithBlock(at, Erased) /\ at' = at + 1
          /\ UNCHANGED <<taskVars, glitch>>
       \/ /\ at < n
          /\ glitch' = TRUE /\ at' = at + 1 /\ OsdFails(osd)
          /\ UNCHANGED <<lock, flash>>
    /\ UNCHANGED running

\* Mutant: a last block that is not full is not erased.
EraseBlockFloor == EraseLoop(CoreSize[running] \div BlockPages)

EraseBlock == EraseLoop(CeilDiv(CoreSize[running], BlockPages))

\* f_lseek back to the start of the file.
Rewind(from, to) ==
    /\ osd = from /\ Locked
    /\ (Fails /\ UNCHANGED flash) \/ Goes(to, 0)
    /\ UNCHANGED running

\* The contents with the page programmed, well or not.
Garbled == [flash EXCEPT ![at] = Mixed]
Programmed == IF flash[at] = Erased THEN [flash EXCEPT ![at] = running] ELSE Garbled

\* f_read and flash_program_page of one page, or the end of the file.  An
\* error may come after the page was programmed.
ProgramPage ==
    /\ osd = "program" /\ Locked /\ OsdHasSpi
    /\ IF at = CoreSize[running]
       THEN Goes("rewind2", 0)
       ELSE \/ Fails /\ flash' \in {flash, Programmed, Garbled}
            \/ /\ flash' = Programmed /\ at' = at + 1
               /\ OsdGoes(osd) /\ UNCHANGED glitch
            \/ /\ flash' = Garbled /\ at' = at + 1 /\ glitch' = TRUE
               /\ OsdFails(osd)
    /\ UNCHANGED running

\* Mutant: a page that does not compare is passed over.
VerifyPageLax ==
    /\ osd = "verify" /\ Locked /\ OsdHasSpi
    /\ IF at = CoreSize[running]
       THEN Goes("record", at)
       ELSE (Fails /\ UNCHANGED flash) \/ Goes("verify", at + 1)
    /\ UNCHANGED running

\* f_read, flash_read_at and the comparison of one page, or the end.
VerifyPage ==
    /\ osd = "verify" /\ Locked /\ OsdHasSpi
    /\ IF at = CoreSize[running]
       THEN Goes("record", at)
       ELSE \/ Fails /\ UNCHANGED flash
            \/ IF flash[at] = running
               THEN Goes("verify", at + 1)
               ELSE Return /\ OsdGoes("idle") /\ UNCHANGED flash
    /\ UNCHANGED running

\* ultima_set_wanted: ultima.ini is written, which is read only to be shown.
Record ==
    /\ osd = "record" /\ Locked
    /\ Return /\ OsdGoes("idle") /\ UNCHANGED <<flash, running>>

InstallStep ==
    \/ CheckFile \/ EraseBlock \/ ProgramPage \/ VerifyPage \/ Record
    \/ Rewind("rewind", "program") \/ Rewind("rewind2", "verify")

-----------------------------------------------------------------------------
FlashInit ==
    /\ running \in Cores /\ CoreSize[running] <= SlotPages
    /\ flash = [p \in Pages |-> IF p < CoreSize[running] THEN running ELSE Erased]
    /\ at = 0 /\ glitch = FALSE

FlashTypeOK ==
    /\ flash \in [Pages -> Cores \union {Erased, Mixed}]
    /\ at \in Nat
    /\ running \in Cores \union {NoCore}
    /\ glitch \in BOOLEAN
=============================================================================
