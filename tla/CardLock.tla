------------------------------ MODULE CardLock ------------------------------
(***************************************************************************)
(* What the tasks of the dock share when they use the SD card: the card's  *)
(* lock (sdc_lock and sdc_unlock, src/mnano/sdc.c) and the SPI link's      *)
(* mutex (src/mnano/spi.c).  Two tasks use them here: the OSD task, which  *)
(* opens images, saves a core and saves the Evo's CMOS, and the interrupt  *)
(* task, which answers the machine's sector requests.                      *)
(***************************************************************************)
EXTENDS Naturals, FiniteSets

VARIABLES
    lock,    \* who holds sdc_sem: "free", "osd" or "irq"
    osd,     \* where the OSD task is
    irq,     \* where the interrupt task is
    faults   \* failures of the card, the flash and the power still to come

taskVars == <<lock, osd, irq, faults>>

Fault == faults > 0 /\ faults' = faults - 1

\* sdc_lock by task t, held over more than this step.
sdc_lock(t) == lock = "free" /\ lock' = t

sdc_unlock == lock' = "free"

\* A card access between sdc_lock and sdc_unlock, of one step.
Locked == lock = "free" /\ UNCHANGED lock

\* spi_begin can be passed by the OSD task: the interrupt task keeps the
\* link only while it waits for the machine's own card access.
OsdHasSpi == irq # "busy"

\* spi_begin can be passed by the interrupt task: the OSD task keeps the
\* link only while it reads the Evo's NVRAM.
IrqHasSpi == osd # "cmosRead"

OsdGoes(s) == osd' = s /\ UNCHANGED <<irq, faults>>
OsdFails(s) == osd' = s /\ UNCHANGED irq /\ Fault
IrqGoes(s) == irq' = s /\ UNCHANGED <<osd, faults>>
=============================================================================
