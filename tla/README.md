# Tang Ultima: a TLA+ model of the companion firmware

Tang Ultima turns one Tang Nano 20K board into any of several retro machines
("cores": UKNC, PK8000, Korvet, ZS-256, Evo, BK). Two microcontrollers run
around the FPGA:

* the **dock**, an M0S (BL616) running `src/mnano` on FreeRTOS: it talks to
  the FPGA over one SPI link, draws the menu, serves the SD card's images to
  the running machine, reads USB keyboards, and can move the FPGA to another
  core;
* **stage 2**, the board's own BL616 running `src/onboard`: it receives a
  core over a UART that goes *through the FPGA*, and writes it into the
  FPGA's SRAM over JTAG.

The Verilog of the cores is not in this repository. Where the firmware depends
on it, it is modelled from how the firmware uses it and marked external.

## Inventory

| component | source | state | operations | hard because |
|---|---|---|---|---|
| core switch, dock | `mnano/coreload.c`, `ultima.c:186-230` | `last_code`, claim, place in the conversation, `sys_irq_hold` | ping, caps, send, load, release | runs over a link that the switch itself destroys; lost bytes; retries |
| stage 2 | `onboard/main.c`, `link.c`, `ramstage.c` | `staged_valid`, `packed_length`, receive ring | P V B C L R S, byte timeout | state survives abandoned transfers; the fallback after a failed load |
| JTAG driver | `onboard/jtag.c`, `gowin.c` | TAP state, `in_shift` | shift IR/DR, erase, write, reload | the driver's idea of the TAP against the TAP's |
| interrupt task | `mnano/spi.c:57-92`, `sysctrl.c:227-257` | pending events, hold | cold boot, HID, card, ExtROM/AZ/VSD events | interleaves with every other task |
| SD card and images | `mnano/sdc.c` | `fil[]`, link tables, `sdc_lock` | open/close image, sector request, raw sector I/O | two tasks, checks outside the lock, unbounded waits |
| virtual SD card (Evo) | `mnano/vsd.c` | runs of inside clusters, FAT cache | scan, read, write, FAT merge | two file systems write one card |
| save to flash | `mnano/flashwr.c`, `ultima.c:232-250` | flash contents, the card's record | check, erase, write, verify | power loss and failures part-way |
| UKNC keyboard, HID | `mnano/usb_host.c` | `held`, `rows`, `gen`; per-device threads | key events, attach, detach | matrix rollover; thread life cycle |
| ExtROM (Korvet) | `mnano/extrom.c` | command state, files | commands from the machine | back-pressure with the card locked |
| AZ controller (BK) | `mnano/azbk.c`, `bk.c` | registers, open files | commands from the machine | handles kept across commands |
| Evo set-up, CMOS | `mnano/evo.c` | changed flag, file | load, poll, save | flag cleared before the save |
| configuration | `mnano/companion.c`, `romload.c` | active profile | parse, select, fall back | replaced as a whole or not at all |
| menu | `mnano/menu.c` | form, entry, offsets | keys, redraw | cursor and scroll bounds |
| utilities | `mnano/bas.c`, `rt11sav.c`, `hidparser.c` | - | conversions | sequential |

How they interact: the OSD task (menu) starts switches, saves and mounts; the
interrupt task reacts to the FPGA; both use the card under `sdc_lock` and the
SPI link under its own mutex. `sys_irq_hold` is the only thing by which the
switch keeps the interrupt task away from a blank FPGA. The watchdog restarts
the dock; nothing restarts stage 2 or the FPGA with it.

What makes each correct, in a sentence: *switch*: the FPGA is erased only for a
core that arrived whole and never stays blank, and the dock always finds out
what runs; *JTAG*: every instruction is heard and every bit taken in order,
wherever the pins were left; *images*: a machine's request is answered from the
image that is open; *AZ units*: a block is that of the image mounted in its
unit; *virtual card*: nothing outside the Evo's folder is ever changed;
*flash*: success means that the whole core is in it; *CMOS*: no change is
forgotten; *keyboard*: the machine believes a row held only while a key of it
is; *HID slot*: no thread touches a device the stack has freed (which the code
ensures for every USB transfer, and not for a thread that waits for the link).

## Plan

| step | component | modules | theorems |
|---|---|---|---|
| 1 | core switch | `CoreLink`, `Stage2`, `Dock`, composed by `CoreSwitch`; abstract `CorePromise`; `MCCoreSwitch` | `CoreSwitchProofs` |
| 2 | virtual SD card | `VsdRuns`, `VsdCard`; `MCVsdCard` | `VsdRunsProofs`, `VsdCardProofs` |
| 3 | users of the card's lock | `CardLock`, `SdcImages`, `FlashInstall`, `EvoCmos`, composed by `CardTasks`; `MCCardTasks` | `CardTasksProofs` |
| 4 | keyboard and HID slot | `UkncKeyboard`, `HidLife`, composed by `HidKeyboard`; `MCHidKeyboard` | `UkncKeyboardProofs`, `HidKeyboardProofs` |
| 5 | JTAG under stage 2 | `JtagTap`, `GowinLoad`; `MCGowinLoad` | `GowinLoadProofs` |
| 6 | AZ units | `AzUnits`; `MCAzUnits` | `AzUnitsProofs` |

All six are done. Left, in this order: the AZ's commands on files, which share
`cur_unit`'s lock; the ExtROM controller; subdirectories and multi-block writes
of the virtual card; two keyboards at once.

Type correctness of every composed module is a theorem, for all values of the
constants; the runs repeat it only where they check little else. So is every
safety property of a passing run, some of them under hypotheses that the
sections below state and justify. Left to TLC are the properties that need
fairness (`NeverBlankForGood`, `DockCatchesUp`, `SwitchArrives`, `StartUpEnds`,
`SwitchEnds`, `EveryRequestAnswered`, `OsdReturns`, `KeepsAsking`, `LoadEnds`):
their proofs need `ENABLED` and well-founded induction on the spec's actions,
which the installed provers do not do.

## The core switch

### Modules

| module | models | state |
|---|---|---|
| `CoreLink` | CMD 11's FIFO and answer latch, the UART, stage 2's ring (`link.c`), the FPGA's configuration | `claimed`, `fifo`, `fresh` (STATUS_COUNT is not 0), `last`, `ring`, `down`, `fpga`, `booting`, `cold`, `left` |
| `Stage2` | `onboard/main.c` and `ramstage.c` | `spc` (the thread), `staged_valid`, `packed`, `hdr`, `got`, `intact`, `present` |
| `Dock` | `ultima_switch` and `coreload.c`, cold-boot event, start-up | `dpc` (the OSD task), `phase`, `target`, `out`, `sent`, `hold`, `wdg`, `core`, `res`, `mounted` |
| `CoreSwitch` | both processors and the link stepping independently | the union |
| `CorePromise` | what all this promises about the FPGA | `fpga`, `staged`, `mode` |

Each step of the OSD task between two waits of `coreload.c` is an action:
`Switch` (up to the ping's push), `Push` (one SUB_WRITE), `OnPing`, `OnCaps`,
`OnBegin`, `OnChunk`, `OnCrc`, `OnLoad` (an answer and what follows from it up
to the next push), `ReplyTimeout`, `NeverRoom`, `OpenSidecar`, `ReadChunk`,
`CardFails`. On the other side each `rx_wait` of `onboard/main.c` is a step:
one action per command of the main loop, `Header`, `Payload`, `CheckStaged` and
`ByteTimeout` inside C, and `EraseSram`, `WriteSram`, `WrongIdcode`, `Reload`
for the FPGA. `ColdIrq` and `Watchdog` may step between any two of them.

### Abstractions

* A payload moves in pieces of `PUSH` (512) bytes; `Chunk`, `FifoCap` and
  `RingCap` count pieces. A byte lost out of a piece either removes the piece
  or leaves it short. A short or foreign piece fills what stage 2 waits for,
  or leaves it waiting, and nothing after it is at its place (`intact`).
* When stage 2 is in its main loop a payload piece is heard as one command
  byte, any one or none.
* The crc and the decode are an oracle: the packed bytes match exactly when
  `intact`, the decode succeeds exactly for a good sidecar. The decode that
  `cmd_load` and `cmd_status` repeat is of the same bytes and cannot differ,
  so `cmd_load`'s own decode failure is no separate case.
* `CL_ERR_SIZE` and `CL_ERR_NOTBIT` are one kind of bad container.
* The sidecar is missing, has a bad container, decodes wrongly or is good.

### Time

The code's waits differ by orders of magnitude, so only the orders that the
numbers allow are let happen. These guards are in `CoreSwitch`:

| guard | because |
|---|---|
| `WireQuiet` before a user's step and before start-up ends | bytes drain in milliseconds (5 us a byte) |
| `NobodyAnswers` for `cl_reply`'s timeout | 500 ms to 30 s against an answer already under way; a blank FPGA outlasts the ping's 500 ms and not the load's 30 s |
| `DockSilent` for `BYTE_TIMEOUT_MS` | 3 s: the dock is between two things it says only if an answer was lost, it gave up, or the card stalls (fault `stall`) |
| `AnswerRead` after L and R | 100 ms against a poll every millisecond |
| `StaysBlank` for start-up's ten seconds | a load takes about three (`mnano/main.c:296-299`) |
| `Settled` before a user acts and before L is said | a pending cold-boot interrupt and the half second of the watchdog come first |
| `BlankByNow` for the watchdog after L | 300 ms plus half a second against stage 2's 100 ms and the erase |

### Faults

`MaxFaults` bounds how often each kind strikes: `up` and `down` (a byte lost
to or from stage 2), `card` (a read fails), `stall` (a read takes longer than
the byte timeout), `jtag` (identification, erase or load fails), `serial` (the
running machine's serial port speaks on the shared pin). A blank FPGA's MISO
may read as anything: `Answer` then allows every code.

### Runs

| run | instance | shows |
|---|---|---|
| `switch_recovers` | three cores, one without a sidecar and one with a bad container, payloads of 3 and 1 pieces in chunks of 2; two lost answers, one card and one JTAG failure, fairness | a switch to a good core in which nothing goes wrong arrives, whatever went wrong before it (`SwitchArrives`); the interrupt task is held whenever the FPGA is blank, as long as no answer is lost (`HeldWhileAnswered`); `LoadsWhatWasPicked`, `NoImageWhileBlank`, `ReleasedAfterError`, `FullCoreFirst`, `NeverBlankForGood`, `DockCatchesUp` |
| `switch_any_fault` | two cores, one whose sidecar decodes wrongly, chunks of one piece, an empty flash, every fault once, a core whose serial port shares the pin, fairness | `TypeOK`, `StagedIsWhole`, `KeepsPromise`; start-up gives up on an FPGA that never comes up (`StartUpEnds`), and every switch ends (`SwitchEnds`) |

The bounds: a payload of 3 pieces in chunks of 2 has a full and a partial
chunk; of 2 in chunks of 1, two full ones. The FIFO of two pieces fills, as does
the ring of three. Two lost answers are enough for one attempt to go wrong and
the next to meet its remains; longer chains of attempts repeat those states
because every attempt starts with a flush. Two cores let the FPGA leave a core,
come to another, and fall back to the flash's.

Fairness: weak, on the UART and the FPGA's boot, on both processors' own
steps, on the interrupt task and the watchdog. The OSD and the interrupt task
have FreeRTOS time slices, stage 2 is one loop, the watchdog is a timer.
Nothing is assumed of users, and no fault has to strike.

### Disagreements between code and comments

| run | property | what happens |
|---|---|---|
| `payload_obeyed` | `FullCoreFirst` | the C byte is lost; header and payload are obeyed as commands by the main loop, an `R` among them blanks the FPGA with nothing staged (`coreload.h:46`, `coreload.c:212-213` say otherwise) |
| `blank_read` | `HoldThroughBlank` | stage 2's OK to L is lost; `cl_reply` goes on polling a blank FPGA, a non-OK byte lifts the hold (`ultima.c:211-216`) |

`switch_recovers` checks `FullCoreFirst` without lost commands, and
`HeldWhileAnswered` says that the hold stands as long as no answer to L is
lost: the two hold there. One more thing the model shows and no run asks for:
when L itself is lost the MCU restarts, the FPGA keeps its core, and the claim
on the serial pin made before stays (`coreload.h:37-40`), as nothing releases
it.

### Proofs

`CoreSwitchProofs` proves, for every catalogue, payload lengths, chunk, FIFO
and ring sizes, flash contents and fault budget (the named ASSUMEs of
`CoreLink` are all that is assumed):

* `TypeCorrect`: `Spec => []TypeOK`;
* `StagedCorrect`: `Spec => []StagedIsWhole`;
* `PromiseKept`: `Spec => KeepsPromise`, that is, `CoreSwitch` implements
  `CorePromise` with `staged` read off `staged_valid` and `hdr`, and `mode`
  off `fpga` and `booting`;
* `PinGivenBack`: `Spec => []ReleasedAfterError`.

None of the first three is inductive alone. `IInv` adds `Bookkept` (nothing is
staged while a transfer runs; an intact transfer has the announced length; `got`
stays below `packed` until the tail) and `BlankWhy` (a blank FPGA is booting from its
flash, or stage 2 is writing it or about to reload it). `BooksStep` and
`BlankStep` show that every step keeps them, action by action. The refinement
has one lemma per kind of step: the link (`LinkPromise`), stage 2's
transfers (`StagePromise`), stage 2's hand on the FPGA (`DrivePromise`), and
everything the dock does (`DockPromise`).

`PinGivenBack` has an invariant of its own, `Over`: with an
error recorded the switch is over and the pin free.

Four more are about the conversation between the two processors, and hold while
stage 2 hears what the dock says and nothing else:

* `LoadsThePicked`: `RingTakesChunk => (Spec => [](Clean => LoadsWhatWasPicked))`;
* `ImagesClosed`: the same of `NoImageWhileBlank`;
* `FullCoreArrives`: `RingTakesChunk => (Spec /\ []Clean => FullCoreFirst)`;
* `HeldThroughLoad`: `RingTakesChunk /\ FlashCore # NoCore =>
  (Spec => [](Clean => HeldWhileAnswered))`.

`RingTakesChunk` is `Chunk < RingCap`: a chunk is 4096 bytes and the ring 8192
(`protocol.h:25`, `link.c:13`). `Clean` says that no fault of the kinds `up`,
`serial` and `stall` has struck so far, with whatever budget. Lost answers, failing
card reads, failing JTAG, restarts of the dock and cold boots may strike at
any time. Without `Clean` the four are out of reach for a reason in
the code: after one lost, added or late byte stage 2 reads the rest of a payload
as commands (`payload_obeyed`), and nothing in the protocol tells
its answers to those from the ones the dock waits for. With an empty flash, start-up
gives up on a blank FPGA, and then nothing holds the interrupt task.

The invariant is `Conv`, by where the FPGA and stage 2 are. `Up`: stage 2
listens and the FPGA runs. Then what is in the ring, the FIFO and the dock's
hand is, read in this order, the rest of the script of the command under way
(`OnScript`: token by token from the C to the crc), from the very token stage 2
waits for; and the answers on their way back are the one the dock waits for
or remains of an attempt it gave up. `Ending`: L was heard, the line is empty
and the images are closed. `Blank`: the FPGA is blank, nothing is in flight,
and what the dock may still say is one command that gets lost. `Absent`: stage 2
is not there, and the dock never gets past the ping. `Books` adds the dock's own
bookkeeping (the flush before each attempt, `sent` at a chunk's boundary). It is
shown by actor and then by action. The time guards are used where the code relies
on time: a byte timeout needs a silent dock, and a timeout of `cl_reply` an
answer that is not under way. Budgets only go down, so a clean state has clean
predecessors (`StillClean`), and `Clean => Conv` is inductive. `AllHeard` adds
for `HeldThroughLoad` that while every answer arrives too the dock has read the one
to L before the FPGA goes blank.

Only model-checked: the properties under fairness.

## The virtual SD card of the Evo

### Modules

| module | models | state |
|---|---|---|
| `VsdRuns` | the run table (`vsd.c:121-185`): `ext_find`, `inside`, `ext_add`, `ext_remove` as operators | - |
| `VsdCard` | the walk, the FAT merge, the data guard, the cached FAT sectors, the firmware's FatFs beside them, the Evo's software | the card (`fat`, `sd`, `host`, `spoilt`, `settings`), FatFs's window `win`, `vsd.c` (`vpc`, `ext`, `fc`, `others`, `walk`, `wr`), the Evo's driver (`img`, `op`), `boots` |
| `MCVsdCard` | small cards | |
| `VsdRunsProofs`, `VsdCardProofs` | theorems | |

`Scan`, `NoteCluster`, `NextEntry`, `WalkEnds` are `vsd_scan`; `BeginMerge`,
`MergeEntry` (one turn of the loop over the entries) and `EndMerge` are
`fat_write`; `DataWrite` and `DataRefused` are `vsd_write` of a cluster;
`ReadFat` is `vsd_read`. `MergeFails`, `ScanFails` and the fault branches are
reads of the card that fail. `host` records which clusters are the firmware's
own; no action decides by it.

Two Evos can be plugged in. With `AnyWrites` the machine writes any FAT image
and any cluster at any time: nothing is assumed of its software. Otherwise it
is a FAT driver that reads FAT 1 once, keeps it, and writes the sectors of one
create, append or delete in any order, from the FAT it holds.

The firmware uses the card through FatFs: `UseCard` reads or writes in place
(the CMOS), `SaveSettings` cuts the settings file and writes it to a free
cluster (`menu.c:544` opens it with `FA_CREATE_ALWAYS`).

### Abstractions

* One FAT sector per copy and clusters of one sector; the cache of four
  sectors never has to evict then. Boot sectors, FSInfo and the MBR are left
  out, refused or passed whatever they hold.
* One directory, `/evo/SD` itself, with one entry per file; dot entries do not
  lead anywhere.
* A FatFs operation is one step, because the firmware holds the card's lock
  throughout; so is the walk's and the merge's hold on it (`Unlocked`), but
  these are taken apart into their turns, and a restart may fall between them.
* A write to the card does not fail (`sdc_write` reports success always); a
  read may, once the sector is not cached.

### Runs

| run | instance | shows |
|---|---|---|
| `vsd_guard` | six clusters, two FATs, the settings, one cluster of another file of the firmware's, a file of three clusters of the Evo's; any FAT writes with free and end as entries, failing reads, one start | `RestOfCardSafe`, `NoStaleSector`; the table holds exactly the Evo's clusters (`InsideExact`), sorted and apart (`RunsSound`), and the root directory's first cluster is never freed (`RootStays`) |
| `vsd_in_place` | the firmware writes in place only; the Evo's driver is cut off by one restart anywhere, reads fail | `RestOfCardSafe` over the restart, `TreeApart` |
| `vsd_rest_safe` | settings saves and one restart, no faults at all | violation, below |

Two copies of the FAT matter only to the merge, so the driver's runs have one.
The clusters of `vsd_guard` make two runs with a gap of one or two between
them, which frees split, shorten at either end and empty, and writes join; no
change to the table needs more than three. One restart is enough, as the second
walk starts from any card the first period can leave.

### Disagreements between code and comments

| run | property | what happens |
|---|---|---|
| `vsd_rest_safe` | `RestOfCardSafe` | a settings save takes a cluster the Evo's driver still holds for free; the driver's directory entry passes though its FAT entry is kept out, and the next walk takes the firmware's cluster in (`vsd.h:15-17`; `evo.c:69-71` avoids the case for the CMOS only) |

`vsd_guard` and `vsd_in_place` show that the same property holds without a
restart, and over one if the firmware allocates nothing. It needs a slot of the
table besides: with the table full a cluster freed in the middle of a run stays
noted (`vsd.c:177-178`) and can be the firmware's later. That takes 4096 runs;
the theorem has it as a hypothesis, which a card of at most 8192 FAT entries
always meets (`SlotsSuffice`).

### Proofs

`VsdRunsProofs` proves what the table operations do for every table and
cluster: `AddNotes` (the table stays sorted, notes the cluster if there is a
slot, and no other) and `RemoveForgets` (likewise, forgets exactly that
cluster while a slot is left), from lemmas on inserting into and removing from
a sequence; `TableFits` (the slots are never exceeded); `RunsAndGaps` (runs do
not touch, so there are at most half as many as clusters); and `FindsLastRun`:
`ext_find`'s halving finds what a plain search finds. The loop's result is shown
from all its states by a least counterexample (`Least`): no state of the loop with
the smallest distance of its ends can be wrong. `VsdCardProofs` proves, for every size of card, number of FATs,
folder, table size and set of entries the Evo writes, with all of the spec's
steps and faults:

* `TypeCorrect`: `Spec => []TypeOK`. `Types` adds that the table is sorted,
  that a merge has its sectors, and that a driver with sectors to write has a
  FAT image.
* `SectorsFresh`: `Spec => []NoStaleSector`, inductive with `Types`.
* `RestOfCardKept`: `RestOfCardSafe` and `InsideIsInUse`, as long as the Evo
  has been started once and a slot of the table is left. The invariant `Safe`
  adds three parts to it. `WalkApart`: until the walk ends, links and directory
  entries of the Evo's clusters lead to clusters of the Evo's, settings saves
  in between included. `MergeKeeps`: a merge works with what the card holds and
  never changes a firmware's entry. `NotedApart`: a noted cluster is in use in
  FAT 1 (in the merge's copy of it while one runs) and not the firmware's; this
  is what makes refusing by the run table safe. Since the spec has no
  fairness, the hypotheses say that the property holds in every state reached
  before either fails. Without each of them it is false.
* `RunsAreSound`: `Spec => []RunsSound`, without hypotheses.
* `SlotsSuffice`: with `n_fatent <= 2 * VSD_EXTENTS` a slot is always left, over
  any number of starts. On such a card only the hypothesis on restarts remains.
* `InsideIsExact`: if the walk's reads do not fail, `InsideExact` under the two
  hypotheses above. The invariant `Exact` adds that the Evo's clusters
  are as the walk will find them (`AsFound`), that it notes every one it has
  passed (`WalkNotes`), and that after it all are noted (`AllNoted`). A walk that
  fails leaves clusters unnoted, which are refused to the Evo: safe, not exact.
* `RootIsThere`: `RootStays`. The two hypotheses are needed only if the firmware
  allocates (`[](Allocates => Room)`), because only then do its own writes
  change the FAT (`FirmwareSafe`).
* `InPlaceSafe`: if the firmware writes in place and the Evo is a FAT driver
  (`~Allocates /\ ~AnyWrites`, as in `vsd_in_place`), `RestOfCardSafe` and
  `TreeApart` always: any number of starts, each cut off anywhere, failing
  reads, and a full table. Its invariant `InPlace` needs no cluster
  ever to become the firmware's, so what stays noted for want of a slot harms
  nothing; `Apart` says of every copy of the FAT, the merge's and the driver's
  that no chain of the Evo's leads into a cluster of the firmware's.

The assumptions are `ExtentsAssumption` and `CardAssumption`. No property of
this component is left to TLC alone.

## The card's lock and its users

### Modules

| module | models | state |
|---|---|---|
| `CardLock` | `sdc_lock`, the SPI mutex, and where the two tasks are | `lock`, `osd`, `irq`, `faults` |
| `SdcImages` | `sdc_image_open` and `sdc_handle_event` of `sdc.c`; what the machine knows of its drives (external) | `open`, `flag`, `cltbl` (`fil[]` and its link tables), `inserted`, `request`, `line`, `op`, `req` |
| `FlashInstall` | `ultima_install` and `flash_install` (`flashwr.c`) | `flash`, `at`, `running`, `glitch` |
| `EvoCmos` | `cmos_load`, `cmos_save`, `evo_poll` of `evo.c` | `nv`, `changed`, `buf`, `cmosFile`, `lost` |
| `CardTasks` | the two tasks, a switch, a power cut, and the power coming back | the union |

Every step between two operations that another task could notice is an action.
`Call`, `CloseOld`, `OpenFile`, `LinkTable`, `Insert` are `sdc_image_open` in
its order (the machine is told first that the old image goes and last that the
new one is there); `Wake`, `ReadStatus`, `CheckFlag`, `TakeLock`, `Answer`,
`CoreDone` are `sdc_handle_event`. `CheckFile`, `EraseBlock`, `Rewind`,
`ProgramPage`, `VerifyPage`, `Record` are `flash_install`, a block or a page a
step; `EjectAll` and `EjectNext` the loop over the drives before it and before a
switch. `Poll`, `CmosGet`, `ReadCell`, `CmosWrite` save the clock memory, cell by
cell, with `NvramWrite` of the machine between any two; `CmosBoot` is
`evo_boot`'s part in it. `SwitchCore` stands for `CoreSwitch`: refused, or another
core and a restart.

The processor is one and the interrupt task has the higher priority: the OSD
task steps only while the other sleeps or waits (`OsdRuns`), except where its
next step is a transaction on the link that was under way before the interrupt
could be read (`OnLink`). `RightSector` rests on that: `sdc_handle_event` reads
`flag` before it takes the lock (`sdc.c:385`).

### Abstractions

* A locked section of one card access is one step (`Locked`); only sections of
  several accesses hold `lock` between steps.
* A link table is none, half built, or that of an image; the place it gives for
  a sector is right when it is the table of the image asked for.
* Whether a request outlives the report that its drive is empty is up to the
  machine: both are allowed.
* Pages are whole. A page programmed without an erase, or cut off by the power,
  is `mixed`. A failure may be reported or silent (`glitch`), before or after the
  flash has changed.
* With nothing to boot, the model goes on when somebody writes a core from
  outside (`Rescue`).

### Run

`cards`: two drives, two images, three cores of 3, 2 and 5 pages in a slot of 4
and blocks of 2, one cell of clock memory, one fault of any kind at any point.
The sizes give a last block that is full and one that is not, and a core that
does not fit; two drives give the loop a first and a last. One fault is enough
for any one step to go wrong: an attempt to save that failed leaves any flash
behind that the next one has to cope with, with no fault of its own.
The constant `Az` is the core (the BK) whose images are units of the AZ controller
instead of drives, so that its menu opens none of these (`menu.c:724`, `:1427`, `:1481`); those
are the subject of `AzUnits`.

It shows `InsertedIsOpen`, `RightSector`, `NoImageWhileWriting`, `OkMeansWhole`,
`ErasedAhead`, `NothingForgotten`, and under fairness `EveryRequestAnswered` and
`OsdReturns`. Fairness: weak for the interrupt task, which runs when it can;
strong for its going to sleep, since the machine's requests do not all fall
between its look at the interrupts and its look at the status; strong for the
OSD task, which has the lower priority but gets on whenever the other sleeps
between two events. Each access to the card and each transfer of
the machine is assumed to end; the code waits for them without a bound
(`sdc.c:128`, `:419`). `NothingForgotten` is about what the dock has seen: a change of
the clock memory made since the last look at the flag, once a second
(`mnano/main.c:105-112`), is lost with the power or a switch.

### Proofs

`CardTasksProofs` proves for every number of drives, images, cores, pages, cells
and faults: `TypeCorrect`, `InsertedCorrect`, `SectorsRight` (the action
property), `OneMasterAtATime` (no card access of the dock's own while the machine
moves a sector), `NoneOpenWhileWriting`, `AlwaysErasedAhead`, `SavedIsWhole`,
`NoneForgotten`. The invariant has three parts that share only the tasks' places.
`ImagesOK` adds to `InsertedIsOpen` who holds the lock where, the drive
`sdc_image_open` is at work on (`OpenWork`), that a request is pending or being
handled and is about another drive than the one in hand (`RequestKept`), and
which drives the loop has passed (`EjectWork`). `FlashOK` adds how far the loops
have come (`InstallWork`); `CmosOK` that what has been read is still so unless
the flag is set again (`SaveWork`).

## The keyboard and its HID slot

### Modules

| module | models | state |
|---|---|---|
| `UkncKeyboard` | `kbd_parse` and `kbd_tx_uknc` of `usb_host.c`; `hid.v` and `xm2-01.v` (external) | `last`, `now`, `todo`, `pc`, `key` (the thread), `held`, `rows`, `code_of`, `gen`, `key_gen` (the static books), `byte`, `down` |
| `HidLife` | `usbh_hid_run`, `usbh_hid_stop`, `usbh_hid_client_thread`; the USB stack (external) | `class`, `stop`, `state`, `task_handle` (`hid_info`), `attached`, `connected`, `stopping`, `patience`, `busy` (URBs that keep an error code), `at`, `uses`, `left`, `doubled` (history) |
| `HidKeyboard` | a keyboard that comes and goes: the thread of `HidLife` parses as `UkncKeyboard` does | the union |

A report is a set of keys, compared with the last one; `NextKey` takes the changes
one by one, modifiers first, and each byte that waits for its 2 ms is a step of
its own (`Roll`, `SendCode`, `SendUp`). A byte equal to the one before is no change
to the machine (`Tx`). `rows` counts modulo 256 and `gen` modulo `GenMod`;
`lost` remembers that a row's generation has come round to that of a
forgotten key somebody still holds, or that a second thread of the slot has come
to share the books: there the two keyboard properties, and with them the model of
the keyboard, end. That of the slot goes on.

The thread's loop is taken apart at every place where another task may come
between: the top with the URB's filling and the clearing of its error code
(`Fill`), the submission (`Submit`), the wait (`UrbTimeout`, `UrbGone`, `UrbFails`,
`UrbReport`, each with the look at `stop` after it, `After`), the pause after an
error (`Cleared`), and `hid_parse` (`Parse`, with as many steps as the report has
bytes).

Time is counted, in units of 200 ms, because `usbh_hid_stop` gives up after
1200 ms: a URB takes at most 1000, a control transfer after an error and the
pause 600. Time does not pass while somebody has something to do that waits for
nothing (`Tick`). `hid_parse` has no limit at all: each of its bytes waits for the SPI
link without one (`spi.c:168`), and an access to the card may hold the link for
two seconds (`sdc.c:90-93`) or for good (`sdc.c:127-128`).

### Run

`hid_keyboard`: two instances of the device, so that one is attached while
anything of the other is left; both Shifts, the key that shares their row, two
generations. One row is enough as rows meet only in `byte`; three keys give a
rollover, a second key of one code, and both at once; two generations make `gen`
wrap. It shows:

* `NoUseAfterFree`: until a device has found an older thread in the slot
  (`doubled`), no thread works with a device that has been freed, however late it
  comes back from `hid_parse`;
* `GivesUpOnParse`: `usbh_hid_stop` gives up on a thread only if it is in `hid_parse`
  or just back from it, with one thread in the slot or two;
* `LegalStream` and `NoStuckRow`, until the books are lost;
* `KeepsAsking`, under fairness: no wait for a report lasts for ever, and a thread
  that has the slot to itself always comes to another URB that the stack accepts.
  The stack refuses a URB that keeps the error code of a timeout
  (`usb_host.c:792-795`), and with that line left out a thread goes from its first
  idle second on from pause to pause without one.

Fairness: strong for time, since the rounds of a thread that never waits for long
are not instantaneous either; weak for the thread's steps that wait for nothing
but time, and for `usbh_hid_stop` to see its wait end. Whether a device ever
answers is left open, and whether the link ever comes free.

### Where the code gives up

The run reaches what the comments exclude, and no property says that it does
not happen. A report has come and its thread waits in `hid_parse` for the link, which
an access to a silent card holds. The keyboard is pulled; `usbh_hid_stop` sets
`stop`, waits its 1200 ms, prints that the thread did not stop, and leaves
`class` NULL and `state` at `STATE_NONE`. The keyboard comes back.
`usbh_hid_run` has a wait for this case ("a re-attach before the last thread has
gone: let it go first", `usb_host.c:553`), which is never entered because `state`
is what `usbh_hid_stop` left it at; it clears `stop` and starts a second thread. The
first comes out of `hid_parse`, finds `stop` clear and a device in `class`, and goes
on with it. At the next detach the first of the two to exit clears the
`task_handle` they share, `usbh_hid_stop` returns, and the stack frees the device with
the other still in a transfer on it ("the stack frees hid_class the moment this
returns, so the thread must be out of it by then: it clears task_handle as it
exits", `usb_host.c:607-608`). Two threads share the slot's URB as well; the model
takes the wait of each to end as if it were alone.

Without the re-attach nothing is touched: `stop` stays set, and the thread ends
at the top of its loop without a look at the device (`NoUseAfterFree`).

### Proofs

`HidKeyboardProofs` proves, for any number of instances and any times with a URB's
and a control transfer's below that of `usbh_hid_stop` (`LifeAssumption`, the order of
the code's numbers), and for any time in `hid_parse`:

* `NeverUsedAfterFree`: `Spec => []NoUseAfterFree`;
* `GivesUpOnlyOnParse`: `Spec => GivesUpOnParse`;
* `OneThreadAtATime`: `Spec /\ [][~GivesUp]_vars => [](~doubled /\ ...)`: as long as
  `usbh_hid_stop` has never given up, the slot has one thread at most and no
  device finds an older one. With the second theorem: only a wait for the link that
  outlasts `usbh_hid_stop` can bring the slot into the state above.

The invariant is `LifeOK`: what the stack knows of the slot (`StackKnows`), that the
time left to a transfer is less than what is left of the stop's (`WaitsEnd`), that the
thread in `task_handle` exists (`HandleLives`), and that a thread which has the slot
to itself is that one, with `stop` set when it has been left behind (`Alone`).

`UkncKeyboardProofs` proves `StreamIsLegal` and `NoRowSticks` for any matrix, any
keys (fewer than 256) and any number of generations, and `TypeCorrect` of slot and
books together. `KbdOK` says of every row, unless `lost`, that its count is the
number of held keys of its current generation, all of one code, the machine's
column (`BooksOK`); a cardinality argument carries the counts. `KeepsAsking` is only
model-checked.

Two keyboards at once are outside: the books are one set for all threads
(`usb_host.c:194`), and with a second thread `UkncKeyboard` breaks `LegalStream`
within six steps.

## Loading over JTAG

### Modules

`GowinLoad` is stage 2's side, clock by clock: `Tms`, `Tdi` and `Length` are the
levels that `jtag_reset`, `jtag_shift_ir` and `jtag_shift_dr` put on the pins;
`Probe`, `ForceState`, `EraseSram`, `WriteBegin`, `WriteEnd` and `GwReload` are
the sequences of calls of `gowin.c` and `fpga_load`; `Sent`, `IdCode`,
`CrcError`, `Poll`, `Erased`, `ChunkSent`, `Done` are what is done when a call
returns. `JtagTap` is the other end, external: the sixteen states of the TAP, the
instruction register, and as much of the configuration engine as the sequences
rely on. `CoreSwitch` has the same load as one step of `Stage2` that may fail.

A bit is named by its position: the instruction register accepts an instruction
when its eight bits have come in order, the SRAM the bitstream likewise (`taken`),
and a bit that is none of them is `astray`. The FPGA may fail to erase or to check
what it took; a register answers anything unless the status was asked for.

### Run

`jtag`: six bits in chunks of one, three and two, registers of three bits, three
polls, from each of the sixteen states of the TAP. A chunk of one bit has its
first bit last; three chunks have a first, a middle and a last one. It shows
`InstructionHeard`, `StreamTaken`, `NotLeftBlank`, `LoadedIsNew`, and under weak
fairness of stage 2's one loop `LoadEnds`.

### Proofs

`GowinLoadProofs` proves for any bitstream cut into any chunks, any register
length and any number of polls: `TypeCorrect`, `EveryInstructionHeard`,
`StreamWhole`, `NeverLeftBlank`, `SuccessIsNew` (`LoadedIsNew`). The invariant follows the TAP through each call
(`Way`: its state and the bits taken as a function of the clock), the
configuration engine from the start of the write to the end of the load
(`Writing`: edit mode, what has been taken, the status asked for last) and through
the reload (`Flash`). `Fresh` adds for `SuccessIsNew` that once
the erase was answered the old core is gone, unless the erase failed, and that
nothing but the last call reports success. `LoadEnds` is only model-checked.

## The AZ's units

`AzUnits` models the disk units of `azbk.c`: `path`, `blocks`, `ro` of each unit,
the one file kept open (`cur_unit`, `cur_open`, `cur_fil`), the table of sizes in
the FPGA (`usize`). The interrupt task serves `Select`, `Read`, `Write`, `Mount`
and `Unmount` (001, 005, 006, 004, 014), each with all of `unit_open` and
`az_set_unit` it calls. The OSD task calls `az_set_unit` too (`menu.c:591`),
without `sdc_lock`: there it is taken apart (`OsdCheck` to `OsdPush`). The
interrupt task has the higher priority, so a command is served whole between two
of those steps and no step falls within a command.

An image that cannot be opened for writing is opened for reading and the unit
becomes read-only; a file that the card failed refuses from then on (FatFs's
sticky error). A block is at its own place if a seek to it does not stop at the
end of the file. An image's clusters end with its last block, so that no write
makes it longer. `moved` remembers the last block, `torn` the units whose last
mount from the OSD met a command, `stale` those that a command mounted after the
OSD task had made its table of sizes and before it sent it (`azbk.c:88-89`).

| run | instance | shows |
|---|---|---|
| `az_units` | two units, which are alike (symmetry), an image of two blocks and one of one block that may only be read, any of them in either unit or both, one failure | `ServedFromMounted`: a mount that met a command spoils its own unit at most; `SizesFollow`: an older table sent after a command spoils the size of that command's unit at most, until the next mount from the OSD |
| `az_chosen` | the same | violation of `ChosenIsServed` |

Two units are enough, as one file is kept open: the unit in hand and another.
Images of two sizes make a stale size or file show.

*Disagreement*: `az_set_unit` looks at `cur_unit` before it changes the path
(`azbk.c:96`). A command for the unit in between opens the old image again;
afterwards `unit_open` keeps it, because `cur_unit` is the unit. The menu shows the
new image, the machine goes on with the old one until another unit is used
(`menu.c:581-582` says that an image chosen in the OSD becomes the AZ's unit).

`AzUnitsProofs` proves `TypeCorrect`, `OthersServedRight` (`ServedFromMounted`) and
`TableFollows` (`SizesFollow`) for any units, images, sizes and failures. The
invariant says for every unit not in `torn`: if no mount is changing it, the file
kept open for it is that of its path or closed, and its size is at most the
file's (`Settled`); in the middle of a mount, `cur_unit` is the unit exactly until
it has been left (`Midway`); and the table about to be sent is that of the units,
but for the stale ones (`TableSent`).

## Not modelled

* The ExtROM controller (`extrom.c`): one thread that answers one command at a
  time. Its hazard, waiting for the machine with the card's lock held, turns on
  when the machine reads its FIFO, and the machine is not in this repository.
* The AZ's commands on files and directories, its clock and EEPROM block: only
  the interrupt task runs them; the ones that keep a file open between commands
  are the next step of the plan.
* Keyboards of the other machines, mice, joysticks and Xbox pads: each report is
  converted by itself, except for what `UkncKeyboard` models.
* `companion.c`, `romload.c`, `bas.c`, `rt11sav.c`, `hidparser.c`: parsing and
  conversion of one file or descriptor, with no other actor. A model would have
  to copy the byte formats.
* The menu's forms and the drawing (`menu.c`, `osd_u8g2.c`): what a choice does to
  other components is modelled with them.
* Bluetooth: an adapter over a stack that is not in the repository.
* Vendored code (`mnano/u8g2`, FatFs, CherryUSB, XZ Embedded), which is nearly all
  of the repository by size, key and font tables, the build tools, and the cores'
  bitstreams.
