---------------------------- MODULE CorePromise -----------------------------
(***************************************************************************)
(* What a core switch promises about the FPGA, whatever happens on the way *)
(* (coreload.h:45-48, onboard/main.c:166-178): it runs the core it had, the *)
(* core that was staged whole, or the flash's core; it is erased for a     *)
(* load only while a whole core is staged, and that core does not change   *)
(* until the FPGA has it.                                                  *)
(***************************************************************************)
EXTENDS FiniteSets

CONSTANTS Cores, NoCore,
          Whole,      \* cores whose sidecar passes every check
          FlashCore

VARIABLES fpga,    \* the core that is running, NoCore when blank
          staged,  \* the core stage 2 could load, NoCore when none
          mode     \* "running", or why the FPGA is blank: "loading", "booting"

Init == fpga \in Cores /\ staged = NoCore /\ mode = "running"

Stage == /\ mode # "loading"
         /\ staged' \in Whole \cup {NoCore}
         /\ UNCHANGED <<fpga, mode>>

Erase == /\ staged # NoCore
         /\ fpga' = NoCore /\ mode' = "loading" /\ UNCHANGED staged

Load == /\ mode = "loading"
        /\ fpga' = staged /\ mode' = "running" /\ UNCHANGED staged

Fallback == fpga' = NoCore /\ mode' = "booting" /\ UNCHANGED staged

Boot == /\ mode = "booting" /\ FlashCore # NoCore
        /\ fpga' = FlashCore /\ mode' = "running" /\ UNCHANGED staged

Next == Stage \/ Erase \/ Load \/ Fallback \/ Boot

Spec == Init /\ [][Next]_<<fpga, staged, mode>>
=============================================================================
