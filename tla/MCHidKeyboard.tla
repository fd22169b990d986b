--------------------------- MODULE MCHidKeyboard ---------------------------
(***************************************************************************)
(* A keyboard with both Shifts and the numeric keypad's key of the same    *)
(* row, attached as often as one likes.                                    *)
(***************************************************************************)
EXTENDS HidKeyboard

CONSTANTS LShift, RShift, Keypad

Shifts == {LShift, RShift}
ThreeKeys == Shifts \union {Keypad}
OneSlot == {Slot}
OneRow == {5}
TwoCols == {1, 2}
Codes == [k \in ThreeKeys |-> [row |-> 5, col |-> IF k \in Shifts THEN 1 ELSE 2]]
=============================================================================
