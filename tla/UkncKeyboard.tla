---------------------------- MODULE UkncKeyboard ----------------------------
(***************************************************************************)
(* The UKNC's keyboard: kbd_parse and kbd_tx_uknc (src/mnano/usb_host.c).  *)
(* A USB keyboard reports the set of keys that are down; the machine wants *)
(* one press and one release for each row of its matrix, and xm2-01.v      *)
(* (external) takes only a byte that differs from the one before.  The     *)
(* books of kbd_tx_uknc are static, one set for all keyboards, and every   *)
(* byte may wait its 2 ms first, so another thread may come between.       *)
(***************************************************************************)
EXTENDS Naturals, FiniteSets

CONSTANTS
    Threads,     \* HID threads with a keyboard
    Keys,        \* HID usages, the modifiers among them
    Mods,        \* the modifiers
    Rows, Cols,  \* rows and columns of the matrix
    Code,        \* the scan code of each key
    NoCode,      \* 0: of a key the machine lacks, and the byte before the first
    Up,          \* the column of a release code
    NoKey,
    GenMod       \* generations of a row, 256

ASSUME KeysAssumption ==
    /\ IsFiniteSet(Keys) /\ Cardinality(Keys) < 256
    /\ Mods \subseteq Keys
    /\ Code \in [Keys -> [row : Rows, col : Cols] \union {NoCode}]
    /\ Up \notin Cols /\ NoKey \notin Keys
    /\ NoCode \notin [row : Rows, col : Cols \union {Up}]
    /\ GenMod \in Nat \ {0, 1}

Known == {k \in Keys : Code[k] \in [row : Rows, col : Cols]}
Row(k) == Code[k].row
InRow(r) == {k \in Known : Row(k) = r}

VARIABLES
    last,      \* last_report of each keyboard
    now,       \* the report its thread is parsing
    todo,      \* the changed keys the loops have yet to come to
    pc, key,   \* where kbd_tx_uknc is, and the key it is at
    held,      \* the static books of kbd_tx_uknc
    rows, code_of, gen, key_gen,
    osd_is_visible,
    byte,      \* the byte in hid.v
    down,      \* the machine's belief: the column each row is held by, or Up
    lost       \* history: gen[row] has come round to that of a forgotten key,
               \* or a second thread of the keyboard has come to share the books

threadVars == <<last, now, todo, pc, key>>
books == <<held, rows, code_of, gen, key_gen>>
kbdVars == <<threadVars, books, osd_is_visible, byte, down, lost>>

-----------------------------------------------------------------------------
(* The wire to the machine.                                                *)

\* kbd_tx: a byte that is not new is no change to the machine.
Tx(r, c) ==
    /\ byte' = [row |-> r, col |-> c]
    /\ down' = IF byte' # byte THEN [down EXCEPT ![r] = c] ELSE down

Quiet == UNCHANGED <<byte, down>>
At(t, s, k) == pc' = [pc EXCEPT ![t] = s] /\ key' = [key EXCEPT ![t] = k]
NextChange(t) == At(t, "next", NoKey)

Add(n, k) == (n + k) % 256

-----------------------------------------------------------------------------
(* kbd_parse.                                                              *)

\* A report comes; it is compared with the last one as a set.
Report(t, r) ==
    /\ pc[t] = "idle"
    /\ now' = [now EXCEPT ![t] = r]
    /\ todo' = [todo EXCEPT ![t] = (last[t] \ r) \union (r \ last[t])]
    /\ NextChange(t)
    /\ UNCHANGED <<last, books, osd_is_visible, lost>> /\ Quiet

\* Mutant: a release code for every key that goes up.
ReleaseEach(t, k) ==
    /\ k \notin now[t]
    /\ held' = held \ {k}
    /\ IF k \in held THEN At(t, "up", k) ELSE NextChange(t)
    /\ UNCHANGED <<rows, code_of, gen, key_gen>>

\* kbd_tx_uknc(pressed = 0), up to its byte.
Release(t, k) ==
    /\ k \notin now[t]
    /\ held' = held \ {k}
    /\ IF k \notin held \/ key_gen[k] # gen[Row(k)]
       THEN NextChange(t) /\ UNCHANGED rows
       ELSE /\ rows' = [rows EXCEPT ![Row(k)] = Add(@, 255)]
            /\ IF rows'[Row(k)] = 0 THEN At(t, "up", k) ELSE NextChange(t)
    /\ UNCHANGED <<code_of, gen, key_gen>>

\* A press the OSD eats, or of a key the machine lacks, is not tracked.
Ignored(k) == osd_is_visible \/ k \notin Known \/ k \in held

\* kbd_tx_uknc(pressed = 1), up to its first byte: a rollover if the row is
\* held by another code, nothing to send if it is held by the same one.
Press(t, k) ==
    /\ k \in now[t]
    /\ IF Ignored(k)
       THEN NextChange(t) /\ UNCHANGED <<held, rows, key_gen>>
       ELSE /\ held' = held \union {k}
            /\ IF rows[Row(k)] # 0 /\ Code[k] = code_of[Row(k)]
               THEN /\ NextChange(t)
                    /\ rows' = [rows EXCEPT ![Row(k)] = Add(@, 1)]
                    /\ key_gen' = [key_gen EXCEPT ![k] = gen[Row(k)]]
               ELSE /\ At(t, IF rows[Row(k)] # 0 THEN "roll" ELSE "code", k)
                    /\ UNCHANGED <<rows, key_gen>>
    /\ UNCHANGED <<code_of, gen>>

\* The next change, in the order of the slots; the modifiers come first.
NextKey(t) ==
    /\ pc[t] = "next"
    /\ \E k \in todo[t] :
          /\ k \in Mods \/ todo[t] \intersect Mods = {}
          /\ todo' = [todo EXCEPT ![t] = @ \ {k}]
          /\ Press(t, k) \/ Release(t, k)
    /\ UNCHANGED <<last, now, osd_is_visible, lost>> /\ Quiet

\* The report becomes the last one.
Parsed(t) ==
    /\ pc[t] = "next" /\ todo[t] = {}
    /\ last' = [last EXCEPT ![t] = now[t]]
    /\ At(t, "idle", NoKey)
    /\ UNCHANGED <<now, todo, books, osd_is_visible, lost>> /\ Quiet

\* The release of a rollover; the row's older keys are forgotten.
Roll(t) ==
    LET r == Row(key[t]) IN
    /\ pc[t] = "roll"
    /\ Tx(r, Up)
    /\ gen' = [gen EXCEPT ![r] = (@ + 1) % GenMod]
    /\ rows' = [rows EXCEPT ![r] = 0]
    /\ lost' = (lost \/ \E k \in (held \intersect InRow(r)) \ {key[t]} : key_gen[k] = gen'[r])
    /\ At(t, "code", key[t])
    /\ UNCHANGED <<last, now, todo, held, code_of, key_gen, osd_is_visible>>

\* The press.
SendCode(t) ==
    LET r == Row(key[t]) IN
    /\ pc[t] = "code"
    /\ Tx(r, Code[key[t]].col)
    /\ code_of' = [code_of EXCEPT ![r] = Code[key[t]]]
    /\ rows' = [rows EXCEPT ![r] = Add(@, 1)]
    /\ key_gen' = [key_gen EXCEPT ![key[t]] = gen[r]]
    /\ NextChange(t)
    /\ UNCHANGED <<last, now, todo, held, gen, osd_is_visible, lost>>

\* The release of a row whose last key went up.
SendUp(t) ==
    /\ pc[t] = "up"
    /\ Tx(Row(key[t]), Up)
    /\ NextChange(t)
    /\ UNCHANGED <<last, now, todo, books, osd_is_visible, lost>>

ParseStep(t) == NextKey(t) \/ Parsed(t) \/ Roll(t) \/ SendCode(t) \/ SendUp(t)

\* The OSD task shows or hides the menu.
ToggleOsd ==
    /\ osd_is_visible' = ~osd_is_visible
    /\ UNCHANGED <<threadVars, books, byte, down, lost>>

NoKeys == [t \in Threads |-> {}]
Idle == [t \in Threads |-> "idle"]
AtNoKey == [t \in Threads |-> NoKey]
Zero(S) == [x \in S |-> 0]
NoCodes == [r \in Rows |-> NoCode]
AllUp == [r \in Rows |-> Up]

\* The static books start at zero, and so does hid.v.
KbdInit ==
    /\ last = NoKeys /\ now = NoKeys /\ todo = NoKeys /\ pc = Idle /\ key = AtNoKey
    /\ held = {} /\ rows = Zero(Rows) /\ code_of = NoCodes
    /\ gen = Zero(Rows) /\ key_gen = Zero(Keys)
    /\ osd_is_visible = FALSE /\ byte = NoCode /\ down = AllUp
    /\ lost = FALSE

\* Two threads share the books: the model of the keyboard ends here, and its
\* variables say nothing any more.
Share ==
    /\ last' = NoKeys /\ now' = NoKeys /\ todo' = NoKeys /\ pc' = Idle /\ key' = AtNoKey
    /\ held' = {} /\ rows' = Zero(Rows) /\ code_of' = NoCodes
    /\ gen' = Zero(Rows) /\ key_gen' = Zero(Keys)
    /\ osd_is_visible' = FALSE /\ byte' = NoCode /\ down' = AllUp
    /\ lost' = TRUE

-----------------------------------------------------------------------------
KbdTypeOK ==
    /\ last \in [Threads -> SUBSET Keys] /\ now \in [Threads -> SUBSET Keys]
    /\ todo \in [Threads -> SUBSET Keys]
    /\ pc \in [Threads -> {"idle", "next", "roll", "code", "up"}] /\ key \in [Threads -> Keys \union {NoKey}]
    /\ held \subseteq Known
    /\ rows \in [Rows -> 0 .. 255]
    /\ code_of \in [Rows -> [row : Rows, col : Cols] \union {NoCode}]
    /\ down \in [Rows -> Cols \union {Up}]
    /\ byte \in [row : Rows, col : Cols \union {Up}] \union {NoCode}
    /\ gen \in [Rows -> 0 .. GenMod - 1] /\ key_gen \in [Keys -> 0 .. GenMod - 1]
    /\ osd_is_visible \in BOOLEAN /\ lost \in BOOLEAN

(* The machine is handed a legal stream (usb_host.c:165): a press only for *)
(* a row that is up, a release only for one that is down, and never the    *)
(* byte that is there already, which xm2-01.v would take as no change.     *)
LegalStream ==
    ~lost => \A t \in Threads :
        LET r == Row(key[t]) IN
        /\ pc[t] \in {"roll", "up"} => down[r] # Up /\ byte # [row |-> r, col |-> Up]
        /\ pc[t] = "code" => down[r] = Up /\ byte # Code[key[t]]

(* A row the machine believes down has a key of that very code in the last *)
(* report of a keyboard: no row is left to autorepeat with nobody on it.   *)
NoStuckRow ==
    (~lost /\ \A t \in Threads : pc[t] = "idle") =>
        \A r \in Rows : down[r] # Up =>
            \E t \in Threads : \E k \in last[t] \intersect InRow(r) : Code[k].col = down[r]
=============================================================================
