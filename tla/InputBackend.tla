---------------------------- MODULE InputBackend ----------------------------
(***************************************************************************)
(* The Windows input backend (actions/windows_input.py): each input an     *)
(* action asks for, as the list of events it is sent to the system as.     *)
(*                                                                         *)
(* An event presses or releases a key or button, moves the pointer, sends  *)
(* a character that needs no key, or puts a text on the clipboard. What a  *)
(* character is, and how many a text has, is left out: a text is one key   *)
(* that may need Shift or one that is on no key.                           *)
(***************************************************************************)
EXTENDS Sequences, Naturals, SequencesExt

CONSTANTS Key         \* the names resolve_vk knows

Down(k) == [do |-> "down", key |-> k]
Up(k) == [do |-> "up", key |-> k]
Move == [do |-> "move", key |-> "none"]
Char(t) == [do |-> "char", key |-> t]
SetClipboard(t) == [do |-> "copy", key |-> t]

-----------------------------------------------------------------------------
(* Mouse. *)
Click(b) == <<Move, Down(b), Up(b)>>
DoubleClick(b) == Click(b) \o <<Down(b), Up(b)>>
Drag(steps) == <<Move, Down("left")>> \o [i \in 1 .. steps |-> Move] \o <<Up("left")>>
Stroke(points) == IF points = 0 THEN <<>> ELSE Drag(2 * (points - 1))

(* Keyboard: a combination with an unknown key sends nothing at all, since
   the whole plan is made first; keys are released in reverse order. A key of
   one letter that is not known is sent as a character.                    *)
PlanHotkey(keys) == [i \in DOMAIN keys |-> Down(keys[i])] \o [i \in DOMAIN keys |-> Up(Reverse(keys)[i])]
(* Mutant: keys go down before the whole plan is made. *)
MutHotkey(keys) ==
    PlanHotkey(SelectSeq(keys, LAMBDA k : k \in Key)) \o (IF \E k \in Range(keys) : k \notin Key THEN <<Down(keys[1])>> ELSE <<>>)
Hotkey(keys) == IF Range(keys) \subseteq Key THEN PlanHotkey(keys) ELSE <<>>
Press(k) == IF k \in Key THEN <<Down(k), Up(k)>> ELSE IF Len(k) = 1 THEN <<Char(k)>> ELSE <<>>

(* A text is typed by its keys, holding Shift where it must, or sent as a
   character that is on no key; a long one is pasted.                      *)
TypeKeys(t, shift) ==
    IF shift THEN <<Down("SHIFT"), Char(t), Up("SHIFT")>> ELSE <<Char(t)>>
Paste(t) == <<SetClipboard(t)>> \o Hotkey(<<"CTRL", "V">>)
TypeText(t, how) == IF how = "paste" THEN Paste(t) ELSE TypeKeys(t, how = "shift")
=============================================================================
