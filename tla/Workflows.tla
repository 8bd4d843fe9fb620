----------------------------- MODULE Workflows ------------------------------
(***************************************************************************)
(* The scripted workflows (workflows/): browse to a page and fill a form,  *)
(* choose a file in a dialog, create a file on the desktop, and drag.  A   *)
(* workflow is a list of steps, each of them one action through the        *)
(* executor, which looks at the emergency stop and then sends the events   *)
(* of the input backend one after another.                                 *)
(*                                                                         *)
(* Meanwhile the user, other programs and other processes go on: another   *)
(* window takes the keyboard, somebody copies to the clipboard, the stop   *)
(* is set and cleared, and the process of the workflow may be ended        *)
(* between any two events.                                                 *)
(***************************************************************************)
EXTENDS InputBackend, FiniteSets

CONSTANTS Fields      \* the inputs of the form, in order

ASSUME WorkflowAssumption ==
    /\ {"CTRL", "SHIFT", "ENTER", "A", "L", "S", "V"} \subseteq Key
    /\ Fields \in Seq(STRING)

VARIABLES workflow,   \* the workflow that runs, "none" between two
          at,         \* the step it is at
          phase,      \* where it is in the step
          events,     \* the events of the action that are still to be sent
          result,     \* how the workflow ended
          held,       \* the keys and buttons that are down
          focus,      \* what the keyboard goes to
          clipboard,  \* the text on the clipboard
          disk,       \* what the file to be created holds
          halted,     \* the emergency stop
          landed,     \* history: each text that arrived, with what got it,
                      \* while the run is clean
          garbled,    \* history: a text came as a shortcut
          clean,      \* history: nobody else took the keyboard or the
                      \* clipboard, no step failed without being looked at,
                      \* and nothing was down when the workflow began
          broke,      \* history: a drag broke off, and the button is down yet
          cut         \* history: a process ended in the middle of an action

world == <<disk, halted>>
runVars == <<workflow, at, phase, events, result>>
deskVars == <<held, focus, clipboard>>
history == <<landed, garbled, clean, broke, cut>>
workflowVars == <<runVars, deskVars, world, history>>

-----------------------------------------------------------------------------
(* Steps.  What a failure means is the workflow's: it gives up ("must"),
   goes on ("try"), or had another way in mind ("else", which ends the
   workflow when it works).  find: the control is looked for first.        *)

Step(do, on, what) == [do |-> do, on |-> on, what |-> what, find |-> FALSE]
Find(do, on, what) == [do |-> do, on |-> on, what |-> what, find |-> TRUE]
Must(do, what) == Step(do, "must", what)
Try(do, what) == Step(do, "try", what)
Enter == Must("press", "ENTER")

(* Mutant: nobody asks whether the page is in front. *)
MutNavigate == <<Try("hotkey", "L"), Must("type", "url"), Enter>>
Navigate == <<Must("confirm", "page"), Try("hotkey", "L"), Must("type", "url"), Enter>>
FillField(f) == <<Find("none", "must", f), Try("click", f), Try("hotkey", "A"), Must("type", f)>>
ClickControl(on) == Find("click", on, "page")
FillForm == [i \in 1 .. 4 * Len(Fields) |->
                FillField(Fields[1 + ((i - 1) \div 4)])[1 + ((i - 1) % 4)]]
SubmitForm == Navigate \o FillForm \o <<ClickControl("else"), ClickControl("else"), Enter>>
SubmitOpenForm == FillForm \o <<Enter>>
ChooseFile == <<Find("click", "must", "name"), Try("hotkey", "A"), Must("type", "path"), Enter>>
CreateFile == <<Must("click", "desktop"), Find("click", "try", "menu"), Find("click", "must", "menu"),
                Find("click", "must", "menu"), Try("type", "filename"), Try("press", "ENTER"),
                Find("open", "must", "editor"),
                Must("type", "content"), Try("hotkey", "S"), Step("verify", "else", "content"),
                Try("hotkey", "A"), Try("type", "content"), Try("hotkey", "S"), Must("verify", "content")>>
DragDrop == <<Must("drag", "none")>>
UnknownKey == <<Must("hotkey", "HYPER")>>

Scripts == [navigate |-> Navigate, submit |-> SubmitForm, form |-> SubmitOpenForm,
            choose |-> ChooseFile, create |-> CreateFile, drag |-> DragDrop, unknown |-> UnknownKey]
Now == Scripts[workflow][at]

(* What the text of each workflow should arrive as, and at what. *)
Meant == [navigate |-> <<<<"url", "address">>>>,
          submit |-> <<<<"url", "address">>>> \o [i \in DOMAIN Fields |-> <<Fields[i], Fields[i]>>],
          form |-> [i \in DOMAIN Fields |-> <<Fields[i], Fields[i]>>],
          choose |-> <<<<"path", "name">>>>]

WorkflowInit ==
    /\ workflow = "none" /\ at = 0 /\ phase = "idle" /\ events = <<>> /\ result = "none"
    /\ held = {} /\ focus = "elsewhere" /\ clipboard = "theirs"
    /\ disk \in {"none", "other", "content"} /\ halted \in BOOLEAN
    /\ landed = <<>> /\ garbled = FALSE /\ clean = TRUE /\ broke = FALSE /\ cut = FALSE

(* After a process was ended in the middle of an action no further workflow
   is followed until the user has released what it left down.              *)
Begin(w) ==
    /\ phase = "idle" /\ ~cut
    /\ workflow' = w /\ at' = 1 /\ phase' = "step" /\ events' = <<>> /\ result' = "none"
    /\ UNCHANGED <<deskVars, world, history>>

-----------------------------------------------------------------------------
(* A step ends; a workflow ends with its last step, or early. *)

Finish(r) == phase' = "done" /\ result' = r /\ UNCHANGED at
Advance == IF at = Len(Scripts[workflow]) THEN Finish("success")
           ELSE phase' = "step" /\ at' = at + 1 /\ UNCHANGED result

Succeed == IF Now.on = "else" THEN Finish("success") ELSE Advance
Fail == IF Now.on = "must" THEN Finish("failure") ELSE Advance
Soil == clean' = FALSE /\ landed' = <<>>
Slip == IF Now.on = "try" THEN Soil ELSE UNCHANGED <<clean, landed>>

(* The control is looked for; one that is not found fails the step. A menu
   item that may be missing is no slip.                                    *)
NotFound ==
    /\ phase = "step" /\ Now.find
    /\ Fail
    /\ UNCHANGED <<workflow, events, deskVars, world, history>>

FoundOnly ==
    /\ phase = "step" /\ Now.do = "none"
    /\ Advance
    /\ UNCHANGED <<workflow, events, deskVars, world, history>>

(* ensure_foreground: ask for the window, then poll until it is in front or
   the attempts are used up.                                               *)
Confirmed ==
    /\ phase = "step" /\ Now.do = "confirm"
    /\ focus' = Now.what /\ Advance
    /\ UNCHANGED <<workflow, events, held, clipboard, world, history>>

NotConfirmed ==
    /\ phase = "step" /\ Now.do = "confirm"
    /\ Fail
    /\ UNCHANGED <<workflow, events, deskVars, world, history>>

Verify ==
    /\ phase = "step" /\ Now.do = "verify"
    /\ IF disk = Now.what THEN Succeed ELSE Fail
    /\ UNCHANGED <<workflow, events, deskVars, world, history>>

-----------------------------------------------------------------------------
(* An action: the executor's look at the stop, then its events. *)

Acts == Now.do \in {"click", "open", "hotkey", "type", "press", "drag"}

EventsOf(step) ==
    CASE step.do = "click" -> {Click("left")}
      [] step.do = "open" -> {DoubleClick("left")}
      [] step.do = "drag" -> {Drag(2), Stroke(2)}
      [] step.do = "press" -> {Press(step.what)}
      [] step.do = "hotkey" -> {Hotkey(<<"CTRL", step.what>>)}
      [] step.do = "type" -> {TypeText(step.what, how) : how \in {"keys", "shift", "paste"}}

Halt ==
    /\ phase = "step" /\ Acts /\ halted
    /\ Fail /\ Slip
    /\ UNCHANGED <<workflow, events, deskVars, world, garbled, broke, cut>>

(* The backend raises before it presses anything: a text that cannot be
   encoded, a point that is no coordinate.                                 *)
Raise ==
    /\ phase = "step" /\ Acts /\ ~halted
    /\ Fail /\ Slip
    /\ UNCHANGED <<workflow, events, deskVars, world, garbled, broke, cut>>

Dispatch ==
    /\ phase = "step" /\ Acts /\ ~halted
    /\ events' \in EventsOf(Now)
    /\ phase' = "send"
    /\ UNCHANGED <<workflow, at, result, deskVars, world, history>>

Arrive(t) == landed' = IF clean THEN Append(landed, <<t, focus>>) ELSE landed

(* What a combination does to whatever has the keyboard; what an editor that
   is told to save has in it is not followed.                              *)
Chord(k) ==
    /\ focus' = IF k = "L" /\ focus # "elsewhere" THEN "address" ELSE focus
    /\ disk' \in IF k = "S" THEN {"content", "other"} ELSE {disk}
    /\ IF k = "V" THEN Arrive(clipboard) ELSE UNCHANGED landed

Plain == UNCHANGED <<focus, disk, landed>>
Event == Head(events)

PressKey ==
    /\ Event.do = "down"
    /\ held' = held \cup {Event.key}
    /\ IF "CTRL" \in held /\ Event.key \in Key THEN Chord(Event.key) ELSE Plain
    /\ UNCHANGED <<clipboard, clean, broke>>

ReleaseKey ==
    /\ Event.do = "up"
    /\ held' = held \ {Event.key} /\ broke' = (broke /\ Event.key # "left")
    /\ focus' \in CASE Now.do = "click" -> {Now.what}
                    [] Now.do = "open" -> {Now.what, focus}
                    [] OTHER -> {focus}
    /\ UNCHANGED <<disk, landed, clipboard, clean>>

(* A character is a shortcut when more than Shift is held; a button that is
   down makes it none.                                                     *)
AsText == held \subseteq {"SHIFT", "left"}

SendChar ==
    /\ Event.do = "char"
    /\ IF AsText THEN Arrive(Event.key) ELSE UNCHANGED landed
    /\ UNCHANGED <<held, focus, disk, clipboard, clean, broke>>

MovePointer == Event.do = "move" /\ Plain /\ UNCHANGED <<held, clipboard, clean, broke>>

(* The clipboard may be held by another program: the text is then not put
   there, and nobody is told.                                              *)
CopyText ==
    /\ Event.do = "copy"
    /\ \/ clipboard' = Event.key /\ UNCHANGED <<clean, landed>>
       \/ Soil /\ UNCHANGED clipboard
    /\ UNCHANGED <<held, focus, disk, broke>>

Send ==
    /\ phase = "send" /\ events # <<>>
    /\ PressKey \/ ReleaseKey \/ SendChar \/ MovePointer \/ CopyText
    /\ garbled' = (garbled \/ (Event.do = "char" /\ ~AsText))
    /\ events' = Tail(events)
    /\ UNCHANGED <<workflow, at, phase, result, halted, cut>>

(* A drag or a stroke raises between two of its events: a duration that
   cannot be slept, a point that is no coordinate. Nothing releases the
   button it has pressed; the process goes on with a failed result.        *)
BreakOff ==
    /\ phase = "send" /\ Now.do = "drag" /\ events # <<>> /\ Event.do \in {"move", "up"}
    /\ Fail /\ Slip
    /\ events' = <<>> /\ broke' = (broke \/ "left" \in held)
    /\ UNCHANGED <<workflow, deskVars, world, garbled, cut>>

Sent ==
    /\ phase = "send" /\ events = <<>>
    /\ Succeed
    /\ UNCHANGED <<workflow, events, deskVars, world, history>>

(* The caller has the result; another command may follow. What others put on
   the clipboard in between is not followed.                               *)
Forget ==
    /\ landed' = <<>> /\ garbled' = FALSE /\ clean' = (held = {})
    /\ clipboard' = "theirs"
    /\ UNCHANGED <<held, focus, disk, halted, broke>>

Return ==
    /\ phase = "done"
    /\ workflow' = "none" /\ phase' = "idle" /\ result' = "none"
    /\ at' = 0 /\ UNCHANGED <<events, cut>>
    /\ Forget

-----------------------------------------------------------------------------
(* The process ends, by Ctrl+C or from outside, between two events. *)
Kill ==
    /\ phase \notin {"idle", "done"}
    /\ cut' = (cut \/ phase = "send")
    /\ workflow' = "none" /\ at' = 0 /\ phase' = "idle" /\ events' = <<>>
    /\ result' = "none"
    /\ Forget

(* The user lets go of what was left down. *)
Release ==
    /\ phase = "idle" /\ (cut \/ held # {})
    /\ cut' = FALSE /\ broke' = FALSE /\ held' = {} /\ clean' = TRUE
    /\ UNCHANGED <<runVars, focus, clipboard, world, landed, garbled>>

(* Another window takes the keyboard; another program uses the clipboard. *)
Distract ==
    /\ focus' = "elsewhere" /\ Soil
    /\ UNCHANGED <<runVars, held, clipboard, world, garbled, broke, cut>>

CopyElsewhere ==
    /\ clipboard' = "theirs" /\ Soil
    /\ UNCHANGED <<runVars, held, focus, world, garbled, broke, cut>>

StopChanges ==
    /\ halted' = ~halted
    /\ UNCHANGED <<runVars, deskVars, disk, history>>

Run ==
    \/ NotFound \/ FoundOnly \/ Confirmed \/ NotConfirmed \/ Verify
    \/ Halt \/ Raise \/ Dispatch \/ Send \/ BreakOff \/ Sent \/ Return

World == phase # "idle" /\ (Distract \/ CopyElsewhere \/ StopChanges)

WorkflowNext == (\E w \in DOMAIN Scripts : Begin(w)) \/ Run \/ Kill \/ Release \/ World
WorkflowSpec == WorkflowInit /\ [][WorkflowNext]_workflowVars

-----------------------------------------------------------------------------
(* Between two actions nothing is down but the left button, and that only
   after a drag or a stroke that broke off, until something releases it;
   whatever keys a combination names and wherever a stop or a failure ends
   the workflow. So no text arrives as a shortcut. Unless a process was ended
   in the middle of an action: what it pressed stays down.                   *)
KeysBalanced ==
    ~cut => /\ phase # "send" => held \subseteq IF broke THEN {"left"} ELSE {}
            /\ ~garbled

(* Success means what it says: of a file, that it holds the content; of the
   others, that each text arrived, in order, in the control it was meant for,
   if no other window or program came between, nothing was down when it began
   and no step whose result the workflow does not look at failed.            *)
ReportHonest ==
    phase = "done" /\ result = "success" =>
        /\ (workflow = "create" => disk = "content")
        /\ (workflow \in DOMAIN Meant /\ clean => landed = Meant[workflow])
=============================================================================
