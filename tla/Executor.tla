------------------------------ MODULE Executor ------------------------------
(***************************************************************************)
(* ActionExecutor.execute of actions/executor.py, shared by the threads    *)
(* that run tasks, down to the single inputs of the tools it dispatches    *)
(* to (tools/).  The desktop, the approver and the people at the stop and  *)
(* pause buttons are the environment.  check() is one step here: its inner *)
(* steps are the subject of EmergencyStop, the broker's of CliBroker.      *)
(***************************************************************************)
EXTENDS Naturals

Gestures == {"orbit", "capture_burst"}
Tools == Gestures \union
         {"create_text_file", "open_app", "open_url", "focus_window", "sketch", "drag_drop",
          "inspect_3d"}
Jobs == Tools \union {"input", "window.focus", "cli.run"}

CONSTANTS
  Workers,      \* threads that call execute()
  Proposed,     \* actions the planners propose
  Registered,   \* tools in the registry; the others are unknown to it
  Threshold,    \* policy.approval_threshold
  NoJob,        \* the action of a worker outside execute()
  PrepInputs,   \* inputs of prepare_paint (5)
  OrbitMoves,   \* moves of one orbit of inspect_3d (10)
  MaxRounds     \* looks at the stop in one tool: strokes, sub-steps, views

Low == 0  Medium == 1  High == 2

ASSUME ExecutorAssumption ==
  /\ Proposed \subseteq Jobs /\ Registered \subseteq Tools /\ NoJob \notin Jobs
  /\ Threshold \in {Low, Medium, High}
  /\ PrepInputs \in Nat \ {0} /\ OrbitMoves \in Nat \ {0} /\ MaxRounds \in Nat \ {0}

VARIABLES
  stopped, paused,  \* what the EmergencyStop answers
  dry,              \* dry_run
  inTool,           \* _in_tool
  at,               \* where each worker is in execute()
  job,              \* the action it executes; of a tool.run, the tool
  burst,            \* inputs it makes before it looks at the stop again
  rounds,           \* looks of this tool so far
  holding,          \* has it the middle button down
  outcome,          \* what it will report
  approved,         \* history: did the approver allow this action
  touched,          \* history: has this action changed anything
  through           \* history: its inputs since the stop took effect

env == <<stopped, paused, dry>>
tool == <<inTool, burst, rounds, holding>>
history == <<approved, touched, through>>
vars == <<env, tool, at, job, outcome, history>>

All(value) == [w \in Workers |-> value]

Init ==
  /\ stopped \in BOOLEAN /\ paused \in BOOLEAN /\ dry \in BOOLEAN /\ inTool = FALSE
  /\ at = All("idle") /\ job = All(NoJob) /\ burst = All(0) /\ rounds = All(0)
  /\ holding = All(FALSE) /\ outcome = All("ok")
  /\ approved = All(FALSE) /\ touched = All(FALSE) /\ through = All(0)

Goto(w, from, to) == at[w] = from /\ at' = [at EXCEPT ![w] = to]

Report(w, result) == outcome' = [outcome EXCEPT ![w] = result]

Clear == ~stopped /\ ~paused  \* check() returns

-----------------------------------------------------------------------------
(* execute(): the guard, the policy, the dry run and the dispatch.         *)

Begin(w) ==
  /\ Goto(w, "idle", "guard")
  /\ \E j \in Proposed : job' = [job EXCEPT ![w] = j]
  /\ UNCHANGED <<env, tool, outcome, history>>

GuardHalts(w) ==
  /\ stopped
  /\ Goto(w, "guard", "record")
  /\ Report(w, "halted")
  /\ UNCHANGED <<env, tool, job, history>>

GuardPasses(w) ==
  /\ Clear
  /\ Goto(w, "guard", "gate")
  /\ UNCHANGED <<env, tool, job, outcome, history>>

(* A tool has the risk it declares, an unknown one is HIGH.                *)
Risk(j) ==
  IF j \in Tools \ Registered THEN High
  ELSE IF j \in {"create_text_file", "open_app", "open_url", "window.focus"} THEN Medium
  ELSE Low

(* Mutant: tools are left to their own gate, as commands are. *)
MutAsksCommands(j) == j \notin Tools \union {"cli.run"} /\ Risk(j) >= Threshold

(* The broker asks for cli.run itself.                                     *)
Asks(j) == j # "cli.run" /\ Risk(j) >= Threshold

NeedsNoApproval(w) ==
  /\ ~Asks(job[w])
  /\ Goto(w, "gate", "cleared")
  /\ UNCHANGED <<env, tool, job, outcome, history>>

Ask(w) ==
  /\ Asks(job[w])
  /\ Goto(w, "gate", "asking")
  /\ UNCHANGED <<env, tool, job, outcome, history>>

Approve(w) ==
  /\ Goto(w, "asking", "cleared")
  /\ approved' = [approved EXCEPT ![w] = TRUE]
  /\ UNCHANGED <<env, tool, job, outcome, touched, through>>

Deny(w) ==
  /\ Goto(w, "asking", "record")
  /\ Report(w, "blocked")
  /\ UNCHANGED <<env, tool, job, history>>

DryRun(w) ==
  /\ dry
  /\ Goto(w, "cleared", "record")
  /\ Report(w, "dryrun")
  /\ UNCHANGED <<env, tool, job, history>>

(* Mutant: a dry run goes on to the backend. *)
MutDispatchDry(w) ==
  /\ job[w] = "input"
  /\ Goto(w, "cleared", "touch")
  /\ burst' = [burst EXCEPT ![w] = 1]
  /\ UNCHANGED <<env, inTool, rounds, holding, job, outcome, history>>

DispatchInput(w) ==
  /\ ~dry /\ job[w] = "input"
  /\ Goto(w, "cleared", "touch")
  /\ burst' = [burst EXCEPT ![w] = 1]
  /\ UNCHANGED <<env, inTool, rounds, holding, job, outcome, history>>

(* broker.run looks at the stop first.                                     *)
DispatchCommand(w) ==
  /\ ~dry /\ job[w] = "cli.run"
  /\ Goto(w, "cleared", "look")
  /\ UNCHANGED <<env, tool, job, outcome, history>>

(* No such dispatch, no broker, no registry.                               *)
DispatchFails(w) ==
  /\ ~dry /\ job[w] # "input"
  /\ Goto(w, "cleared", "record")
  /\ Report(w, "failed")
  /\ UNCHANGED <<env, tool, job, history>>

RefuseNested(w) ==
  /\ ~dry /\ job[w] \in Tools /\ inTool
  /\ Goto(w, "cleared", "record")
  /\ Report(w, "nested")
  /\ UNCHANGED <<env, tool, job, history>>

FindNotNested(w) ==
  /\ ~dry /\ job[w] \in Tools /\ ~inTool
  /\ Goto(w, "cleared", "enter")
  /\ UNCHANGED <<env, tool, job, outcome, history>>

EnterTool(w) ==
  /\ Goto(w, "enter", "entered")
  /\ inTool' = TRUE
  /\ UNCHANGED <<env, burst, rounds, holding, job, outcome, history>>

-----------------------------------------------------------------------------
(* The tools, as sequences of looks at the stop and bursts of inputs.      *)

(* What a tool looks at first: nothing, is_stopped() only, or check().     *)
ToolStarts(w) ==
  /\ job[w] \in Registered
  /\ Goto(w, "entered", CASE job[w] \in {"create_text_file", "focus_window"} -> "touch"
                          [] job[w] = "sketch" -> "probe"
                          [] OTHER -> "look")
  /\ burst' = [burst EXCEPT ![w] = IF job[w] \in {"create_text_file", "focus_window"}
                                   THEN 1 ELSE 0]
  /\ UNCHANGED <<env, inTool, rounds, holding, job, outcome, history>>

(* prepare_paint: clear the canvas, pick a pen and a colour, in one go.    *)
ProbePasses(w) ==
  /\ ~stopped
  /\ \E n \in 0..PrepInputs :
       /\ burst' = [burst EXCEPT ![w] = n]
       /\ Goto(w, "probe", IF n > 0 THEN "touch" ELSE "look")
  /\ UNCHANGED <<env, inTool, rounds, holding, job, outcome, history>>

More(w) == rounds[w] < MaxRounds

(* Where a tool may be after a look that passed.                           *)
AfterLook(w) ==
  CASE job[w] \in Gestures /\ ~holding[w] -> {"touch", "press"}
    [] job[w] \in Gestures /\ holding[w] -> {"release"} \union (IF More(w) THEN {"touch", "look"} ELSE {})
    [] job[w] = "inspect_3d" -> {"done"} \union (IF More(w) THEN {"touch", "look", "press"} ELSE {})
    [] OTHER -> {"touch"}

(* Mutant: a tool that is under way looks at the pause only. *)
MutLookBlind(w) ==
  /\ ~paused
  /\ \E place \in AfterLook(w) :
       /\ Goto(w, "look", place)
       /\ burst' = [burst EXCEPT ![w] = IF place = "touch" THEN 1 ELSE 0]
  /\ rounds' = [rounds EXCEPT ![w] = IF More(w) THEN @ + 1 ELSE @]
  /\ UNCHANGED <<env, inTool, holding, job, outcome, history>>

LookPasses(w) ==
  /\ Clear
  /\ \E place \in AfterLook(w) :
       /\ Goto(w, "look", place)
       /\ burst' = [burst EXCEPT ![w] = IF place = "touch" THEN 1 ELSE 0]
  /\ rounds' = [rounds EXCEPT ![w] = IF More(w) THEN @ + 1 ELSE @]
  /\ UNCHANGED <<env, inTool, holding, job, outcome, history>>

(* Leave by way of the finally that releases the button.                   *)
Unwind(w) == IF holding[w] THEN "release" ELSE "done"

(* The broker raises EmergencyStopError; the tools make an error of it,    *)
(* except create_text_file, which has written its file already.            *)
Halting(j) ==
  IF j \in {"cli.run", "open_app", "open_url"} THEN "halted"
  ELSE IF j = "create_text_file" THEN "ok" ELSE "failed"

(* Mutant: the button is not released in a finally. *)
MutHaltsHolding(w) ==
  /\ stopped
  /\ Goto(w, "look", "done") \/ Goto(w, "probe", "done")
  /\ Report(w, Halting(job[w]))
  /\ UNCHANGED <<env, tool, job, history>>

(* Mutant: the wait for the end of a pause does not see a stop. *)
MutHaltsUnpaused(w) ==
  /\ stopped /\ ~paused
  /\ Goto(w, "look", Unwind(w)) \/ Goto(w, "probe", "done")
  /\ Report(w, Halting(job[w]))
  /\ UNCHANGED <<env, tool, job, history>>

LookHalts(w) ==
  /\ stopped
  /\ Goto(w, "look", Unwind(w)) \/ Goto(w, "probe", "done")
  /\ Report(w, Halting(job[w]))
  /\ UNCHANGED <<env, tool, job, history>>

Input(w) ==
  /\ touched' = [touched EXCEPT ![w] = TRUE]
  /\ through' = IF stopped THEN [through EXCEPT ![w] = @ + 1] ELSE through
  /\ UNCHANGED approved

(* Where a tool may be after the last input of a burst.                    *)
AfterBurst(w) ==
  CASE job[w] = "sketch" -> (IF rounds[w] > 0 THEN {"done"} ELSE {})
                            \union (IF More(w) THEN {"look"} ELSE {})
    [] job[w] \in Gestures -> IF holding[w] THEN {"look"} ELSE {"press"}
    [] job[w] = "inspect_3d" -> IF holding[w] THEN {"release"} ELSE {"look"}
    [] job[w] = "create_text_file" /\ rounds[w] = 0 -> {"look"}
    [] OTHER -> {"done"}

(* A stroke, a click, a key, the start of a program, a file.               *)
Touch(w) ==
  /\ \E place \in IF burst[w] > 1 THEN {"touch"} ELSE AfterBurst(w) : Goto(w, "touch", place)
  /\ burst' = [burst EXCEPT ![w] = @ - 1]
  /\ Input(w)
  /\ UNCHANGED <<env, inTool, rounds, holding, job, outcome>>

(* Middle button down: orbit looks at the stop between its moves,          *)
(* inspect_3d makes all of them.                                           *)
Press(w) ==
  /\ Goto(w, "press", IF job[w] = "inspect_3d" THEN "touch" ELSE "look")
  /\ burst' = [burst EXCEPT ![w] = IF job[w] = "inspect_3d" THEN OrbitMoves ELSE 0]
  /\ holding' = [holding EXCEPT ![w] = TRUE]
  /\ Input(w)
  /\ UNCHANGED <<env, inTool, rounds, job, outcome>>

Release(w) ==
  /\ Goto(w, "release", IF job[w] = "inspect_3d" /\ outcome[w] = "ok" THEN "look" ELSE "done")
  /\ holding' = [holding EXCEPT ![w] = FALSE]
  /\ UNCHANGED <<env, inTool, burst, rounds, job, outcome, history>>

(* A tool that is not registered, or arguments it refuses.                 *)
ToolRefuses(w) ==
  /\ Goto(w, "entered", "done")
  /\ Report(w, "failed")
  /\ UNCHANGED <<env, tool, job, history>>

(* No window or canvas, an app the policy denies, an input backend or a    *)
(* broker that fails.                                                      *)
Raises(w) ==
  /\ \/ Goto(w, "look", Unwind(w)) \/ Goto(w, "touch", Unwind(w))
     \/ Goto(w, "probe", "done") \/ Goto(w, "press", "done")
  /\ Report(w, "failed")
  /\ burst' = [burst EXCEPT ![w] = 0]
  /\ UNCHANGED <<env, inTool, rounds, holding, job, history>>

-----------------------------------------------------------------------------
(* execute(): the way back.                                                *)

Returns(w) ==
  /\ job[w] \notin Tools
  /\ Goto(w, "done", "record")
  /\ UNCHANGED <<env, tool, job, outcome, history>>

(* Mutant: the flag is reset after the call and not in a finally. *)
MutLeaveNoFinally(w) ==
  /\ job[w] \in Tools
  /\ Goto(w, "done", IF outcome[w] = "ok" THEN "recheck" ELSE "record")
  /\ inTool' = (inTool /\ outcome[w] # "ok")
  /\ UNCHANGED <<env, burst, rounds, holding, job, outcome, history>>

LeaveTool(w) ==
  /\ job[w] \in Tools
  /\ Goto(w, "done", IF outcome[w] = "ok" THEN "recheck" ELSE "record")
  /\ inTool' = FALSE
  /\ UNCHANGED <<env, burst, rounds, holding, job, outcome, history>>

(* Mutant: the tool's own report is believed. *)
MutRecheckNothing(w) ==
  /\ Goto(w, "recheck", "record")
  /\ UNCHANGED <<env, tool, job, outcome, history>>

Recheck(w) ==
  /\ Goto(w, "recheck", "record")
  /\ Report(w, IF stopped THEN "halted" ELSE "ok")
  /\ UNCHANGED <<env, tool, job, history>>

(* audit.record, and execute() returns its result; or the record cannot be *)
(* written and its OSError leaves execute() in the place of the result.    *)
Record(w) ==
  /\ Goto(w, "record", "idle")
  /\ job' = [job EXCEPT ![w] = NoJob]
  /\ Report(w, "ok")
  /\ rounds' = [rounds EXCEPT ![w] = 0]
  /\ approved' = [approved EXCEPT ![w] = FALSE]
  /\ touched' = [touched EXCEPT ![w] = FALSE]
  /\ UNCHANGED <<env, inTool, burst, holding, through>>

-----------------------------------------------------------------------------
PressStop ==
  /\ stopped' = TRUE
  /\ through' = IF stopped THEN through ELSE All(0)
  /\ UNCHANGED <<paused, dry, tool, at, job, outcome, approved, touched>>

ClearStop ==
  /\ stopped' = FALSE /\ paused' = FALSE /\ through' = All(0)
  /\ UNCHANGED <<dry, tool, at, job, outcome, approved, touched>>

PauseOrResume ==
  /\ paused' = ~paused
  /\ UNCHANGED <<stopped, dry, tool, at, job, outcome, history>>

Executing(w) ==
  \/ GuardHalts(w) \/ GuardPasses(w) \/ NeedsNoApproval(w) \/ Ask(w) \/ Approve(w) \/ Deny(w)
  \/ DryRun(w) \/ DispatchInput(w) \/ DispatchCommand(w) \/ DispatchFails(w)
  \/ RefuseNested(w) \/ FindNotNested(w) \/ EnterTool(w) \/ ToolStarts(w) \/ ToolRefuses(w)
  \/ ProbePasses(w) \/ LookPasses(w) \/ LookHalts(w) \/ Touch(w) \/ Press(w) \/ Release(w)
  \/ Returns(w) \/ LeaveTool(w) \/ Recheck(w) \/ Record(w)

Next ==
  \/ \E w \in Workers : Begin(w) \/ Executing(w) \/ Raises(w)
  \/ PressStop \/ ClearStop \/ PauseOrResume

Spec == Init /\ [][Next]_vars

(* Each thread is scheduled, its backend calls return and its approver     *)
(* answers.                                                                *)
FairSpec == Spec /\ \A w \in Workers : WF_vars(Executing(w))

-----------------------------------------------------------------------------
Places == {"idle", "guard", "gate", "asking", "cleared", "enter", "entered", "probe", "look",
           "touch", "press", "release", "done", "recheck", "record"}
Outcomes == {"ok", "failed", "halted", "blocked", "dryrun", "nested"}

TypeOK ==
  /\ stopped \in BOOLEAN /\ paused \in BOOLEAN /\ dry \in BOOLEAN /\ inTool \in BOOLEAN
  /\ at \in [Workers -> Places] /\ job \in [Workers -> Jobs \union {NoJob}]
  /\ burst \in [Workers -> Nat] /\ rounds \in [Workers -> 0..MaxRounds]
  /\ holding \in [Workers -> BOOLEAN] /\ outcome \in [Workers -> Outcomes]
  /\ approved \in [Workers -> BOOLEAN] /\ touched \in [Workers -> BOOLEAN]
  /\ through \in [Workers -> Nat]

(* Nothing is changed, by no input of any tool, that the policy wanted     *)
(* approved and the approver did not allow for this very action.           *)
GatedTouch ==
  \A w \in Workers :
    touched[w] /\ job[w] # "cli.run" /\ Risk(job[w]) >= Threshold => approved[w]

(* A dry run touches nothing, whatever the threads do, and an action that  *)
(* is reported as blocked, or refused as nested, has touched nothing.      *)
LeftAlone ==
  \A w \in Workers : dry \/ outcome[w] \in {"blocked", "dryrun", "nested"} => ~touched[w]

(* After an emergency stop a worker makes at most the inputs it was        *)
(* already in the middle of, over all the actions it goes on to execute.   *)
Longest == IF PrepInputs > OrbitMoves THEN PrepInputs ELSE OrbitMoves + 1
StopEndsBurst == \A w \in Workers : through[w] <= Longest

(* However a tool ends (stop, error, success), the middle button is up     *)
(* when execute() goes on, and the flag of the nesting guard is not left   *)
(* set by a worker that is gone, which would refuse every later tool.      *)
InTool(w) == at[w] \in {"entered", "probe", "look", "touch", "press", "release", "done"}
             /\ job[w] \in Tools
ButtonReleased == \A w \in Workers : holding[w] => at[w] \in {"look", "touch", "release"}
FlagFreed == inTool => \E w \in Workers : InTool(w)

(* A tool that made an input under a stop that still stands is never       *)
(* reported as done.                                                       *)
StopReported ==
  \A w \in Workers : at[w] = "record" /\ job[w] \in Tools /\ outcome[w] = "ok" => through[w] = 0

(* execute() returns, unless a pause holds it and nobody stops it.         *)
ExecuteReturns ==
  (<>[](~paused) \/ <>[]stopped) => \A w \in Workers : []<>(at[w] = "idle")

(* The inductive invariant, worker by worker: what is known of the action  *)
(* at each place, and how many inputs lie ahead before the next look.      *)
Turning == Gestures \union {"inspect_3d"}
Before == {"gate", "asking", "cleared", "enter", "entered", "probe"}
Acting == {"look", "touch", "press", "release", "done", "recheck"}
PlaceInv(w) ==
  /\ at[w] = "idle" <=> job[w] = NoJob
  /\ at[w] \in {"enter", "entered", "probe", "press", "recheck"} => job[w] \in Tools
  /\ at[w] = "press" => job[w] \in Turning
  /\ at[w] = "probe" => job[w] = "sketch"
  /\ at[w] = "touch" => burst[w] > 0
GateInv(w) ==
  at[w] \in {"cleared", "enter", "entered", "probe"} \union Acting \/ touched[w] =>
    (job[w] # "cli.run" /\ Risk(job[w]) >= Threshold => approved[w])
TouchInv(w) ==
  /\ touched[w] => at[w] \in Acting \union {"record"} /\ ~dry
  /\ at[w] \in Acting \union {"enter", "entered", "probe"} => ~dry
  /\ outcome[w] \in {"blocked", "dryrun", "nested"} => at[w] = "record" /\ ~touched[w]
StopInv(w) ==
  /\ through[w] <= Longest
  /\ through[w] > 0 => stopped /\ at[w] \notin Before
  /\ at[w] = "touch" =>
       through[w] + burst[w] + (IF job[w] \in Gestures /\ ~holding[w] THEN 1 ELSE 0) <= Longest
  /\ at[w] = "press" =>
       through[w] + (IF job[w] = "inspect_3d" THEN OrbitMoves ELSE 0) + 1 <= Longest
ButtonInv(w) ==
  holding[w] => \/ at[w] \in {"touch", "release"} /\ job[w] \in Turning
                \/ at[w] = "look" /\ job[w] \in Gestures
ReportInv(w) == at[w] = "record" /\ job[w] \in Tools /\ outcome[w] = "ok" => through[w] = 0
WorkerInv(w) ==
  PlaceInv(w) /\ GateInv(w) /\ TouchInv(w) /\ StopInv(w) /\ ButtonInv(w) /\ ReportInv(w)
ExecutorInv == TypeOK /\ FlagFreed /\ \A w \in Workers : WorkerInv(w)

=============================================================================
