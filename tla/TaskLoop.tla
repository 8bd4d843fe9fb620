------------------------------ MODULE TaskLoop ------------------------------
(***************************************************************************)
(* TaskLoop.run of loop/task_loop.py and the ActionExecutor.execute it     *)
(* calls: observe, plan, act, verify, recover, for one task.  The planner, *)
(* the desktop, the clock and the people at the stop and pause buttons are *)
(* the environment and may act between any two steps of the loop.          *)
(***************************************************************************)
EXTENDS Naturals

CONSTANTS
  Kinds,        \* kinds of action a planner proposes
  NoAction,     \* last_action_type before any action
  Retryable,    \* _RETRYABLE: safe to execute again
  Draws,        \* draw without changing the element list (stroke, drag, sketch)
  MaxActions,   \* limits.max_actions_per_task
  MaxRetries,   \* limits.max_retries: bounds retries and, separately, re-plans
  MaxReasks,    \* how often an invalid or failed plan is asked for again (2)
  StallGuard,   \* stall_guard: on for a planner driven by the AI
  StallLimit    \* unchanged observations that end the task (6)

ASSUME TaskLoopAssumption ==
  /\ Retryable \subseteq Kinds /\ Draws \subseteq Kinds /\ NoAction \notin Kinds
  /\ MaxActions \in Nat /\ MaxRetries \in Nat /\ MaxReasks \in Nat
  /\ StallGuard \in BOOLEAN /\ StallLimit \in Nat \ {0}

VARIABLES
  stopped, paused,  \* what the EmergencyStop answers
  expired,          \* now() - start_mono >= max_task_seconds
  pc,               \* where run() is
  good, bad,        \* successes, failures; len(records) is their sum
  verdict,          \* completed, halted or the kind of stop_reason
  stale,            \* stale_count
  asks,             \* plan_tries
  step,             \* step.action
  attempts,         \* retries of the current plan
  replans,          \* re-plans in the current step
  result,           \* ActionResult of the last execute()
  dispatched,       \* history: actions handed to the desktop in this task
  runs,             \* history: execute() calls in this step
  repeats,          \* history: execute() calls of the current plan
  late,             \* history: execute() calls that began after the limit
  through           \* history: dispatches since the last stop() took effect

env == <<stopped, paused, expired>>
recovery == <<step, attempts, replans>>
history == <<dispatched, runs, repeats, late, through>>
counts == <<good, bad, stale, asks>>
vars == <<env, pc, counts, verdict, recovery, result, history>>

Steps == good + bad

Init ==
  /\ stopped \in BOOLEAN /\ paused \in BOOLEAN /\ expired = FALSE
  /\ pc = "top" /\ verdict = "none"
  /\ good = 0 /\ bad = 0 /\ stale = 0 /\ asks = 0
  /\ step = NoAction /\ attempts = 0 /\ replans = 0 /\ result = "none"
  /\ dispatched = 0 /\ runs = 0 /\ repeats = 0 /\ late = 0 /\ through = 0

-----------------------------------------------------------------------------
(* The environment.                                                        *)

PressStop == stopped' = TRUE /\ through' = (IF stopped THEN through ELSE 0)
             /\ UNCHANGED <<paused, expired, pc, counts, verdict, recovery, result,
                            dispatched, runs, repeats, late>>

ClearStop == stopped' = FALSE /\ paused' = FALSE /\ through' = 0
             /\ UNCHANGED <<expired, pc, counts, verdict, recovery, result,
                            dispatched, runs, repeats, late>>

PauseOrResume == paused' = ~paused
                 /\ UNCHANGED <<stopped, expired, pc, counts, verdict, recovery, result, history>>

TimeRunsOut == ~expired /\ expired' = TRUE
               /\ UNCHANGED <<stopped, paused, pc, counts, verdict, recovery, result, history>>

Environment == PressStop \/ ClearStop \/ PauseOrResume \/ TimeRunsOut

-----------------------------------------------------------------------------
(* The outer loop, up to the point where an action is to be executed.      *)

Goto(from, to) == pc = from /\ pc' = to

End(from, how) ==
  /\ Goto(from, "ended")
  /\ verdict' = how
  /\ UNCHANGED <<env, counts, recovery, result, history>>

CountLimit == Steps >= MaxActions /\ End("top", "maxActions")

TimeLimit == Steps < MaxActions /\ expired /\ End("top", "timeLimit")

EnterIteration ==
  /\ Steps < MaxActions /\ ~expired
  /\ Goto("top", "guard")
  /\ UNCHANGED <<env, counts, verdict, recovery, result, history>>

(* Mutant: the stop is looked for once, when the task starts. *)
MutLookBlind(from, to) ==
  /\ Goto(from, to)
  /\ UNCHANGED <<env, counts, verdict, recovery, result, history>>

(* estop.check(): look for a stop, then at the pause flag, and again.      *)
Look(from, to) ==
  /\ ~stopped
  /\ Goto(from, to)
  /\ UNCHANGED <<env, counts, verdict, recovery, result, history>>

StayParked(from, to) ==
  /\ paused
  /\ Goto(from, to)
  /\ UNCHANGED <<env, counts, verdict, recovery, result, history>>

HaltAtGuard == stopped /\ End("guard", "halted")

Guard == Look("guard", "guardPark") \/ StayParked("guardPark", "guard")

GuardPasses ==
  /\ ~paused
  /\ Goto("guardPark", "observe")
  /\ UNCHANGED <<env, counts, verdict, recovery, result, history>>

(* The observation looks like the last one or not; a drawing action is no  *)
(* reason to call that a stall.                                            *)
Observe ==
  /\ \E unchanged \in BOOLEAN :
       /\ Steps = 0 => ~unchanged
       /\ stale' = IF StallGuard /\ unchanged /\ step \notin Draws THEN stale + 1 ELSE 0
  /\ IF stale' >= StallLimit
     THEN Goto("observe", "ended") /\ verdict' = "stalled"
     ELSE Goto("observe", "plan") /\ verdict' = verdict
  /\ asks' = 0
  /\ UNCHANGED <<env, good, bad, recovery, result, history>>

(* An observation that cannot be written ends run() without a report.      *)
ObserveRaises ==
  /\ pc \in {"observe", "verify"}
  /\ pc' = "raised"
  /\ UNCHANGED <<env, counts, verdict, recovery, result, history>>

PlanDone == End("plan", "completed")

(* Mutant: a plan that cannot be used starts the iteration over. *)
MutPlanOver ==
  /\ Goto("plan", "observe")
  /\ UNCHANGED <<env, counts, verdict, recovery, result, history>>

PlanAgain ==
  /\ asks < MaxReasks
  /\ asks' = asks + 1
  /\ Goto("plan", "plan")
  /\ UNCHANGED <<env, good, bad, stale, verdict, recovery, result, history>>

PlanFails == asks >= MaxReasks /\ End("plan", "plannerFailed")

PlanStep ==
  /\ step' \in Kinds
  /\ attempts' = 0 /\ replans' = 0 /\ runs' = 0 /\ repeats' = 0
  /\ Goto("plan", "check")
  /\ UNCHANGED <<env, counts, verdict, result, dispatched, late, through>>

-----------------------------------------------------------------------------
(* ActionExecutor.execute: the stop guard, then policy and dispatch.       *)

Executing ==
  /\ runs' = runs + 1
  /\ repeats' = repeats + 1
  /\ late' = IF expired THEN late + 1 ELSE late

ExecuteHalted ==
  /\ stopped
  /\ Goto("check", "verify")
  /\ result' = "halted"
  /\ Executing
  /\ UNCHANGED <<env, counts, verdict, recovery, dispatched, through>>

ExecuteGuard == Look("check", "park") \/ StayParked("park", "check")

(* Denied by the policy, an unknown tool, a nested tool: nothing is sent.  *)
ExecuteBlocked ==
  /\ ~paused
  /\ Goto("park", "verify")
  /\ result' = "failure"
  /\ Executing
  /\ UNCHANGED <<env, counts, verdict, recovery, dispatched, through>>

(* A tool or command that meets a stop on its way comes back "halted".     *)
ExecuteDispatch ==
  /\ ~paused
  /\ Goto("park", "verify")
  /\ result' \in {"success", "failure"} \union (IF stopped THEN {"halted"} ELSE {})
  /\ Executing
  /\ dispatched' = dispatched + 1
  /\ through' = IF stopped THEN through + 1 ELSE through
  /\ UNCHANGED <<env, counts, verdict, recovery>>

-----------------------------------------------------------------------------
(* Verification, recovery and the record of the step.                      *)

VerifyPasses ==
  /\ result = "success"
  /\ Goto("verify", "top")
  /\ good' = good + 1
  /\ UNCHANGED <<env, bad, stale, asks, verdict, recovery, result, history>>

VerifyFails ==
  /\ Goto("verify", "recover")
  /\ UNCHANGED <<env, counts, verdict, recovery, result, history>>

(* Mutant: a failed step is recorded and the task goes on. *)
MutFailGoesOn(how) ==
  /\ Goto("recover", "top")
  /\ bad' = bad + 1
  /\ UNCHANGED <<env, good, stale, asks, verdict, recovery, result, history>>

FailStep(how) ==
  /\ Goto("recover", "ended")
  /\ bad' = bad + 1
  /\ verdict' = how
  /\ UNCHANGED <<env, good, stale, asks, recovery, result, history>>

OutOfTimeInStep == expired /\ FailStep("timeLimit")

(* Mutant: every action is retried. *)
MutRetryAny == attempts < MaxRetries

MayRetry == step \in Retryable /\ attempts < MaxRetries

(* Mutant: a retry does not look at the clock. *)
MutRetryLate ==
  /\ MayRetry
  /\ attempts' = attempts + 1
  /\ Goto("recover", "check")
  /\ UNCHANGED <<env, counts, verdict, step, replans, result, history>>

Retry ==
  /\ ~expired /\ MayRetry
  /\ attempts' = attempts + 1
  /\ Goto("recover", "check")
  /\ UNCHANGED <<env, counts, verdict, step, replans, result, history>>

(* Mutant: one re-plan too many. *)
MutReplanOneMore ==
  /\ ~expired /\ ~MayRetry /\ replans <= MaxRetries
  /\ step' \in Kinds
  /\ replans' = replans + 1
  /\ attempts' = 0
  /\ repeats' = 0
  /\ Goto("recover", "check")
  /\ UNCHANGED <<env, counts, verdict, result, dispatched, runs, late, through>>

Replan ==
  /\ ~expired /\ ~MayRetry /\ replans < MaxRetries
  /\ step' \in Kinds
  /\ replans' = replans + 1
  /\ attempts' = 0
  /\ repeats' = 0
  /\ Goto("recover", "check")
  /\ UNCHANGED <<env, counts, verdict, result, dispatched, runs, late, through>>

(* No re-plan left, or the planner has none to offer.                      *)
GiveUp == ~expired /\ ~MayRetry /\ FailStep("stepFailed")

-----------------------------------------------------------------------------
Loop ==
  \/ CountLimit \/ TimeLimit \/ EnterIteration
  \/ HaltAtGuard \/ Guard \/ GuardPasses
  \/ Observe \/ ObserveRaises
  \/ PlanDone \/ PlanAgain \/ PlanFails \/ PlanStep
  \/ ExecuteHalted \/ ExecuteGuard \/ ExecuteBlocked \/ ExecuteDispatch
  \/ VerifyPasses \/ VerifyFails
  \/ OutOfTimeInStep \/ Retry \/ Replan \/ GiveUp

Next == Loop \/ Environment

Spec == Init /\ [][Next]_vars

(* The thread of the loop is scheduled, and every call it makes (observe,  *)
(* plan, execute) returns.  Nobody has to press a button.                  *)
FairSpec == Spec /\ WF_vars(Loop)

-----------------------------------------------------------------------------
TypeOK ==
  /\ stopped \in BOOLEAN /\ paused \in BOOLEAN /\ expired \in BOOLEAN
  /\ pc \in {"top", "guard", "guardPark", "observe", "plan", "check", "park",
             "verify", "recover", "ended", "raised"}
  /\ verdict \in {"none", "completed", "halted", "maxActions", "timeLimit", "stalled",
                  "plannerFailed", "stepFailed"}
  /\ good \in Nat /\ bad \in Nat /\ stale \in Nat /\ asks \in Nat
  /\ step \in Kinds \union {NoAction} /\ attempts \in Nat /\ replans \in Nat
  /\ result \in {"none", "success", "failure", "halted"}
  /\ dispatched \in Nat /\ runs \in Nat /\ repeats \in Nat /\ late \in Nat /\ through \in Nat

(* Retries and re-plans reset one another's counters, and still an action  *)
(* that is not safe to repeat is executed once per plan, a safe one at     *)
(* most MaxRetries times more.                                             *)
UnsafeRunsOnce == repeats <= (IF step \in Retryable THEN MaxRetries + 1 ELSE 1)

(* Retrying, re-planning and retrying the new plan cannot go on: the task  *)
(* hands the desktop at most this many actions.                            *)
ActionsPerStep == (MaxRetries + 1) * (MaxRetries + 1)
BoundedWork == dispatched <= MaxActions * ActionsPerStep

(* After the wall-clock limit at most one more action is executed: the one *)
(* that was already planned or already being retried when time ran out.    *)
OneLateAction == late <= 1

(* After an emergency stop at most one more action reaches the desktop,    *)
(* the one past its guard, whatever the recovery of the step tries.        *)
StopLetsOneThrough == through <= 1

(* The report keeps the promise of TaskContract.                           *)
Contract == INSTANCE TaskContract WITH
  MaxActions <- MaxActions, stopped <- stopped, expired <- expired,
  good <- good, bad <- bad, verdict <- verdict
ReportContract == Contract!Spec

(* The task ends, unless it is held by a pause and nobody stops it.        *)
Ended == pc \in {"ended", "raised"}
Termination == (<>[](~paused) \/ <>[]stopped) => <>Ended

(* The inductive invariant: where the counters stand at each place of the *)
(* loop.                                                                   *)
InStep == pc \in {"check", "park", "verify", "recover"}
BeforeRun == pc \in {"check", "park"}
AfterRun == pc \in {"verify", "recover"}
StepCounts ==
  /\ verdict # "none" <=> pc = "ended"
  /\ bad \in {0, 1} /\ (bad = 1 => pc = "ended")
  /\ Steps <= MaxActions
  /\ pc \in {"guard", "guardPark", "observe", "plan"} \/ InStep => good < MaxActions
RecoveryCounts ==
  /\ attempts <= MaxRetries /\ replans <= MaxRetries
  /\ attempts > 0 => step \in Retryable
  /\ BeforeRun => repeats = attempts
  /\ AfterRun => repeats = attempts + 1
  /\ repeats <= attempts + 1
WorkCounts ==
  /\ BeforeRun => runs <= replans * (MaxRetries + 1) + attempts
  /\ AfterRun => runs <= replans * (MaxRetries + 1) + attempts + 1
  /\ dispatched <= CASE InStep -> good * ActionsPerStep + runs
                     [] pc = "raised" -> MaxActions * ActionsPerStep
                     [] OTHER -> Steps * ActionsPerStep
LateCounts ==
  /\ late \in {0, 1}
  /\ late = 1 => expired /\ (AfterRun \/ pc = "top" \/ Ended)
StopCounts ==
  /\ through \in {0, 1}
  /\ through = 1 => stopped /\ (AfterRun \/ pc \in {"check", "top", "guard"} \/ Ended)
LoopInv == TypeOK /\ StepCounts /\ RecoveryCounts /\ WorkCounts /\ LateCounts /\ StopCounts

=============================================================================
