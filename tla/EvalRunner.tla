----------------------------- MODULE EvalRunner -----------------------------
(***************************************************************************)
(* The evaluation runner (eval/runner.py), the oracles that judge a trial  *)
(* (eval/oracles.py), the shapes of the tasks of its suite (eval/suite.py) *)
(* and the AI tier with its step budget (eval/tierb.py).                   *)
(*                                                                         *)
(* The desktop is abstracted to the goals that hold on it: goal is the set *)
(* of tasks whose state oracle would now find what it looks for. Actions   *)
(* of a trial may reach the task's goal, a reset undoes it, and windows    *)
(* that other programs open may hide any goal at any moment.               *)
(*                                                                         *)
(* A task of the suite is a record                                         *)
(*   how      "actions", "probe", "gated", "estop" or "ai"                 *)
(*   setup, actions, reset   how many actions each list holds              *)
(*   maxSteps                how many of its actions are run               *)
(*   mode, of                its oracle: "all" or "any" of basic oracles   *)
(*                           "state", "flag" and "infeasible"              *)
(***************************************************************************)
EXTENDS Naturals, Sequences, FiniteSets

CONSTANTS Suites,      \* the lists of tasks that may be run
          Trials,      \* trials of each task
          Total,       \* the AI steps the whole run may spend
          MaxActions,  \* the AI steps one task may spend
          MaxReasks,   \* how often the loop asks again for a usable answer
          MaxReplans   \* how often the loop asks for a revised step

Basic == {"state", "flag", "infeasible"}
Shape == [how : {"actions", "probe", "gated", "estop", "ai"},
          setup : Nat, actions : Nat, reset : Nat, maxSteps : Nat,
          mode : {"all", "any"}, of : SUBSET Basic]

ASSUME EvalAssumption ==
    /\ Suites \subseteq Seq(Shape)
    /\ Trials \in Nat \ {0}
    /\ Total \in Nat /\ MaxActions \in Nat /\ MaxReasks \in Nat /\ MaxReplans \in Nat

VARIABLES suite,      \* the tasks of this run
          stopped,    \* the emergency stop
          goal,       \* the tasks whose goal holds on the desktop
          pc,         \* where the runner is
          task, trial,\* what it is at
          left,       \* actions left of the list being run
          allOk,      \* every result of that list so far is ok
          payload,    \* what the trial hands its oracle
          passed,     \* the verdict of the trial in progress
          notes,      \* the trial's notes of resets that raised
          spent,      \* the AI steps charged to the budget
          ai,         \* the AI run in progress
          results,    \* the results of the suite
          summary,    \* the summary of the task in progress
          summaries,  \* the summaries of the suite
          halted,     \* the suite's note that a stop ended it
          made,       \* history: the trial's own actions reached the goal
          clean,      \* history: the reset before the trial was carried out
          broken,     \* history: the trial's set-up failed
          late,       \* history: trials begun under the present stop
          paid,       \* history: the planner calls of charged AI runs
          charged,    \* history: the AI runs that were charged
          raised,     \* history: the AI runs that raised, which nobody charges
          lost        \* history: the steps these had begun

trialVars == <<left, allOk, payload, passed, notes>>
suiteVars == <<suite, task, trial, results, summary, summaries, halted>>
aiVars == <<spent, ai, paid, charged, raised, lost>>
history == <<made, clean, broken>>
vars == <<stopped, goal, pc, trialVars, suiteVars, aiVars, history, late>>

Tasks == DOMAIN suite
Now == suite[task]
(* The tasks that some state oracle judges. *)
Judged == {t \in Tasks : "state" \in suite[t].of}
Nothing == [ok |-> FALSE, refused |-> FALSE, flag |-> FALSE]
NoAi == [allowed |-> 0, steps |-> 0, calls |-> 0, reasks |-> 0, replans |-> 0, step |-> FALSE]
Smaller(m, n) == IF m < n THEN m ELSE n

Init ==
    /\ suite \in Suites
    /\ stopped \in BOOLEAN
    /\ goal \in SUBSET Judged
    /\ pc = "task" /\ task = 1 /\ trial = 1
    /\ left = 0 /\ allOk = TRUE /\ payload = Nothing /\ passed = FALSE /\ notes = {}
    /\ spent = 0 /\ ai = NoAi /\ paid = 0 /\ charged = 0 /\ raised = 0 /\ lost = 0
    /\ results = {} /\ summary = [trials |-> 0, passes |-> 0] /\ summaries = <<>> /\ halted = FALSE
    /\ made = FALSE /\ clean = FALSE /\ broken = FALSE /\ late = 0

-----------------------------------------------------------------------------
(* run_suite: a look at the stop before every task and before every trial.
   A look that raises is taken for one that found no stop (BlindLook before
   a trial), so a task may begin under a stop as well.                     *)

HaltBeforeTask ==
    /\ pc = "task" /\ task \in Tasks /\ stopped
    /\ halted' = TRUE /\ pc' = "ended"
    /\ UNCHANGED <<stopped, goal, suite, task, trial, results, summary, summaries, trialVars, aiVars, history, late>>

BeginTask ==
    /\ pc = "task" /\ task \in Tasks
    /\ trial' = 1 /\ summary' = [trials |-> 0, passes |-> 0]
    /\ pc' = "look"
    /\ UNCHANGED <<stopped, goal, suite, task, results, summaries, halted, trialVars, aiVars, history, late>>

Finish ==
    /\ pc = "task" /\ task \notin Tasks
    /\ pc' = "ended"
    /\ UNCHANGED <<stopped, goal, suiteVars, trialVars, aiVars, history, late>>

(* The inner loop ends; the outer loop looks at the stop again. *)
HaltBeforeTrial ==
    /\ pc = "look" /\ trial <= Trials /\ stopped
    /\ halted' = TRUE /\ pc' = "close"
    /\ UNCHANGED <<stopped, goal, suite, task, trial, results, summary, summaries, trialVars, aiVars, history, late>>

(* Mutants: a trial too many; the stop is not looked at. *)
MutLookOneMore == pc = "look" /\ trial <= Trials + 1 /\ ~stopped
MutLookPasses == pc = "look" /\ trial <= Trials
LookPasses == pc = "look" /\ trial <= Trials /\ ~stopped
PassLook ==
    /\ LookPasses
    /\ pc' = "begin"
    /\ UNCHANGED <<stopped, goal, suiteVars, trialVars, aiVars, history, late>>

BlindLook ==
    /\ pc = "look" /\ trial <= Trials
    /\ pc' = "blind"
    /\ UNCHANGED <<stopped, goal, suiteVars, trialVars, aiVars, history, late>>

CloseTask ==
    /\ \/ pc = "close"
       \/ pc = "look" /\ trial > Trials
    /\ summaries' = IF summary.trials > 0
                  THEN Append(summaries, [task |-> task, trials |-> summary.trials, passes |-> summary.passes])
                  ELSE summaries
    /\ task' = task + 1 /\ pc' = "task"
    /\ UNCHANGED <<stopped, goal, suite, trial, results, summary, halted, trialVars, aiVars, history, late>>

-----------------------------------------------------------------------------
(* Lists of actions: every action of a list is run whatever the others
   gave, and a stopped bridge gives results that are not ok.               *)

Enter(phase, n) == pc' = phase /\ left' = n /\ allOk' = TRUE

InList == pc \in {"preReset", "setup", "actions", "postReset"} /\ left > 0
Reaches == \/ UNCHANGED <<goal, made>>
           \/ ~stopped /\ goal' = goal \cup ({task} \cap Judged) /\ made' = TRUE

(* The last action of a reset that worked so far undoes the task's goal. *)
ResetActs(ok) ==
    /\ pc \in {"preReset", "postReset"} /\ UNCHANGED made
    /\ goal' = IF ok /\ allOk /\ left = 1 THEN goal \ {task} ELSE goal

ListAct(ok) ==
    /\ InList /\ (ok => ~stopped)
    /\ left' = left - 1 /\ allOk' = (allOk /\ ok)
    /\ \/ ResetActs(ok)
       \/ pc \in {"setup", "actions"} /\ Reaches
    /\ UNCHANGED <<stopped, pc, payload, passed, notes, suiteVars, aiVars, clean, broken, late>>

(* An exception out of the trial's try block: the trial fails, the reset
   after it runs all the same.                                             *)
Caught == passed' = FALSE /\ Enter("postReset", Now.reset)

RaiseInTrial ==
    /\ InList /\ pc \in {"setup", "actions"}
    /\ broken' = (broken \/ pc = "setup")
    /\ Caught
    /\ UNCHANGED <<stopped, goal, payload, notes, suiteVars, aiVars, made, clean, late>>

-----------------------------------------------------------------------------
(* run_trial *)

BeginTrial ==
    /\ pc \in {"begin", "blind"}
    /\ Enter("preReset", Now.reset)
    /\ late' = IF stopped /\ pc = "begin" THEN late + 1 ELSE late
    /\ UNCHANGED <<stopped, goal, payload, passed, notes, suiteVars, aiVars, history>>

(* _safe_reset notes a reset that raised; one whose actions merely were not
   ok it takes for done.                                                   *)
ResetRaises ==
    /\ InList /\ pc \in {"preReset", "postReset"}
    /\ notes' = notes \cup {pc}
    /\ IF pc = "preReset" THEN Enter("setup", Now.setup) ELSE Enter("record", 0)
    /\ UNCHANGED <<stopped, goal, payload, passed, suiteVars, aiVars, history, late>>

PreResetDone ==
    /\ pc = "preReset" /\ left = 0
    /\ clean' = (allOk /\ Now.reset > 0)
    /\ Enter("setup", Now.setup)
    /\ UNCHANGED <<stopped, goal, payload, passed, notes, suiteVars, aiVars, made, broken, late>>

(* Any set-up action that is not ok raises. *)
SetupFails ==
    /\ pc = "setup" /\ left = 0 /\ ~allOk
    /\ broken' = TRUE
    /\ Caught
    /\ UNCHANGED <<stopped, goal, payload, notes, suiteVars, aiVars, made, clean, late>>

(* Mutant: a set-up that failed is taken for done. *)
MutSetupDone ==
    /\ pc = "setup" /\ left = 0
    /\ broken' = ~allOk
    /\ IF Now.how = "actions" THEN Enter("actions", Smaller(Now.actions, Now.maxSteps)) ELSE Enter("probe", 0)
    /\ UNCHANGED <<stopped, goal, payload, passed, notes, suiteVars, aiVars, made, clean, late>>
SetupDone ==
    /\ pc = "setup" /\ left = 0 /\ allOk
    /\ IF Now.how = "actions" THEN Enter("actions", Smaller(Now.actions, Now.maxSteps)) ELSE Enter("probe", 0)
    /\ UNCHANGED <<stopped, goal, payload, passed, notes, suiteVars, aiVars, history, late>>

(* The payload of a task and what comes after it: the oracle. *)
Hand(p) == payload' = p /\ pc' = "oracle"

ActionsDone ==
    /\ pc = "actions" /\ left = 0
    /\ Hand([Nothing EXCEPT !.ok = allOk /\ Smaller(Now.actions, Now.maxSteps) > 0])
    /\ UNCHANGED <<stopped, goal, left, allOk, passed, notes, suiteVars, aiVars, history, late>>

-----------------------------------------------------------------------------
(* Probes. *)

InProbe == pc = "probe"

(* A probe measures, and says what it found under a flag of its own. *)
Measure ==
    /\ InProbe /\ Now.how = "probe"
    /\ \E flag, ok \in BOOLEAN : Hand([ok |-> ok, refused |-> ~ok, flag |-> flag])
    /\ UNCHANGED <<stopped, goal, left, allOk, passed, notes, suiteVars, aiVars, history, late>>

(* A gated probe measures only with its window in front; what it measures is
   no matter of what the state oracles look for.                           *)
MeasureGated ==
    /\ InProbe /\ Now.how = "gated"
    /\ \E inFront, flag \in BOOLEAN : Hand([Nothing EXCEPT !.flag = inFront /\ flag])
    /\ UNCHANGED <<stopped, goal, left, allOk, passed, notes, suiteVars, aiVars, history, late>>

(* The probe of the stop: stop, an action that must be halted, clear, an
   action that must run.                                                   *)
ProbeStops ==
    /\ InProbe /\ Now.how = "estop"
    /\ stopped' = TRUE /\ pc' = "blocked"
    /\ UNCHANGED <<goal, trialVars, suiteVars, aiVars, history, late>>

ProbeBlocked ==
    /\ pc = "blocked"
    /\ \E ok \in BOOLEAN : (ok => ~stopped) /\ payload' = [Nothing EXCEPT !.flag = ~ok]
    /\ pc' = "clearing"
    /\ UNCHANGED <<stopped, goal, left, allOk, passed, notes, suiteVars, aiVars, history, late>>

ProbeClears ==
    /\ pc = "clearing"
    /\ stopped' = FALSE /\ late' = 0 /\ pc' = "after"
    /\ UNCHANGED <<goal, trialVars, suiteVars, aiVars, history>>

ProbeAfter ==
    /\ pc = "after"
    /\ \E ok \in BOOLEAN : (ok => ~stopped) /\ Hand([Nothing EXCEPT !.flag = payload.flag /\ ok])
    /\ UNCHANGED <<stopped, goal, left, allOk, passed, notes, suiteVars, aiVars, history, late>>

(* A call of the bridge raises inside a probe. *)
ProbeRaises ==
    /\ pc \in {"probe", "blocked", "clearing", "after"} /\ Now.how # "ai"
    /\ Caught
    /\ UNCHANGED <<stopped, goal, payload, notes, suiteVars, aiVars, history, late>>

-----------------------------------------------------------------------------
(* The AI probe: one run of the task loop, within the budget. *)

Remaining == Total - spent

(* The budget is used up: the run is skipped, the trial is not. *)
AiSkips ==
    /\ InProbe /\ Now.how = "ai" /\ Remaining <= 0
    /\ Hand(Nothing)
    /\ UNCHANGED <<stopped, goal, left, allOk, passed, notes, suiteVars, aiVars, history, late>>

(* Nobody is logged in: the outcome is no steps, and no completion. *)
AiUnavailable ==
    /\ InProbe /\ Now.how = "ai" /\ Remaining > 0
    /\ charged' = charged + 1
    /\ Hand(Nothing)
    /\ UNCHANGED <<stopped, goal, left, allOk, passed, notes, suiteVars, spent, ai, paid, raised, lost, history, late>>

(* Mutant: what is left of the budget is not asked. *)
MutAllowed == MaxActions
Allowed == Smaller(MaxActions, Remaining)
AiStarts ==
    /\ InProbe /\ Now.how = "ai" /\ Remaining > 0
    /\ ai' = [NoAi EXCEPT !.allowed = Allowed]
    /\ pc' = "ai"
    /\ UNCHANGED <<stopped, goal, trialVars, suiteVars, spent, paid, charged, raised, lost, history, late>>

(* The run ends with its report: its steps are charged, and completion
   counts only without a refusal.                                          *)
AiEnds(steps, calls, completed, refused) ==
    /\ spent' = spent + steps
    /\ paid' = paid + calls /\ charged' = charged + 1 /\ ai' = NoAi
    /\ Hand([ok |-> completed /\ ~refused, refused |-> refused, flag |-> FALSE])
    /\ UNCHANGED <<left, allOk, passed, notes, raised, lost>>

Planning == pc = "ai" /\ ~ai.step
Called == [ai EXCEPT !.calls = @ + 1]

(* The step limit, and the others a loop may reach earlier: its time, no
   progress, the emergency stop.                                           *)
AiStopsShort ==
    /\ Planning
    /\ AiEnds(ai.steps, ai.calls, FALSE, FALSE)
    /\ UNCHANGED <<stopped, goal, suiteVars, history, late>>

MayPlan == Planning /\ ai.steps < ai.allowed /\ (ai.reasks = 0 => ~stopped)

AiPlans ==
    /\ MayPlan
    /\ ai' = [Called EXCEPT !.step = TRUE, !.reasks = 0, !.replans = 0]
    /\ UNCHANGED <<stopped, goal, pc, trialVars, suiteVars, spent, paid, charged, raised, lost, history, late>>

AiSaysDone ==
    /\ MayPlan
    /\ \E refused \in BOOLEAN : AiEnds(ai.steps, ai.calls + 1, TRUE, refused)
    /\ UNCHANGED <<stopped, goal, suiteVars, history, late>>

AiAsksAgain ==
    /\ MayPlan /\ ai.reasks < MaxReasks
    /\ ai' = [Called EXCEPT !.reasks = @ + 1]
    /\ UNCHANGED <<stopped, goal, pc, trialVars, suiteVars, spent, paid, charged, raised, lost, history, late>>

AiCannotDecide ==
    /\ MayPlan /\ ai.reasks = MaxReasks
    /\ AiEnds(ai.steps, ai.calls + 1, FALSE, FALSE)
    /\ UNCHANGED <<stopped, goal, suiteVars, history, late>>

AiStepWorks ==
    /\ pc = "ai" /\ ai.step /\ ~stopped
    /\ Reaches
    /\ ai' = [ai EXCEPT !.step = FALSE, !.steps = @ + 1]
    /\ UNCHANGED <<stopped, pc, trialVars, suiteVars, spent, paid, charged, raised, lost, clean, broken, late>>

AiReplans ==
    /\ pc = "ai" /\ ai.step /\ ai.replans < MaxReplans
    /\ Reaches
    /\ ai' = [Called EXCEPT !.replans = @ + 1]
    /\ UNCHANGED <<stopped, pc, trialVars, suiteVars, spent, paid, charged, raised, lost, clean, broken, late>>

(* The step fails for good: no revised step, or no more re-plans. *)
AiStepFails ==
    /\ pc = "ai" /\ ai.step
    /\ Reaches
    /\ \E asked \in 0 .. (IF ai.replans < MaxReplans THEN 1 ELSE 0) :
          AiEnds(ai.steps + 1, ai.calls + asked, FALSE, FALSE)
    /\ UNCHANGED <<stopped, suiteVars, clean, broken, late>>

(* The loop raises: nothing is charged, and the trial is not completed. *)
AiRaises ==
    /\ pc = "ai"
    /\ ai' = NoAi /\ raised' = raised + 1
    /\ lost' = lost + ai.steps + (IF ai.step THEN 1 ELSE 0)
    /\ Hand(Nothing)
    /\ UNCHANGED <<stopped, goal, left, allOk, passed, notes, suiteVars, spent, paid, charged, history, late>>

-----------------------------------------------------------------------------
(* The oracle, the reset after the trial, and the record. *)

Says(o) == CASE o = "state" -> task \in goal
             [] o = "flag" -> payload.flag
             [] o = "infeasible" -> payload.refused \/ ~payload.ok

Check == IF Now.mode = "all" THEN \A o \in Now.of : Says(o) ELSE \E o \in Now.of : Says(o)

Judge ==
    /\ pc = "oracle"
    /\ passed' = Check
    /\ Enter("postReset", Now.reset)
    /\ UNCHANGED <<stopped, goal, payload, notes, suiteVars, aiVars, history, late>>

(* An oracle asks the bridge for what it sees, which may raise. *)
OracleRaises ==
    /\ pc = "oracle" /\ "state" \in Now.of
    /\ Caught
    /\ UNCHANGED <<stopped, goal, payload, notes, suiteVars, aiVars, history, late>>

PostResetDone ==
    /\ pc = "postReset" /\ left = 0
    /\ pc' = "record"
    /\ UNCHANGED <<stopped, goal, trialVars, suiteVars, aiVars, history, late>>

(* Mutant: a pass counts once per task. *)
MutPasses == IF passed THEN 1 ELSE summary.passes
Passes == summary.passes + (IF passed THEN 1 ELSE 0)
(* The result is recorded, and nothing of the trial is left for the next. *)
Forget ==
    /\ left' = 0 /\ allOk' = TRUE /\ payload' = Nothing /\ passed' = FALSE /\ notes' = {}
    /\ made' = FALSE /\ clean' = FALSE /\ broken' = FALSE

Record ==
    /\ pc = "record"
    /\ results' = results \cup {[task |-> task, trial |-> trial, passed |-> passed]}
    /\ summary' = [trials |-> summary.trials + 1, passes |-> Passes]
    /\ trial' = trial + 1 /\ pc' = "look"
    /\ Forget
    /\ UNCHANGED <<stopped, goal, suite, task, summaries, halted, aiVars, late>>

-----------------------------------------------------------------------------
(* The rest of the world. *)

PressStop ==
    /\ stopped' = TRUE
    /\ UNCHANGED <<goal, pc, trialVars, suiteVars, aiVars, history, late>>

ClearStop ==
    /\ stopped' = FALSE /\ late' = 0
    /\ UNCHANGED <<goal, pc, trialVars, suiteVars, aiVars, history>>

(* A window comes in front, a file is removed: a goal no longer holds. *)
Hide(t) ==
    /\ goal' = goal \ {t}
    /\ UNCHANGED <<stopped, pc, trialVars, suiteVars, aiVars, history, late>>

RunSuite ==
    \/ HaltBeforeTask \/ BeginTask \/ Finish \/ HaltBeforeTrial \/ PassLook \/ BlindLook \/ CloseTask
    \/ Record

RunTrial ==
    \/ BeginTrial \/ ResetRaises \/ PreResetDone \/ SetupFails \/ SetupDone \/ ActionsDone
    \/ \E ok \in BOOLEAN : ListAct(ok)
    \/ RaiseInTrial
    \/ Measure \/ MeasureGated
    \/ ProbeStops \/ ProbeBlocked \/ ProbeClears \/ ProbeAfter \/ ProbeRaises
    \/ Judge \/ OracleRaises \/ PostResetDone

RunAi ==
    \/ AiSkips \/ AiUnavailable \/ AiStarts
    \/ AiStopsShort \/ AiPlans \/ AiSaysDone \/ AiAsksAgain \/ AiCannotDecide
    \/ AiStepWorks \/ AiReplans \/ AiStepFails \/ AiRaises

World == PressStop \/ ClearStop \/ \E t \in goal : Hide(t)

(* A run that has ended stays so. *)
Ended == pc = "ended" /\ UNCHANGED vars

Next == RunSuite \/ RunTrial \/ RunAi \/ (pc # "ended" /\ World) \/ Ended
Spec == Init /\ [][Next]_vars

-----------------------------------------------------------------------------
Of(t) == {r \in results : r.task = t}

(* Types of what the runner keeps; a list never runs past its end. *)
TypeOK ==
    /\ suite \in Suites /\ stopped \in BOOLEAN /\ allOk \in BOOLEAN /\ passed \in BOOLEAN /\ halted \in BOOLEAN
    /\ made \in BOOLEAN /\ clean \in BOOLEAN /\ broken \in BOOLEAN
    /\ goal \subseteq Judged
    /\ pc \in {"task", "look", "begin", "blind", "preReset", "setup", "actions", "probe", "blocked", "clearing",
               "after", "ai", "oracle", "postReset", "record", "close", "ended"}
    /\ task \in 1 .. (Len(suite) + 1) /\ trial \in 1 .. (Trials + 1)
    /\ pc \notin {"task", "ended"} => task \in Tasks
    /\ left \in Nat /\ spent \in Nat /\ paid \in Nat /\ charged \in Nat /\ raised \in Nat /\ lost \in Nat /\ late \in Nat
    /\ payload \in [ok : BOOLEAN, refused : BOOLEAN, flag : BOOLEAN]
    /\ notes \subseteq {"preReset", "postReset"}
    /\ ai \in [allowed : Nat, steps : Nat, calls : Nat, reasks : Nat, replans : Nat, step : BOOLEAN]
    /\ results \subseteq [task : Tasks, trial : 1 .. Trials, passed : BOOLEAN]
    /\ summary \in [trials : Nat, passes : Nat]
    /\ summaries \in Seq([task : Tasks, trials : Nat, passes : Nat])

(* The scores say what happened: every task's summary counts exactly its
   results, no trial is recorded twice or out of turn, and a suite that ends
   with a trial missing says that a stop ended it, and only then.            *)
ScoresAgree ==
    /\ \A i \in DOMAIN summaries :
          LET s == summaries[i]
          IN  /\ s.trials = Cardinality(Of(s.task))
              /\ s.passes = Cardinality({r \in Of(s.task) : r.passed})
              /\ \A j \in DOMAIN summaries : i < j => s.task < summaries[j].task
    /\ \A t \in Tasks : {r.trial : r \in Of(t)} = 1 .. Cardinality(Of(t))
    /\ pc = "ended" =>
          /\ \A r \in results : \E i \in DOMAIN summaries : summaries[i].task = r.task
          /\ halted <=> \E t \in Tasks : Cardinality(Of(t)) < Trials

(* A pass is earned: no trial passes whose set-up failed, and one that is
   judged by the state of the desktop, with a reset before it that was
   carried out, passes only if its own actions brought that state about.     *)
PassIsEarned ==
    passed => /\ ~broken
              /\ (Now.mode = "all" /\ "state" \in Now.of /\ clean => made)

(* The price of the AI tier: the budget is never exceeded by what is charged
   to it; while the planner's calls exceed the steps they are charged as, they
   do so by no more than the re-asks and re-plans each step may cost; and the
   runs that raise, which are not charged, cost at most the budget each.     *)
CallsPerStep == 1 + MaxReasks + MaxReplans
AiCallsBounded ==
    /\ spent <= Total
    /\ spent + ai.steps <= Total
    /\ ai.calls <= ai.allowed * CallsPerStep
    /\ paid <= spent * CallsPerStep + charged * (1 + MaxReasks)
    /\ lost <= raised * Total

(* Once the stop is engaged, at most the trial that was being begun runs: of
   the trials begun under a stop nobody cleared, one at most had its look at
   the stop answered.                                                        *)
StopEndsSuite == late <= 1

(* What _safe_reset promises: a failing reset is surfaced, because the trial
   after it would be judged on the state it left. So a trial that passes on a
   state it did not bring about, with a reset before it, carries a note.     *)
LeftoverIsTold ==
    pc = "record" /\ passed /\ Now.reset > 0 /\ Now.of = {"state"} /\ ~made => "preReset" \in notes
=============================================================================
