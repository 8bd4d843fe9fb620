-------------------------- MODULE EvalRunnerProofs --------------------------
(* For any suite, any number of trials and any budget: the scores count    *)
(* what happened, a pass is earned, a stop ends the suite and the AI tier  *)
(* keeps to its budget.                                                    *)
EXTENDS EvalRunner, FiniteSetTheorems, TLAPS

(* Where a trial is under way, and where it may act on the desktop.        *)
Trying == {"begin", "blind", "preReset", "setup", "actions", "probe", "blocked", "clearing", "after", "ai",
           "oracle", "postReset", "record"}
Acting == {"setup", "actions", "probe", "blocked", "clearing", "after", "ai", "oracle"}
Judging == {"postReset", "record"}

(* No more trials are begun than a task has. *)
InTurn == pc \in Trying => trial <= Trials

(* A trial begun under a stop was let through by a look before the stop. *)
LateInv ==
    /\ late \in {0, 1}
    /\ late = 1 => stopped
    /\ pc = "begin" => late = 0

(* What the histories of a trial say at each of its places: a reset that was
   carried out undid the goal, and only the trial's actions bring it back.   *)
TrialInv ==
    /\ pc \notin Judging => ~passed /\ ~broken
    /\ pc \notin Acting \cup Judging => ~clean
    /\ pc = "preReset" /\ left = 0 /\ allOk /\ Now.reset > 0 => task \notin goal
    /\ pc \in Acting /\ clean /\ ~made => task \notin goal
    /\ PassIsEarned

(* The run of the AI in progress fits what is left of the budget, and each of
   its steps has cost at most CallsPerStep calls.                            *)
RunFits ==
    /\ spent + ai.allowed <= Total
    /\ ai.steps <= ai.allowed /\ (ai.step \/ ai.reasks > 0 => ai.steps < ai.allowed)
    /\ ai.reasks <= MaxReasks /\ ai.replans <= MaxReplans
    /\ ai.step => ai.reasks = 0
    /\ ~ai.step => ai.calls <= ai.steps * CallsPerStep + ai.reasks
    /\ ai.step => ai.calls <= ai.steps * CallsPerStep + 1 + MaxReasks + ai.replans
BudgetInv ==
    /\ spent <= Total
    /\ pc # "ai" => ai = NoAi
    /\ pc = "ai" => RunFits
    /\ paid <= spent * CallsPerStep + charged * (1 + MaxReasks)
    /\ lost <= raised * Total

(* The results of task t in R, the numbers of its trials, and the passes. *)
TrialsOf(R, t) == {r \in R : r.task = t}
NumbersOf(R, t) == {r.trial : r \in TrialsOf(R, t)}
PassesOf(R, t) == {r \in R : r.task = t /\ r.passed}
(* The recorded trials of each task are numbered without a gap, and the task
   in progress has its summary up to date; the later ones have nothing.      *)
CountsInv ==
    /\ \A t \in Tasks :
          /\ IsFiniteSet(TrialsOf(results, t))
          /\ NumbersOf(results, t) = 1 .. Cardinality(TrialsOf(results, t))
          /\ (t > task \/ (t = task /\ pc \in {"task", "ended"})) => TrialsOf(results, t) = {}
    /\ pc \notin {"task", "ended"} =>
          /\ Cardinality(TrialsOf(results, task)) = trial - 1
          /\ summary = [trials |-> trial - 1, passes |-> Cardinality(PassesOf(results, task))]
(* The tasks that are closed: each with results has its summary, in order. *)
SummariesInv ==
    /\ \A i \in DOMAIN summaries :
          /\ summaries[i].task < task
          /\ summaries[i].trials = Cardinality(TrialsOf(results, summaries[i].task))
          /\ summaries[i].passes = Cardinality(PassesOf(results, summaries[i].task))
          /\ \A j \in DOMAIN summaries : i < j => summaries[i].task < summaries[j].task
    /\ \A r \in results : r.task < task => \E i \in DOMAIN summaries : summaries[i].task = r.task
(* A closed task came short of its trials exactly if a stop was noted. *)
Short(R, n) == \E t \in Tasks : t < n /\ Cardinality(TrialsOf(R, t)) < Trials
HaltedInv ==
    /\ pc \notin {"close", "ended"} => (halted <=> Short(results, task))
    /\ pc = "close" => halted /\ trial <= Trials
    /\ pc = "ended" => (halted <=> Short(results, task) \/ task \in Tasks)

EvalInv == TypeOK /\ InTurn /\ LateInv /\ TrialInv /\ BudgetInv /\ CountsInv /\ SummariesInv /\ HaltedInv

-----------------------------------------------------------------------------
(* The tasks of a suite and what their records hold. *)
LEMMA Suited ==
    ASSUME TypeOK
    PROVE  /\ Len(suite) \in Nat /\ Tasks = 1 .. Len(suite)
           /\ \A t \in Tasks : suite[t] \in Shape
<1>1. suite \in Seq(Shape)
  BY EvalAssumption DEF TypeOK
<1>2. QED  BY <1>1 DEF Tasks

LEMMA Shaped ==
    ASSUME TypeOK, task \in Tasks
    PROVE  /\ Now.setup \in Nat /\ Now.actions \in Nat /\ Now.reset \in Nat /\ Now.maxSteps \in Nat
           /\ Now.how \in {"actions", "probe", "gated", "estop", "ai"}
           /\ Smaller(Now.actions, Now.maxSteps) \in Nat
<1>1. suite[task] \in Shape
  BY Suited
<1>2. QED  BY <1>1 DEF Shape, Now, Smaller

(* A step that is not the suite's own leaves what the suite keeps as it is,
   and the place in the trial that is under way.                             *)
LEMMA TrialKeepsSuite ==
    ASSUME RunTrial \/ RunAi \/ World \/ UNCHANGED vars
    PROVE  UNCHANGED suiteVars /\ (pc' = pc \/ (pc \in Trying /\ pc' \in Trying))
<1> USE DEF Trying
<1>1. CASE RunTrial
  BY <1>1 DEF RunTrial, BeginTrial, ResetRaises, PreResetDone, SetupFails, SetupDone, ActionsDone, ListAct,
     RaiseInTrial, Measure, MeasureGated, ProbeStops, ProbeBlocked, ProbeClears, ProbeAfter, ProbeRaises,
     Judge, OracleRaises, PostResetDone, Enter, Caught, Hand, InList, InProbe
<1>2. CASE RunAi
  BY <1>2 DEF RunAi, AiSkips, AiUnavailable, AiStarts, AiStopsShort, AiPlans, AiSaysDone, AiAsksAgain,
     AiCannotDecide, AiStepWorks, AiReplans, AiStepFails, AiRaises, AiEnds, Hand, InProbe, MayPlan, Planning
<1>3. CASE World
  BY <1>3 DEF World, PressStop, ClearStop, Hide
<1>4. CASE UNCHANGED vars
  BY <1>4 DEF vars
<1>5. QED  BY <1>1, <1>2, <1>3, <1>4

(* Only the AI tier's own steps touch what it keeps, or its place. *)
LEMMA OthersKeepAi ==
    ASSUME RunSuite \/ RunTrial \/ World \/ UNCHANGED vars
    PROVE  UNCHANGED aiVars /\ (pc' = pc \/ (pc # "ai" /\ pc' # "ai"))
<1>1. CASE RunSuite
  BY <1>1 DEF RunSuite, HaltBeforeTask, BeginTask, Finish, HaltBeforeTrial, PassLook, LookPasses, BlindLook,
     CloseTask, Record
<1>2. CASE RunTrial
  BY <1>2 DEF RunTrial, BeginTrial, ResetRaises, PreResetDone, SetupFails, SetupDone, ActionsDone, ListAct,
     RaiseInTrial, Measure, MeasureGated, ProbeStops, ProbeBlocked, ProbeClears, ProbeAfter, ProbeRaises,
     Judge, OracleRaises, PostResetDone, Enter, Caught, Hand, InList, InProbe
<1>3. CASE World
  BY <1>3 DEF World, PressStop, ClearStop, Hide
<1>4. CASE UNCHANGED vars
  BY <1>4 DEF vars
<1>5. QED  BY <1>1, <1>2, <1>3, <1>4

-----------------------------------------------------------------------------
(* Types, and the trials' turns. What a trial keeps, and the AI tier: *)
TrialTyped ==
    /\ stopped \in BOOLEAN /\ allOk \in BOOLEAN /\ passed \in BOOLEAN
    /\ made \in BOOLEAN /\ clean \in BOOLEAN /\ broken \in BOOLEAN
    /\ goal \subseteq Judged
    /\ left \in Nat /\ late \in Nat
    /\ payload \in [ok : BOOLEAN, refused : BOOLEAN, flag : BOOLEAN]
    /\ notes \subseteq {"preReset", "postReset"}
AiTyped ==
    /\ spent \in Nat /\ paid \in Nat /\ charged \in Nat /\ raised \in Nat /\ lost \in Nat
    /\ ai \in [allowed : Nat, steps : Nat, calls : Nat, reasks : Nat, replans : Nat, step : BOOLEAN]

LEMMA Parts == TypeOK => TrialTyped /\ AiTyped
BY DEF TypeOK, TrialTyped, AiTyped

LEMMA StillTyped ==
    ASSUME TypeOK, RunTrial \/ RunAi \/ World \/ UNCHANGED vars, TrialTyped', AiTyped'
    PROVE  TypeOK'
<1>1. UNCHANGED suiteVars /\ (pc' = pc \/ (pc \in Trying /\ pc' \in Trying))
  BY TrialKeepsSuite
<1>2. UNCHANGED <<Tasks, Judged>>
  BY <1>1 DEF suiteVars, Tasks, Judged
<1>3. pc' \notin {"task", "ended"} => pc \notin {"task", "ended"}
  BY <1>1 DEF Trying
<1>4. QED  BY <1>1, <1>2, <1>3 DEF suiteVars, TypeOK, TrialTyped, AiTyped, Trying

LEMMA SuiteTypes == TypeOK /\ InTurn /\ RunSuite => TypeOK' /\ InTurn'
<1> SUFFICES ASSUME TypeOK, InTurn, RunSuite  PROVE TypeOK' /\ InTurn'
  OBVIOUS
<1> USE Suited, EvalAssumption DEF InTurn, Trying, trialVars, aiVars, history, suiteVars
<1>1. UNCHANGED <<suite, goal, aiVars, stopped, late>> /\ Judged' = Judged /\ Tasks' = Tasks
  BY DEF RunSuite, HaltBeforeTask, BeginTask, Finish, HaltBeforeTrial, PassLook, LookPasses, BlindLook,
     CloseTask, Record,
     Judged, Tasks
<1>2. CASE HaltBeforeTask
  BY <1>1, <1>2 DEF HaltBeforeTask, TypeOK
<1>3. CASE BeginTask
  BY <1>1, <1>3 DEF BeginTask, TypeOK
<1>4. CASE Finish
  BY <1>1, <1>4 DEF Finish, TypeOK
<1>5. CASE HaltBeforeTrial
  BY <1>1, <1>5 DEF HaltBeforeTrial, TypeOK
<1>6. CASE PassLook \/ BlindLook
  <2>1. /\ pc = "look" /\ trial <= Trials /\ pc' \in {"begin", "blind"}
        /\ UNCHANGED <<suiteVars, trialVars, history>>
    BY <1>6 DEF PassLook, LookPasses, BlindLook
  <2>2. QED  BY <1>1, <2>1 DEF TypeOK
<1>7. CASE CloseTask
  <2>1. task \in Tasks /\ task' = task + 1 /\ task' \in 1 .. (Len(suite) + 1)
    BY <1>7 DEF CloseTask, TypeOK
  <2>2. [task |-> task, trials |-> summary.trials, passes |-> summary.passes]
        \in [task : Tasks, trials : Nat, passes : Nat]
    BY <2>1 DEF TypeOK
  <2>3. summaries' \in Seq([task : Tasks, trials : Nat, passes : Nat])
    <3>1. summaries \in Seq([task : Tasks, trials : Nat, passes : Nat])
      BY DEF TypeOK
    <3>2. Append(summaries, [task |-> task, trials |-> summary.trials, passes |-> summary.passes])
          \in Seq([task : Tasks, trials : Nat, passes : Nat])
      BY <2>2, <3>1
    <3>3. QED  BY <1>7, <3>1, <3>2 DEF CloseTask
  <2>4. UNCHANGED <<trial, results, summary, halted, trialVars, history>> /\ pc' = "task"
    BY <1>7 DEF CloseTask
  <2>5. QED  BY <1>1, <2>1, <2>3, <2>4 DEF TypeOK
<1>8. CASE Record
  <2> USE <1>1, <1>8 DEF Record, Forget, Nothing
  <2>1. task \in Tasks /\ trial \in 1 .. Trials
    BY DEF TypeOK
  <2>2. results' \subseteq [task : Tasks, trial : 1 .. Trials, passed : BOOLEAN]
    BY <2>1 DEF TypeOK
  <2>3. summary' \in [trials : Nat, passes : Nat]
    BY DEF TypeOK, Passes
  <2>4. payload' \in [ok : BOOLEAN, refused : BOOLEAN, flag : BOOLEAN] /\ trial' \in 1 .. (Trials + 1)
    BY <2>1
  <2>5. QED  BY <2>1, <2>2, <2>3, <2>4 DEF TypeOK
<1>9. QED  BY <1>2, <1>3, <1>4, <1>5, <1>6, <1>7, <1>8 DEF RunSuite

LEMMA TrialTypes == TypeOK /\ RunTrial => TypeOK'
<1> SUFFICES ASSUME TypeOK, RunTrial  PROVE TypeOK'
  OBVIOUS
<1> SUFFICES TrialTyped'
  <2>1. UNCHANGED aiVars
    BY OthersKeepAi
  <2>2. AiTyped'
    BY <2>1, Parts DEF AiTyped, aiVars
  <2>3. QED  BY <2>2, StillTyped
<1>1. TrialTyped /\ UNCHANGED Judged
  BY Parts, TrialKeepsSuite DEF Judged, Tasks, suiteVars
<1>2. pc \in Trying => task \in Tasks
  BY DEF TypeOK, Trying
<1>3. pc \in Trying => Now.setup \in Nat /\ Now.reset \in Nat /\ Smaller(Now.actions, Now.maxSteps) \in Nat
  BY <1>2, Shaped
<1> USE <1>1, <1>3 DEF Trying, trialVars, history, TrialTyped
<1>4. CASE BeginTrial
  BY <1>4 DEF BeginTrial, Enter
<1>5. CASE PreResetDone
  BY <1>5 DEF PreResetDone, Enter
<1>6. CASE ResetRaises
  <2>1. left' \in Nat /\ allOk' = TRUE
    BY <1>6 DEF ResetRaises, InList, Enter
  <2>2. pc \in {"preReset", "postReset"} /\ notes' = notes \cup {pc}
    BY <1>6 DEF ResetRaises
  <2>3. UNCHANGED <<stopped, goal, payload, passed, made, clean, broken, late>>
    BY <1>6 DEF ResetRaises
  <2>4. QED  BY <2>1, <2>3, <2>2
<1>7. CASE SetupFails \/ RaiseInTrial
  BY <1>7 DEF SetupFails, RaiseInTrial, InList, Caught, Enter
<1>8. CASE SetupDone
  BY <1>8 DEF SetupDone, Enter
<1>9. CASE ActionsDone
  BY <1>9 DEF ActionsDone, Hand, Nothing
<1>10. ASSUME NEW ok \in BOOLEAN, ListAct(ok)  PROVE TrialTyped'
  <2>1. goal' \subseteq Judged /\ made' \in BOOLEAN
    BY <1>10 DEF ListAct, ResetActs, Reaches
  <2>2. left' \in Nat /\ allOk' \in BOOLEAN
    BY <1>10 DEF ListAct, InList
  <2>3. UNCHANGED <<stopped, payload, passed, notes, clean, broken, late>>
    BY <1>10 DEF ListAct
  <2>4. QED  BY <2>1, <2>2, <2>3
<1>11. CASE Measure \/ MeasureGated
  <2>1. payload' \in [ok : BOOLEAN, refused : BOOLEAN, flag : BOOLEAN]
    <3>1. CASE Measure
      <4>1. PICK flag \in BOOLEAN, ok \in BOOLEAN : payload' = [ok |-> ok, refused |-> ~ok, flag |-> flag]
        BY <3>1 DEF Measure, Hand
      <4>2. QED  BY <4>1
    <3>2. CASE MeasureGated
      <4>1. PICK inFront \in BOOLEAN, flag \in BOOLEAN :
               payload' = [Nothing EXCEPT !.flag = inFront /\ flag]
        BY <3>2 DEF MeasureGated, Hand
      <4>2. (inFront /\ flag) \in BOOLEAN
        OBVIOUS
      <4>3. QED  BY <4>1, <4>2 DEF Nothing
    <3>3. QED  BY <1>11, <3>1, <3>2
  <2>2. UNCHANGED <<stopped, goal, left, allOk, passed, notes, made, clean, broken, late>>
    BY <1>11 DEF Measure, MeasureGated
  <2>3. QED  BY <2>1, <2>2
<1>12. CASE ProbeStops
  BY <1>12 DEF ProbeStops
<1>13. CASE ProbeClears
  BY <1>13 DEF ProbeClears
<1>14. CASE ProbeBlocked \/ ProbeAfter
  BY <1>14 DEF ProbeBlocked, ProbeAfter, Hand, Nothing
<1>15. CASE ProbeRaises \/ OracleRaises
  BY <1>15 DEF ProbeRaises, OracleRaises, Caught, Enter
<1>16. CASE Judge
  <2>1. Check \in BOOLEAN
    BY DEF Check
  <2>2. QED  BY <1>16, <2>1 DEF Judge, Enter
<1>17. CASE PostResetDone
  BY <1>17 DEF PostResetDone
<1>18. QED
  BY <1>4, <1>5, <1>7, <1>8, <1>9, <1>10, <1>11, <1>12, <1>14, <1>15, <1>16, <1>17, <1>6, <1>13 DEF RunTrial

(* What is left of the budget is enough for what is allowed of it. *)
LEMMA AllowedFits ==
    ASSUME TypeOK, Remaining > 0
    PROVE  Allowed \in Nat /\ spent + Allowed <= Total
BY EvalAssumption DEF TypeOK, Allowed, Smaller, Remaining

LEMMA AiTypes == TypeOK /\ RunAi => TypeOK'
<1> SUFFICES ASSUME TypeOK, RunAi  PROVE TrialTyped' /\ AiTyped'
  BY StillTyped
<1>1. TrialTyped /\ AiTyped /\ UNCHANGED Judged
  BY Parts, TrialKeepsSuite DEF Judged, Tasks, suiteVars
<1>2. NoAi \in [allowed : Nat, steps : Nat, calls : Nat, reasks : Nat, replans : Nat, step : BOOLEAN]
  BY DEF NoAi
<1> USE <1>1 DEF trialVars, history, TrialTyped, AiTyped
<1>3. CASE AiSkips \/ AiUnavailable \/ AiRaises
  <2>1. payload' \in [ok : BOOLEAN, refused : BOOLEAN, flag : BOOLEAN]
    <3>1. Nothing \in [ok : BOOLEAN, refused : BOOLEAN, flag : BOOLEAN]
      BY DEF Nothing
    <3>2. payload' = Nothing
      BY <1>3 DEF AiSkips, AiUnavailable, AiRaises, Hand
    <3>3. QED  BY <3>1, <3>2
  <2>2. UNCHANGED <<stopped, goal, left, allOk, passed, notes, made, clean, broken, late, spent, paid>>
    BY <1>3 DEF AiSkips, AiUnavailable, AiRaises, aiVars
  <2>3. charged' \in Nat /\ (ai' = ai \/ ai' = NoAi)
    BY <1>3 DEF AiSkips, AiUnavailable, AiRaises, aiVars
  <2>4. raised' \in Nat /\ lost' \in Nat
    <3>1. ai.steps \in Nat /\ raised \in Nat /\ lost \in Nat
      OBVIOUS
    <3>2. QED  BY <1>3, <3>1 DEF AiSkips, AiUnavailable, AiRaises, aiVars
  <2>5. QED  BY <1>2, <2>1, <2>2, <2>3, <2>4
<1>4. CASE AiStarts
  <2>1. Allowed \in Nat
    BY <1>4, AllowedFits DEF AiStarts
  <2>2. QED  BY <1>4, <2>1 DEF AiStarts, NoAi
<1>5. CASE AiPlans \/ AiAsksAgain
  <2>1. ai' \in [allowed : Nat, steps : Nat, calls : Nat, reasks : Nat, replans : Nat, step : BOOLEAN]
    <3>1. Called \in [allowed : Nat, steps : Nat, calls : Nat, reasks : Nat, replans : Nat, step : BOOLEAN]
      BY DEF Called
    <3>2. CASE AiPlans
      BY <3>1, <3>2 DEF AiPlans
    <3>3. CASE AiAsksAgain
      BY <3>1, <3>3 DEF AiAsksAgain
    <3>4. QED  BY <1>5, <3>2, <3>3
  <2>2. UNCHANGED <<stopped, goal, left, allOk, payload, passed, notes, made, clean, broken, late, spent, paid, charged, raised, lost>>
    BY <1>5 DEF AiPlans, AiAsksAgain
  <2>3. QED  BY <2>1, <2>2
<1>6. CASE AiStepWorks \/ AiReplans
  <2>1. ai' \in [allowed : Nat, steps : Nat, calls : Nat, reasks : Nat, replans : Nat, step : BOOLEAN]
    <3>1. Called \in [allowed : Nat, steps : Nat, calls : Nat, reasks : Nat, replans : Nat, step : BOOLEAN]
      BY DEF Called
    <3>2. CASE AiStepWorks
      <4>1. ai' = [ai EXCEPT !.step = FALSE, !.steps = @ + 1]
        BY <3>2 DEF AiStepWorks
      <4>2. ai.steps + 1 \in Nat
        OBVIOUS
      <4>3. QED  BY <4>1, <4>2
    <3>3. CASE AiReplans
      BY <3>1, <3>3 DEF AiReplans
    <3>4. QED  BY <1>6, <3>2, <3>3
  <2>2. UNCHANGED <<stopped, left, allOk, payload, passed, notes, clean, broken, late, spent, paid, charged, raised, lost>>
    BY <1>6 DEF AiStepWorks, AiReplans
  <2>3. goal' \subseteq Judged /\ made' \in BOOLEAN
    BY <1>6 DEF AiStepWorks, AiReplans, Reaches
  <2>4. QED  BY <2>1, <2>2, <2>3
<1>7. ASSUME NEW steps \in Nat, NEW calls \in Nat, NEW completed \in BOOLEAN, NEW refused \in BOOLEAN,
             AiEnds(steps, calls, completed, refused),
             goal' \subseteq Judged, made' \in BOOLEAN, UNCHANGED <<stopped, clean, broken, late>>
      PROVE  TrialTyped' /\ AiTyped'
  BY <1>2, <1>7 DEF AiEnds, Hand
<1>8. CASE AiStopsShort
  BY <1>7, <1>8 DEF AiStopsShort
<1>9. CASE AiSaysDone
  <2>1. PICK completed \in BOOLEAN, refused \in BOOLEAN : AiEnds(ai.steps, ai.calls + 1, completed, refused)
    BY <1>9 DEF AiSaysDone
  <2>2. /\ ai.steps \in Nat /\ ai.calls + 1 \in Nat /\ UNCHANGED <<stopped, clean, broken, late>>
        /\ goal' \subseteq Judged /\ made' \in BOOLEAN
    BY <1>9 DEF AiSaysDone
  <2>3. QED  BY <1>7, <2>1, <2>2
<1>10. CASE AiCannotDecide
  <2>1. /\ ai.steps \in Nat /\ ai.calls + 1 \in Nat /\ UNCHANGED <<stopped, clean, broken, late>>
        /\ goal' \subseteq Judged /\ made' \in BOOLEAN
    BY <1>10 DEF AiCannotDecide
  <2>2. AiEnds(ai.steps, ai.calls + 1, FALSE, FALSE)
    BY <1>10 DEF AiCannotDecide
  <2>3. QED  BY <1>7, <2>1, <2>2
<1>11. CASE AiStepFails
  <2>1. PICK asked \in 0 .. 1 : AiEnds(ai.steps + 1, ai.calls + asked, FALSE, FALSE)
    <3>1. \E asked \in 0 .. (IF ai.replans < MaxReplans THEN 1 ELSE 0) :
             AiEnds(ai.steps + 1, ai.calls + asked, FALSE, FALSE)
      BY <1>11 DEF AiStepFails
    <3>2. 0 .. (IF ai.replans < MaxReplans THEN 1 ELSE 0) \subseteq 0 .. 1
      OBVIOUS
    <3>3. QED  BY <3>1, <3>2
  <2>2. ai.steps + 1 \in Nat /\ ai.calls + asked \in Nat
    OBVIOUS
  <2>3. goal' \subseteq Judged /\ made' \in BOOLEAN /\ UNCHANGED <<stopped, clean, broken, late>>
    BY <1>11 DEF AiStepFails, Reaches
  <2>4. QED  BY <1>7, <2>1, <2>3, <2>2
<1>12. QED
  BY <1>3, <1>4, <1>5, <1>6, <1>8, <1>9, <1>11, <1>10 DEF RunAi

LEMMA NextTypes == TypeOK /\ InTurn /\ [Next]_vars => TypeOK' /\ InTurn'
<1> SUFFICES ASSUME TypeOK, InTurn, [Next]_vars  PROVE TypeOK' /\ InTurn'
  OBVIOUS
<1>1. CASE RunSuite
  BY <1>1, SuiteTypes
<1>2. CASE RunTrial \/ RunAi \/ World \/ UNCHANGED vars
  <2>1. InTurn'
    BY <1>2, TrialKeepsSuite DEF InTurn, suiteVars
  <2>2. CASE World \/ UNCHANGED vars
    <3>1. AiTyped'
      BY <2>2, OthersKeepAi, Parts DEF AiTyped, aiVars
    <3>2. TrialTyped /\ UNCHANGED Judged
      BY <2>2, Parts, TrialKeepsSuite DEF Judged, Tasks, suiteVars
    <3>3. /\ UNCHANGED <<left, allOk, payload, passed, notes, made, clean, broken>>
          /\ stopped' \in BOOLEAN /\ goal' \subseteq goal /\ late' \in {0, late}
      BY <2>2, <3>2 DEF World, PressStop, ClearStop, Hide, vars, trialVars, history, TrialTyped
    <3>4. TrialTyped'
      BY <3>2, <3>3 DEF TrialTyped
    <3>5. QED  BY <2>1, <2>2, <3>1, <3>4, StillTyped
  <2>3. QED  BY <1>2, <2>1, <2>2, TrialTypes, AiTypes
<1>3. QED  BY <1>1, <1>2 DEF Next, Ended

-----------------------------------------------------------------------------
(* The stop: a trial that is about to begin was let through by a look that
   saw none, and no later look lets another through.                         *)
LEMMA NextLate == TypeOK /\ LateInv /\ [Next]_vars => LateInv'
<1> SUFFICES ASSUME TypeOK, LateInv, [Next]_vars  PROVE LateInv'
  OBVIOUS
<1>1. stopped \in BOOLEAN
  BY DEF TypeOK
<1>2. CASE PassLook
  BY <1>1, <1>2 DEF PassLook, LookPasses, LateInv
<1>3. CASE BeginTrial
  BY <1>1, <1>3 DEF BeginTrial, Enter, LateInv
<1>4. CASE ProbeStops \/ ProbeClears
  BY <1>4 DEF ProbeStops, ProbeClears, LateInv
<1>5. CASE World
  BY <1>1, <1>5 DEF World, PressStop, ClearStop, Hide, LateInv
<1>6. ASSUME UNCHANGED <<stopped, late>>, pc' # "begin" \/ pc' = pc  PROVE LateInv'
  BY <1>6 DEF LateInv
<1>7. CASE RunSuite /\ ~PassLook
  <2>1. UNCHANGED <<stopped, late>> /\ pc' # "begin"
    BY <1>7 DEF RunSuite, HaltBeforeTask, BeginTask, Finish, HaltBeforeTrial, BlindLook, CloseTask, Record
  <2>2. QED  BY <1>6, <2>1
<1>8. CASE RunTrial /\ ~BeginTrial /\ ~ProbeStops /\ ~ProbeClears
  <2>1. UNCHANGED <<stopped, late>> /\ (pc' # "begin" \/ pc' = pc)
    BY <1>8 DEF RunTrial, ResetRaises, PreResetDone, SetupFails, SetupDone, ActionsDone, ListAct, RaiseInTrial,
       Measure, MeasureGated, ProbeBlocked, ProbeAfter, ProbeRaises, Judge, OracleRaises, PostResetDone,
       Enter, Caught, Hand
  <2>2. QED  BY <1>6, <2>1
<1>9. CASE RunAi
  <2>1. UNCHANGED <<stopped, late>> /\ (pc' # "begin" \/ pc' = pc)
    BY <1>9 DEF RunAi, AiSkips, AiUnavailable, AiStarts, AiStopsShort, AiPlans, AiSaysDone, AiAsksAgain,
       AiCannotDecide, AiStepWorks, AiReplans, AiStepFails, AiRaises, AiEnds, Hand
  <2>2. QED  BY <1>6, <2>1
<1>10. CASE UNCHANGED vars
  BY <1>6, <1>10 DEF vars
<1>11. QED
  BY <1>2, <1>3, <1>4, <1>5, <1>7, <1>8, <1>9, <1>10 DEF Next, Ended

-----------------------------------------------------------------------------
(* What a trial's verdict rests on. *)
LEMMA TrialInvSuite == TypeOK /\ TrialInv /\ RunSuite => TrialInv'
<1> SUFFICES ASSUME TypeOK, TrialInv, RunSuite  PROVE TrialInv'
  OBVIOUS
<1> USE DEF Acting, Judging, TrialInv, PassIsEarned
<1>1. CASE Record
  BY <1>1 DEF Record, Forget
<1>2. CASE RunSuite /\ ~Record
  <2>1. /\ pc \notin Acting \cup Judging
        /\ pc' \notin Acting \cup Judging \cup {"preReset"}
        /\ UNCHANGED <<passed, broken, clean>>
    BY <1>2 DEF RunSuite, HaltBeforeTask, BeginTask, Finish, HaltBeforeTrial, PassLook, LookPasses, BlindLook,
       CloseTask,
       trialVars, history
  <2>2. QED  BY <2>1
<1>3. QED  BY <1>1, <1>2

(* The actions of a trial's lists: a reset undoes the goal with its last
   action if all of them were ok, set-up and task may reach it.              *)
LEMMA TrialInvList ==
    ASSUME TypeOK, TrialInv, NEW ok \in BOOLEAN, ListAct(ok)
    PROVE  TrialInv'
<1>1. task \in Tasks /\ UNCHANGED <<suite, task, pc, passed, broken, clean>> /\ Now' = Now
  BY DEF ListAct, InList, TypeOK, suiteVars, Now
<1>2. CASE pc = "preReset"
  <2>1. left' = 0 /\ allOk' => task \notin goal'
    BY <1>2 DEF ListAct, ResetActs, InList, TypeOK
  <2>2. QED  BY <1>1, <1>2, <2>1 DEF TrialInv, PassIsEarned, Acting, Judging
<1>3. CASE pc = "postReset"
  <2>1. UNCHANGED made
    BY <1>3 DEF ListAct, ResetActs
  <2>2. QED  BY <1>1, <1>3, <2>1 DEF TrialInv, PassIsEarned, Acting, Judging
<1>4. CASE pc \in {"setup", "actions"}
  <2>1. made' = TRUE \/ UNCHANGED <<goal, made>>
    BY <1>4 DEF ListAct, ResetActs, Reaches
  <2>2. QED  BY <1>1, <1>4, <2>1 DEF TrialInv, PassIsEarned, Acting, Judging
<1>5. QED  BY <1>2, <1>3, <1>4 DEF ListAct, InList

LEMMA TrialInvTrial == TypeOK /\ TrialInv /\ RunTrial => TrialInv'
<1> SUFFICES ASSUME TypeOK, TrialInv, RunTrial  PROVE TrialInv'
  OBVIOUS
<1>1. UNCHANGED <<suite, task>> /\ Now' = Now
  BY TrialKeepsSuite DEF suiteVars, Now
<1>2. pc \in Trying => Now.reset \in Nat
  BY Shaped DEF TypeOK, Trying
<1> USE <1>1 DEF Acting, Judging, TrialInv, PassIsEarned, history, trialVars
<1>3. CASE BeginTrial
  BY <1>2, <1>3 DEF BeginTrial, Enter, Trying
<1>4. CASE ResetRaises
  BY <1>4 DEF ResetRaises, InList, Enter
<1>5. CASE PreResetDone
  BY <1>5 DEF PreResetDone, Enter
<1>6. CASE SetupFails \/ RaiseInTrial \/ ProbeRaises \/ OracleRaises
  BY <1>6 DEF SetupFails, RaiseInTrial, ProbeRaises, OracleRaises, InList, Caught, Enter
<1>7. CASE SetupDone
  BY <1>7 DEF SetupDone, Enter
<1>8. CASE ActionsDone \/ Measure \/ MeasureGated \/ ProbeAfter
  <2>1. UNCHANGED <<goal, passed, made, clean, broken>> /\ pc \in Acting /\ pc' = "oracle"
    BY <1>8 DEF ActionsDone, Measure, MeasureGated, ProbeAfter, Hand, InProbe
  <2>2. QED  BY <2>1
<1>9. CASE ProbeStops \/ ProbeBlocked \/ ProbeClears
  <2>1. UNCHANGED <<goal, passed, made, clean, broken>> /\ pc \in Acting /\ pc' \in Acting
    BY <1>9 DEF ProbeStops, ProbeBlocked, ProbeClears, InProbe
  <2>2. QED  BY <2>1
<1>10. CASE Judge
  <2>1. /\ pc = "oracle" /\ pc' = "postReset" /\ passed' = Check
        /\ UNCHANGED <<goal, made, clean, broken>>
    BY <1>10 DEF Judge, Enter
  <2>2. Check /\ Now.mode = "all" /\ "state" \in Now.of => task \in goal
    BY DEF Check, Says
  <2>3. QED  BY <2>1, <2>2
<1>11. CASE PostResetDone
  BY <1>11 DEF PostResetDone
<1>12. ASSUME NEW ok \in BOOLEAN, ListAct(ok)  PROVE TrialInv'
  BY <1>12, TrialInvList
<1>13. QED
  BY <1>3, <1>4, <1>5, <1>6, <1>7, <1>8, <1>9, <1>10, <1>11, <1>12 DEF RunTrial

LEMMA NextTrialInv == TypeOK /\ TrialInv /\ [Next]_vars => TrialInv'
<1> SUFFICES ASSUME TypeOK, TrialInv, [Next]_vars  PROVE TrialInv'
  OBVIOUS
<1>1. CASE RunAi
  <2>1. UNCHANGED <<suite, task>> /\ Now' = Now
    BY <1>1, TrialKeepsSuite DEF suiteVars, Now
  <2>2. /\ pc \in Acting /\ pc' \in Acting
        /\ UNCHANGED <<passed, clean, broken>> /\ (made' = TRUE \/ UNCHANGED <<goal, made>>)
    BY <1>1 DEF RunAi, AiSkips, AiUnavailable, AiStarts, AiStopsShort, AiPlans, AiSaysDone, AiAsksAgain,
       AiCannotDecide, AiStepWorks, AiReplans, AiStepFails, AiRaises, AiEnds, Hand, InProbe, MayPlan, Planning,
       Reaches, Acting, trialVars, history
  <2>3. QED  BY <2>1, <2>2 DEF TrialInv, PassIsEarned, Acting, Judging
<1>2. CASE World \/ UNCHANGED vars
  <2>1. /\ UNCHANGED <<suite, task, pc, left, allOk, passed, made, clean, broken>> /\ goal' \subseteq goal
        /\ Now' = Now
    BY <1>2 DEF World, PressStop, ClearStop, Hide, vars, trialVars, suiteVars, history, Now
  <2>2. QED  BY <2>1 DEF TrialInv, PassIsEarned, Acting, Judging
<1>3. QED  BY <1>1, <1>2, TrialInvSuite, TrialInvTrial DEF Next, Ended

-----------------------------------------------------------------------------
(* The price of steps: what s steps may cost, and that it grows with s. *)
LEMMA Price ==
    /\ CallsPerStep \in Nat /\ CallsPerStep = 1 + MaxReasks + MaxReplans
    /\ \A s \in Nat : s * CallsPerStep \in Nat /\ (s + 1) * CallsPerStep = s * CallsPerStep + CallsPerStep
    /\ \A s, t \in Nat : (s + t) * CallsPerStep = s * CallsPerStep + t * CallsPerStep
    /\ \A s, t \in Nat : s <= t => s * CallsPerStep <= t * CallsPerStep
<1>1. CallsPerStep \in Nat /\ CallsPerStep = 1 + MaxReasks + MaxReplans
  BY EvalAssumption DEF CallsPerStep
<1>2. ASSUME NEW s \in Nat, NEW t \in Nat, NEW k \in Nat
      PROVE  /\ s * k \in Nat /\ (s + 1) * k = s * k + k
             /\ (s + t) * k = s * k + t * k
             /\ (s <= t => s * k <= t * k)
  <2>1. s * k \in Nat /\ t * k \in Nat /\ (s + 1) * k = s * k + k /\ (s + t) * k = s * k + t * k
    BY <1>2
  <2>2. ASSUME s <= t  PROVE s * k <= t * k
    <3>1. t - s \in Nat /\ (t - s) * k \in Nat /\ t * k = s * k + (t - s) * k
      BY <1>2, <2>2
    <3>2. QED  BY <2>1, <3>1
  <2>3. QED  BY <2>1, <2>2
<1>3. QED  BY <1>1, <1>2

LEMMA PaidFor ==
    \A n, m \in Nat : /\ n * (1 + MaxReasks) \in Nat
                      /\ (n + 1) * (1 + MaxReasks) = n * (1 + MaxReasks) + 1 + MaxReasks
BY EvalAssumption

(* A run that ends is charged its steps, and its calls are within their price
   and that of one step that was never taken.                                *)
LEMMA Charged ==
    ASSUME TypeOK, BudgetInv, pc = "ai",
           NEW steps \in Nat, NEW calls \in Nat, NEW completed, NEW refused,
           AiEnds(steps, calls, completed, refused),
           steps <= ai.allowed, calls <= steps * CallsPerStep + 1 + MaxReasks
    PROVE  BudgetInv'
<1>1. /\ spent' = spent + steps /\ paid' = paid + calls /\ charged' = charged + 1
      /\ ai' = NoAi /\ pc' = "oracle" /\ UNCHANGED <<raised, lost>>
  BY DEF AiEnds, Hand
<1>2. spent \in Nat /\ paid \in Nat /\ charged \in Nat /\ ai.allowed \in Nat
  BY DEF TypeOK
<1>3. spent' <= Total
  BY <1>1, <1>2, EvalAssumption DEF BudgetInv, RunFits
<1>4. paid' <= spent' * CallsPerStep + charged' * (1 + MaxReasks)
  <2>1. paid <= spent * CallsPerStep + charged * (1 + MaxReasks)
    BY DEF BudgetInv
  <2>2. spent' * CallsPerStep = spent * CallsPerStep + steps * CallsPerStep
    BY <1>1, <1>2, Price
  <2>3. charged' * (1 + MaxReasks) = charged * (1 + MaxReasks) + 1 + MaxReasks
    BY <1>1, <1>2, PaidFor
  <2>4. /\ spent * CallsPerStep \in Nat /\ steps * CallsPerStep \in Nat
        /\ charged * (1 + MaxReasks) \in Nat /\ MaxReasks \in Nat
    BY <1>2, Price, PaidFor, EvalAssumption
  <2>5. QED  BY <1>1, <1>2, <2>1, <2>2, <2>3, <2>4
<1>5. QED  BY <1>1, <1>3, <1>4 DEF BudgetInv

LEMMA BudgetRuns == TypeOK /\ BudgetInv /\ RunAi => BudgetInv'
<1> SUFFICES ASSUME TypeOK, BudgetInv, RunAi  PROVE BudgetInv'
  OBVIOUS
<1>1. /\ spent \in Nat /\ paid \in Nat /\ charged \in Nat
      /\ ai \in [allowed : Nat, steps : Nat, calls : Nat, reasks : Nat, replans : Nat, step : BOOLEAN]
  BY DEF TypeOK
<1>2. MaxReasks \in Nat /\ MaxReplans \in Nat /\ Total \in Nat
  BY EvalAssumption
<1>3. ai.steps * CallsPerStep \in Nat /\ (ai.steps + 1) * CallsPerStep = ai.steps * CallsPerStep + CallsPerStep
  BY <1>1, Price
<1>4. CASE AiSkips \/ AiUnavailable
  <2>1. UNCHANGED <<spent, paid, ai>> /\ pc # "ai" /\ pc' = "oracle" /\ (charged' = charged \/ charged' = charged + 1)
        /\ UNCHANGED <<raised, lost>>
    BY <1>4 DEF AiSkips, AiUnavailable, InProbe, Hand, aiVars
  <2>2. charged * (1 + MaxReasks) \in Nat /\ charged * (1 + MaxReasks) <= charged' * (1 + MaxReasks)
    BY <1>1, <1>2, <2>1, PaidFor
  <2>3. charged' \in Nat
    BY <1>1, <2>1
  <2>4. spent * CallsPerStep \in Nat /\ charged' * (1 + MaxReasks) \in Nat
    BY <1>1, <2>3, Price, PaidFor
  <2>5. QED  BY <1>1, <2>1, <2>2, <2>4 DEF BudgetInv
<1>5. CASE AiStarts
  <2>1. /\ Remaining > 0 /\ ai' = [NoAi EXCEPT !.allowed = Allowed] /\ pc' = "ai"
        /\ UNCHANGED <<spent, paid, charged, raised, lost>>
    BY <1>5 DEF AiStarts
  <2>2. Allowed \in Nat /\ spent + Allowed <= Total
    BY <2>1, AllowedFits
  <2>3. RunFits'
    BY <1>1, <1>2, <2>1, <2>2, Price DEF RunFits, NoAi
  <2>4. QED  BY <2>1, <2>3 DEF BudgetInv
<1> DEFINE Within == UNCHANGED <<spent, paid, charged, raised, lost>> /\ pc' = "ai" /\ RunFits'
<1>6. ASSUME Within  PROVE BudgetInv'
  BY <1>6 DEF BudgetInv
<1>7. /\ ai.allowed \in Nat /\ ai.steps \in Nat /\ ai.calls \in Nat /\ ai.reasks \in Nat /\ ai.replans \in Nat
       /\ spent \in Nat /\ CallsPerStep = 1 + MaxReasks + MaxReplans
       /\ MaxReasks \in Nat /\ MaxReplans \in Nat /\ Total \in Nat
  BY <1>1, <1>2, Price
<1>8. CASE AiPlans
  <2>1. /\ ~ai.step /\ ai.steps < ai.allowed /\ pc = "ai" /\ RunFits
        /\ ai' = [ai EXCEPT !.calls = ai.calls + 1, !.step = TRUE, !.reasks = 0, !.replans = 0]
    BY <1>8 DEF AiPlans, MayPlan, Planning, Called, BudgetInv
  <2>2. /\ ai'.allowed = ai.allowed /\ ai'.steps = ai.steps /\ ai'.calls = ai.calls + 1
        /\ ai'.step /\ ai'.reasks = 0 /\ ai'.replans = 0
        /\ UNCHANGED <<spent, paid, charged, raised, lost>> /\ pc' = "ai"
    BY <1>1, <1>8, <2>1 DEF AiPlans
  <2>3. /\ spent + ai.allowed <= Total /\ ai.reasks <= MaxReasks /\ ai.replans <= MaxReplans
        /\ ai.steps < ai.allowed /\ ai.calls <= ai.steps * CallsPerStep + ai.reasks
    BY <1>7, <2>1 DEF RunFits
  <2>4. RunFits'
    BY <1>3, <1>7, <2>2, <2>3 DEF RunFits
  <2>5. QED  BY <1>6, <2>2, <2>4
<1>9. CASE AiAsksAgain
  <2>1. /\ ~ai.step /\ ai.steps < ai.allowed /\ pc = "ai" /\ RunFits /\ ai.reasks < MaxReasks
        /\ ai' = [ai EXCEPT !.calls = ai.calls + 1, !.reasks = ai.reasks + 1]
    BY <1>9 DEF AiAsksAgain, MayPlan, Planning, Called, BudgetInv
  <2>2. /\ ai'.allowed = ai.allowed /\ ai'.steps = ai.steps /\ ai'.calls = ai.calls + 1
        /\ ~ai'.step /\ ai'.reasks = ai.reasks + 1 /\ ai'.replans = ai.replans
        /\ UNCHANGED <<spent, paid, charged, raised, lost>> /\ pc' = "ai"
    BY <1>1, <1>9, <2>1 DEF AiAsksAgain
  <2>3. /\ spent + ai.allowed <= Total /\ ai.reasks <= MaxReasks /\ ai.replans <= MaxReplans
        /\ ai.steps < ai.allowed /\ ai.calls <= ai.steps * CallsPerStep + ai.reasks /\ ai.reasks < MaxReasks
    BY <1>7, <2>1 DEF RunFits
  <2>4. RunFits'
    BY <1>3, <1>7, <2>2, <2>3 DEF RunFits
  <2>5. QED  BY <1>6, <2>2, <2>4
<1>10. CASE AiStepWorks
  <2>1. /\ ai.step /\ pc = "ai" /\ RunFits /\ ai' = [ai EXCEPT !.step = FALSE, !.steps = ai.steps + 1]
    BY <1>10 DEF AiStepWorks, BudgetInv
  <2>2. /\ ai'.allowed = ai.allowed /\ ai'.steps = ai.steps + 1 /\ ai'.calls = ai.calls
        /\ ~ai'.step /\ ai'.reasks = ai.reasks /\ ai'.replans = ai.replans
        /\ UNCHANGED <<spent, paid, charged, raised, lost>> /\ pc' = "ai"
    BY <1>1, <1>10, <2>1 DEF AiStepWorks
  <2>3. /\ spent + ai.allowed <= Total /\ ai.reasks <= MaxReasks /\ ai.replans <= MaxReplans
        /\ ai.steps < ai.allowed /\ ai.reasks = 0
        /\ ai.calls <= ai.steps * CallsPerStep + 1 + MaxReasks + ai.replans
    BY <1>7, <2>1 DEF RunFits
  <2>4. RunFits'
    BY <1>3, <1>7, <2>2, <2>3 DEF RunFits
  <2>5. QED  BY <1>6, <2>2, <2>4
<1>11. CASE AiReplans
  <2>1. /\ ai.step /\ pc = "ai" /\ RunFits /\ ai.replans < MaxReplans
        /\ ai' = [ai EXCEPT !.calls = ai.calls + 1, !.replans = ai.replans + 1]
    BY <1>11 DEF AiReplans, Called, BudgetInv
  <2>2. /\ ai'.allowed = ai.allowed /\ ai'.steps = ai.steps /\ ai'.calls = ai.calls + 1
        /\ ai'.step /\ ai'.reasks = ai.reasks /\ ai'.replans = ai.replans + 1
        /\ UNCHANGED <<spent, paid, charged, raised, lost>> /\ pc' = "ai"
    BY <1>1, <1>11, <2>1 DEF AiReplans
  <2>3. /\ spent + ai.allowed <= Total /\ ai.reasks <= MaxReasks /\ ai.replans <= MaxReplans
        /\ ai.steps < ai.allowed /\ ai.reasks = 0 /\ ai.replans < MaxReplans
        /\ ai.calls <= ai.steps * CallsPerStep + 1 + MaxReasks + ai.replans
    BY <1>7, <2>1 DEF RunFits
  <2>4. RunFits'
    BY <1>3, <1>7, <2>2, <2>3 DEF RunFits
  <2>5. QED  BY <1>6, <2>2, <2>4
<1>12. CASE AiStopsShort
  <2>1. pc = "ai" /\ ~ai.step /\ RunFits /\ AiEnds(ai.steps, ai.calls, FALSE, FALSE)
    BY <1>12 DEF AiStopsShort, Planning, BudgetInv
  <2>2. ai.steps <= ai.allowed /\ ai.calls <= ai.steps * CallsPerStep + 1 + MaxReasks
    BY <1>1, <1>2, <1>3, <2>1 DEF RunFits
  <2>3. QED  BY <1>1, <2>1, <2>2, Charged
<1>13. CASE AiSaysDone \/ AiCannotDecide
  <2>1. PICK completed, refused : AiEnds(ai.steps, ai.calls + 1, completed, refused)
    BY <1>13 DEF AiSaysDone, AiCannotDecide
  <2>2. pc = "ai" /\ ~ai.step /\ RunFits
    BY <1>13 DEF AiSaysDone, AiCannotDecide, MayPlan, Planning, BudgetInv
  <2>3. ai.steps <= ai.allowed /\ ai.calls + 1 <= ai.steps * CallsPerStep + 1 + MaxReasks /\ ai.calls + 1 \in Nat
    BY <1>1, <1>2, <1>3, <2>2 DEF RunFits
  <2>4. QED  BY <1>1, <2>1, <2>2, <2>3, Charged
<1>14. CASE AiStepFails
  <2>1. PICK asked \in 0 .. (IF ai.replans < MaxReplans THEN 1 ELSE 0) :
           AiEnds(ai.steps + 1, ai.calls + asked, FALSE, FALSE)
    BY <1>14 DEF AiStepFails
  <2>2. pc = "ai" /\ ai.step /\ RunFits
    BY <1>14 DEF AiStepFails, BudgetInv
  <2>3. asked \in Nat /\ ai.replans + asked <= MaxReplans
    BY <1>1, <1>2, <2>2 DEF RunFits
  <2>4. /\ ai.steps + 1 <= ai.allowed /\ ai.steps + 1 \in Nat /\ ai.calls + asked \in Nat
        /\ ai.calls + asked <= (ai.steps + 1) * CallsPerStep + 1 + MaxReasks
    BY <1>1, <1>2, <1>3, <2>2, <2>3, Price DEF RunFits
  <2>5. QED  BY <2>1, <2>2, <2>4, Charged
<1>15. CASE AiRaises
  <2>1. /\ pc = "ai" /\ pc' = "oracle" /\ ai' = NoAi /\ UNCHANGED <<spent, paid, charged>>
        /\ raised' = raised + 1 /\ lost' = lost + ai.steps + (IF ai.step THEN 1 ELSE 0)
    BY <1>15 DEF AiRaises, Hand
  <2>2. RunFits
    BY <2>1 DEF BudgetInv
  <2>3. ai.steps + (IF ai.step THEN 1 ELSE 0) <= Total
    BY <1>7, <2>2 DEF RunFits
  <2>4. raised' * Total = raised * Total + Total /\ raised * Total \in Nat
    BY <1>2, <2>1 DEF TypeOK
  <2>5. lost' <= raised' * Total
    <3>1. lost \in Nat /\ ai.steps \in Nat /\ lost <= raised * Total
      BY <1>7 DEF TypeOK, BudgetInv
    <3>2. QED  BY <1>2, <2>1, <2>3, <2>4, <3>1
  <2>6. QED  BY <2>1, <2>5 DEF BudgetInv
<1>16. QED
  BY <1>4, <1>5, <1>8, <1>9, <1>10, <1>11, <1>12, <1>13, <1>14, <1>15 DEF RunAi

LEMMA NextBudget == TypeOK /\ BudgetInv /\ [Next]_vars => BudgetInv'
<1> SUFFICES ASSUME TypeOK, BudgetInv, [Next]_vars  PROVE BudgetInv'
  OBVIOUS
<1>1. CASE RunSuite \/ RunTrial \/ World \/ UNCHANGED vars
  <2>1. UNCHANGED <<spent, ai, paid, charged, raised, lost>> /\ (pc' = pc \/ (pc # "ai" /\ pc' # "ai"))
    BY <1>1, OthersKeepAi DEF aiVars
  <2>2. QED  BY <2>1 DEF BudgetInv, RunFits
<1>2. QED  BY <1>1, BudgetRuns DEF Next, Ended

-----------------------------------------------------------------------------
(* The scores. One result more, of a trial that had none, is counted once. *)
LEMMA OneMore ==
    ASSUME NEW R, NEW t, NEW n \in Nat, NEW x, x.task = t, x.trial = n + 1,
           IsFiniteSet(TrialsOf(R, t)), Cardinality(TrialsOf(R, t)) = n,
           NumbersOf(R, t) = 1 .. n
    PROVE  /\ IsFiniteSet(TrialsOf(R \cup {x}, t)) /\ Cardinality(TrialsOf(R \cup {x}, t)) = n + 1
           /\ NumbersOf(R \cup {x}, t) = 1 .. (n + 1)
           /\ Cardinality(PassesOf(R \cup {x}, t)) = Cardinality(PassesOf(R, t)) + (IF x.passed THEN 1 ELSE 0)
           /\ Cardinality(PassesOf(R, t)) \in Nat
           /\ \A u : u # t => /\ TrialsOf(R \cup {x}, u) = TrialsOf(R, u)
                             /\ NumbersOf(R \cup {x}, u) = NumbersOf(R, u)
                             /\ PassesOf(R \cup {x}, u) = PassesOf(R, u)
<1>1. x \notin TrialsOf(R, t)
  <2>1. ASSUME x \in TrialsOf(R, t)  PROVE FALSE
    <3>1. x.trial \in NumbersOf(R, t)
      BY <2>1 DEF NumbersOf
    <3>2. QED  BY <3>1
  <2>2. QED  BY <2>1
<1>2. TrialsOf(R \cup {x}, t) = TrialsOf(R, t) \cup {x}
  BY DEF TrialsOf
<1>3. IsFiniteSet(TrialsOf(R \cup {x}, t)) /\ Cardinality(TrialsOf(R \cup {x}, t)) = n + 1
  <2>1. /\ IsFiniteSet(TrialsOf(R, t) \cup {x})
        /\ Cardinality(TrialsOf(R, t) \cup {x}) = Cardinality(TrialsOf(R, t)) + 1
    BY <1>1, FS_AddElement
  <2>2. QED  BY <1>2, <2>1
<1>4. NumbersOf(R \cup {x}, t) = 1 .. (n + 1)
  <2>1. NumbersOf(R \cup {x}, t) = NumbersOf(R, t) \cup {x.trial}
    BY <1>2 DEF NumbersOf
  <2>2. 1 .. (n + 1) = (1 .. n) \cup {n + 1}
    OBVIOUS
  <2>3. QED  BY <1>2, <2>1, <2>2
<1>5. IsFiniteSet(PassesOf(R, t)) /\ Cardinality(PassesOf(R, t)) \in Nat
  <2>1. PassesOf(R, t) \subseteq TrialsOf(R, t)
    BY DEF PassesOf, TrialsOf
  <2>2. QED  BY <2>1, FS_Subset, FS_CardinalityType
<1>6. Cardinality(PassesOf(R \cup {x}, t)) = Cardinality(PassesOf(R, t)) + (IF x.passed THEN 1 ELSE 0)
  <2>1. CASE x.passed
    <3>1. PassesOf(R \cup {x}, t) = PassesOf(R, t) \cup {x}
      BY <2>1 DEF PassesOf
    <3>2. x \notin PassesOf(R, t)
      BY <1>1 DEF PassesOf, TrialsOf
    <3>3. Cardinality(PassesOf(R, t) \cup {x}) = Cardinality(PassesOf(R, t)) + 1
      BY <1>5, <3>2, FS_AddElement
    <3>4. QED  BY <2>1, <3>1, <3>3
  <2>2. CASE ~x.passed
    <3>1. PassesOf(R \cup {x}, t) = PassesOf(R, t)
      BY <2>2 DEF PassesOf
    <3>2. QED  BY <1>5, <2>2, <3>1
  <2>3. QED  BY <2>1, <2>2
<1>7. ASSUME NEW u, u # t
      PROVE  /\ TrialsOf(R \cup {x}, u) = TrialsOf(R, u)
             /\ NumbersOf(R \cup {x}, u) = NumbersOf(R, u)
             /\ PassesOf(R \cup {x}, u) = PassesOf(R, u)
  <2>1. TrialsOf(R \cup {x}, u) = TrialsOf(R, u) /\ PassesOf(R \cup {x}, u) = PassesOf(R, u)
    BY <1>7 DEF TrialsOf, PassesOf
  <2>2. QED  BY <2>1 DEF NumbersOf
<1>8. QED  BY <1>3, <1>4, <1>5, <1>6, <1>7

LEMMA CountsInvSuite == TypeOK /\ InTurn /\ CountsInv /\ RunSuite => CountsInv'
<1> SUFFICES ASSUME TypeOK, InTurn, CountsInv, RunSuite  PROVE CountsInv'
  OBVIOUS
<1>1. task \in Nat /\ trial \in Nat /\ (pc \notin {"task", "ended"} => task \in Tasks) /\ suite' = suite /\ Tasks' = Tasks
  BY DEF TypeOK, Tasks, RunSuite, HaltBeforeTask, BeginTask, Finish, HaltBeforeTrial, PassLook, LookPasses, BlindLook,
     CloseTask, Record, suiteVars
<1>2. CASE HaltBeforeTask \/ Finish
  <2>1. UNCHANGED <<task, trial, results, summary>> /\ pc = "task" /\ pc' = "ended"
    BY <1>2 DEF HaltBeforeTask, Finish, suiteVars
  <2>2. QED  BY <1>1, <2>1 DEF CountsInv
<1>3. CASE BeginTask
  <2>1. /\ UNCHANGED <<task, results>> /\ pc = "task" /\ pc' = "look" /\ task \in Tasks
        /\ trial' = 1 /\ summary' = [trials |-> 0, passes |-> 0]
    BY <1>3 DEF BeginTask
  <2>2. TrialsOf(results, task) = {} /\ PassesOf(results, task) = {}
    BY <2>1 DEF CountsInv, TrialsOf, PassesOf
  <2>3. QED  BY <1>1, <2>1, <2>2, FS_EmptySet DEF CountsInv
<1>4. CASE HaltBeforeTrial \/ PassLook \/ BlindLook
  <2>1. UNCHANGED <<task, trial, results, summary>> /\ pc = "look" /\ pc' \notin {"task", "ended"}
    BY <1>4 DEF HaltBeforeTrial, PassLook, LookPasses, BlindLook, suiteVars
  <2>2. QED  BY <1>1, <2>1 DEF CountsInv
<1>5. CASE CloseTask
  <2>1. /\ UNCHANGED <<results>> /\ pc' = "task" /\ task' = task + 1
    BY <1>5 DEF CloseTask
  <2>2. Tasks \subseteq Nat
    BY Suited
  <2>3. QED  BY <1>1, <2>1, <2>2 DEF CountsInv
<1>6. CASE Record
  <2> DEFINE x == [task |-> task, trial |-> trial, passed |-> passed]
  <2>1. /\ pc = "record" /\ pc' = "look" /\ task' = task /\ trial' = trial + 1
        /\ results' = results \cup {x} /\ summary' = [trials |-> summary.trials + 1, passes |-> Passes]
        /\ passed \in BOOLEAN /\ task \in Tasks
    BY <1>1, <1>6 DEF Record, TypeOK
  <2>2. /\ IsFiniteSet(TrialsOf(results, task)) /\ Cardinality(TrialsOf(results, task)) = trial - 1
        /\ NumbersOf(results, task) = 1 .. (trial - 1)
        /\ summary = [trials |-> trial - 1, passes |-> Cardinality(PassesOf(results, task))]
    BY <2>1 DEF CountsInv
  <2>3. trial - 1 \in Nat /\ x = [task |-> task, trial |-> (trial - 1) + 1, passed |-> passed]
    BY DEF TypeOK
  <2>4. /\ IsFiniteSet(TrialsOf(results', task)) /\ Cardinality(TrialsOf(results', task)) = trial
        /\ NumbersOf(results', task) = 1 .. trial
        /\ Cardinality(PassesOf(results', task)) = Cardinality(PassesOf(results, task)) + (IF passed THEN 1 ELSE 0)
        /\ \A u : u # task => /\ TrialsOf(results', u) = TrialsOf(results, u)
                             /\ NumbersOf(results', u) = NumbersOf(results, u)
    <3> DEFINE n == trial - 1
    <3>1. n \in Nat /\ n + 1 = trial /\ x.task = task /\ x.trial = n + 1 /\ x.passed = passed
      BY <1>1, <2>3
    <3>2. /\ IsFiniteSet(TrialsOf(results, task)) /\ Cardinality(TrialsOf(results, task)) = n
          /\ NumbersOf(results, task) = 1 .. n
      BY <2>2
    <3> HIDE DEF x, n
    <3>3. /\ IsFiniteSet(TrialsOf(results \cup {x}, task)) /\ Cardinality(TrialsOf(results \cup {x}, task)) = n + 1
          /\ NumbersOf(results \cup {x}, task) = 1 .. (n + 1)
          /\ Cardinality(PassesOf(results \cup {x}, task))
                = Cardinality(PassesOf(results, task)) + (IF x.passed THEN 1 ELSE 0)
          /\ \A u : u # task => /\ TrialsOf(results \cup {x}, u) = TrialsOf(results, u)
                               /\ NumbersOf(results \cup {x}, u) = NumbersOf(results, u)
      BY <3>1, <3>2, OneMore
    <3>4. QED  BY <2>1, <3>1, <3>3
  <2>5. summary' = [trials |-> trial, passes |-> Cardinality(PassesOf(results', task))]
    <3>1. summary.trials + 1 = trial
      BY <1>1, <2>2
    <3>2. Passes = Cardinality(PassesOf(results', task))
      BY <2>2, <2>4 DEF Passes
    <3>3. QED  BY <2>1, <3>1, <3>2
  <2>6. ASSUME NEW t \in Tasks
        PROVE  /\ IsFiniteSet(TrialsOf(results', t))
               /\ NumbersOf(results', t) = 1 .. Cardinality(TrialsOf(results', t))
               /\ t > task => TrialsOf(results', t) = {}
    <3>1. CASE t = task
      BY <1>1, <2>4, <3>1
    <3>2. CASE t # task
      BY <2>4, <3>2 DEF CountsInv
    <3>3. QED  BY <3>1, <3>2
  <2> HIDE DEF x
  <2>7. trial' - 1 = trial
    BY <1>1, <2>1
  <2>8. QED  BY <1>1, <2>1, <2>4, <2>5, <2>6, <2>7 DEF CountsInv
<1>7. QED  BY <1>2, <1>3, <1>4, <1>5, <1>6 DEF RunSuite

(* The result of the task in progress is not in any summary yet. *)
LEMMA RecordKeepsClosed ==
    ASSUME Record
    PROVE  \A t : t # task => /\ TrialsOf(results', t) = TrialsOf(results, t)
                            /\ PassesOf(results', t) = PassesOf(results, t)
<1>1. results' = results \cup {[task |-> task, trial |-> trial, passed |-> passed]}
  BY DEF Record
<1>2. QED  BY <1>1 DEF TrialsOf, PassesOf

LEMMA SummariesInvSuite == TypeOK /\ CountsInv /\ SummariesInv /\ RunSuite => SummariesInv'
<1> SUFFICES ASSUME TypeOK, CountsInv, SummariesInv, RunSuite  PROVE SummariesInv'
  OBVIOUS
<1>1. /\ task \in Nat /\ summaries \in Seq([task : Tasks, trials : Nat, passes : Nat])
      /\ results \subseteq [task : Tasks, trial : 1 .. Trials, passed : BOOLEAN] /\ Tasks \subseteq Nat
  BY Suited DEF TypeOK
<1>2. (\A r \in results : r.task \in Nat) /\ (\A i \in DOMAIN summaries : summaries[i].task \in Nat)
  <2>1. ASSUME NEW S, NEW s \in Seq(S)  PROVE \A i \in DOMAIN s : s[i] \in S
    OBVIOUS
  <2>2. \A i \in DOMAIN summaries : summaries[i] \in [task : Tasks, trials : Nat, passes : Nat]
    BY <1>1, <2>1
  <2>3. QED  BY <1>1, <2>2
<1>3. CASE HaltBeforeTask \/ Finish \/ BeginTask \/ HaltBeforeTrial \/ PassLook \/ BlindLook
  <2>1. UNCHANGED <<task, results, summaries>>
    BY <1>3 DEF HaltBeforeTask, Finish, BeginTask, HaltBeforeTrial, PassLook, BlindLook, suiteVars
  <2>2. QED  BY <2>1 DEF SummariesInv
<1>4. CASE Record
  <2>1. /\ UNCHANGED <<task, summaries>>
        /\ results' = results \cup {[task |-> task, trial |-> trial, passed |-> passed]}
    BY <1>4 DEF Record
  <2>2. \A i \in DOMAIN summaries : summaries[i].task # task
    BY <1>1 DEF SummariesInv
  <2>3. \A r \in results' : r.task < task' => r \in results
    BY <1>1, <2>1
  <2>4. QED  BY <1>4, <2>1, <2>2, <2>3, RecordKeepsClosed DEF SummariesInv
<1>5. CASE CloseTask
  <2>1. task' = task + 1 /\ results' = results /\ pc \notin {"task", "ended"} /\ task \in Tasks
    BY <1>5 DEF CloseTask, TypeOK
  <2>2. /\ Cardinality(TrialsOf(results, task)) = summary.trials /\ IsFiniteSet(TrialsOf(results, task))
        /\ summary.passes = Cardinality(PassesOf(results, task)) /\ summary.trials \in Nat
    BY <2>1 DEF CountsInv, TypeOK
  <2>3. CASE summary.trials = 0
    <3>1. summaries' = summaries /\ TrialsOf(results, task) = {}
      BY <1>5, <2>2, <2>3, FS_EmptySet DEF CloseTask
    <3>2. \A r \in results : r.task # task
      BY <3>1 DEF TrialsOf
    <3>3. \A r \in results : r.task < task' => r.task < task
      BY <1>1, <1>2, <2>1, <3>2
    <3>4. \A i \in DOMAIN summaries : summaries[i].task < task'
      BY <1>1, <1>2, <2>1 DEF SummariesInv
    <3>5. QED  BY <2>1, <3>1, <3>3, <3>4 DEF SummariesInv
  <2>4. CASE summary.trials > 0
    <3> DEFINE new == [task |-> task, trials |-> summary.trials, passes |-> summary.passes]
               n == Len(summaries)
    <3>1. summaries' = Append(summaries, new)
      BY <1>5, <2>4 DEF CloseTask
    <3>2. new.task = task /\ new.trials = summary.trials /\ new.passes = summary.passes
      OBVIOUS
    <3> HIDE DEF new
    <3>3. /\ n \in Nat /\ DOMAIN summaries = 1 .. n /\ DOMAIN summaries' = 1 .. (n + 1)
          /\ summaries'[n + 1] = new /\ \A i \in 1 .. n : summaries'[i] = summaries[i]
      BY <1>1, <3>1
    <3> HIDE DEF n
    <3>4. \A i \in 1 .. n : summaries[i].task < task /\ summaries[i].task \in Nat
      BY <1>2, <3>3 DEF SummariesInv
    <3>5. ASSUME NEW i \in DOMAIN summaries'
          PROVE  /\ summaries'[i].task < task'
                 /\ summaries'[i].trials = Cardinality(TrialsOf(results, summaries'[i].task))
                 /\ summaries'[i].passes = Cardinality(PassesOf(results, summaries'[i].task))
                 /\ \A j \in DOMAIN summaries' : i < j => summaries'[i].task < summaries'[j].task
      <4>1. CASE i \in 1 .. n
        <5>1. summaries'[i].task < task'
          BY <1>1, <2>1, <3>3, <3>4, <4>1
        <5>2. /\ summaries'[i].trials = Cardinality(TrialsOf(results, summaries'[i].task))
              /\ summaries'[i].passes = Cardinality(PassesOf(results, summaries'[i].task))
          BY <3>3, <4>1 DEF SummariesInv
        <5>3. ASSUME NEW j \in DOMAIN summaries', i < j  PROVE summaries'[i].task < summaries'[j].task
          <6>1. CASE j \in 1 .. n
            BY <3>3, <4>1, <5>3, <6>1 DEF SummariesInv
          <6>2. CASE j = n + 1
            BY <3>2, <3>3, <3>4, <4>1, <6>2
          <6>3. QED  BY <3>3, <6>1, <6>2
        <5>4. QED  BY <5>1, <5>2, <5>3
      <4>2. CASE i = n + 1
        <5>1. \A j \in DOMAIN summaries' : ~(i < j)
          BY <3>3, <4>2
        <5>2. summaries'[i] = new /\ task < task'
          BY <1>1, <2>1, <3>3, <4>2
        <5>3. QED  BY <2>2, <3>2, <5>1, <5>2
      <4>3. QED  BY <3>3, <4>1, <4>2
    <3>6. ASSUME NEW r \in results', r.task < task'
          PROVE  \E i \in DOMAIN summaries' : summaries'[i].task = r.task
      <4>1. CASE r.task < task
        BY <2>1, <3>3, <3>6, <4>1 DEF SummariesInv
      <4>2. CASE r.task = task
        BY <3>2, <3>3, <4>2
      <4>3. r.task \in Nat /\ r.task < task + 1
        BY <1>2, <2>1, <3>6
      <4>4. task \in Nat
        BY <1>1
      <4>5. r.task < task \/ r.task = task
        BY ONLY <4>3, <4>4
      <4>6. QED  BY ONLY <4>1, <4>2, <4>5
    <3>7. QED  BY <2>1, <3>5, <3>6 DEF SummariesInv
  <2>5. QED  BY <2>2, <2>3, <2>4
<1>6. QED  BY <1>3, <1>4, <1>5 DEF RunSuite

LEMMA HaltedInvSuite == TypeOK /\ InTurn /\ CountsInv /\ HaltedInv /\ RunSuite => HaltedInv'
<1> SUFFICES ASSUME TypeOK, InTurn, CountsInv, HaltedInv, RunSuite  PROVE HaltedInv'
  OBVIOUS
<1>1. /\ task \in Nat /\ trial \in Nat /\ Tasks \subseteq Nat /\ halted \in BOOLEAN
      /\ (pc \notin {"task", "ended"} => task \in Tasks) /\ Trials \in Nat \ {0}
  BY Suited, EvalAssumption DEF TypeOK
<1>2. UNCHANGED suite /\ Tasks' = Tasks
  BY DEF RunSuite, HaltBeforeTask, BeginTask, Finish, HaltBeforeTrial, PassLook, LookPasses, BlindLook,
     CloseTask, Record,
     suiteVars, Tasks
<1>3. CASE HaltBeforeTask \/ Finish
  BY <1>1, <1>2, <1>3 DEF HaltBeforeTask, Finish, HaltedInv, Short, suiteVars
<1>4. CASE BeginTask \/ HaltBeforeTrial \/ PassLook \/ BlindLook
  BY <1>1, <1>2, <1>4 DEF BeginTask, HaltBeforeTrial, PassLook, LookPasses, BlindLook, HaltedInv, Short, suiteVars
<1>5. CASE Record
  <2>1. UNCHANGED <<task, halted>> /\ pc = "record" /\ pc' = "look"
    BY <1>5 DEF Record
  <2>2. Short(results, task)' <=> Short(results, task)
    BY <1>1, <1>2, <1>5, <2>1, RecordKeepsClosed DEF Short
  <2>3. QED  BY <2>1, <2>2 DEF HaltedInv
<1>6. CASE CloseTask
  <2>1. /\ task' = task + 1 /\ pc' = "task" /\ UNCHANGED <<results, halted>> /\ task \in Tasks
        /\ (pc = "close" \/ (pc = "look" /\ trial > Trials))
    BY <1>1, <1>6 DEF CloseTask
  <2>2. Cardinality(TrialsOf(results, task)) = trial - 1
    BY <2>1 DEF CountsInv
  <2>3. Short(results', task') <=> Short(results, task) \/ trial - 1 < Trials
    BY <1>1, <1>2, <2>1, <2>2 DEF Short
  <2>4. Short(results, task)' <=> Short(results, task) \/ trial - 1 < Trials
    BY <1>2, <2>3 DEF Short
  <2>5. QED  BY <1>1, <2>1, <2>4 DEF HaltedInv
<1>7. QED  BY <1>3, <1>4, <1>5, <1>6 DEF RunSuite

LEMMA NextScores == TypeOK /\ InTurn /\ CountsInv /\ SummariesInv /\ HaltedInv /\ [Next]_vars
                      => CountsInv' /\ SummariesInv' /\ HaltedInv'
<1> SUFFICES ASSUME TypeOK, InTurn, CountsInv, SummariesInv, HaltedInv, [Next]_vars
             PROVE  CountsInv' /\ SummariesInv' /\ HaltedInv'
  OBVIOUS
<1>1. CASE RunSuite
  BY <1>1, CountsInvSuite, SummariesInvSuite, HaltedInvSuite
<1>2. CASE RunTrial \/ RunAi \/ World \/ UNCHANGED vars
  <2>1. /\ UNCHANGED <<suite, task, trial, results, summary, summaries, halted>> /\ Tasks' = Tasks
        /\ (pc' = pc \/ (pc \in Trying /\ pc' \in Trying))
    BY <1>2, TrialKeepsSuite DEF suiteVars, Tasks
  <2>2. (pc \in {"task", "ended"} <=> pc' \in {"task", "ended"}) /\ (pc = "close" <=> pc' = "close")
        /\ (pc = "ended" <=> pc' = "ended")
    BY <2>1 DEF Trying
  <2>3. CountsInv' /\ SummariesInv'
    BY <2>1, <2>2 DEF CountsInv, SummariesInv
  <2>4. HaltedInv'
    BY <2>1, <2>2 DEF HaltedInv, Short
  <2>5. QED  BY <2>3, <2>4
<1>3. QED  BY <1>1, <1>2 DEF Next, Ended

-----------------------------------------------------------------------------
LEMMA InitEval == Init => EvalInv
<1> SUFFICES ASSUME Init  PROVE EvalInv
  OBVIOUS
<1>1. Len(suite) \in Nat /\ Tasks = 1 .. Len(suite)
  BY EvalAssumption DEF Init, Tasks
<1>2. Nothing \in [ok : BOOLEAN, refused : BOOLEAN, flag : BOOLEAN]
      /\ NoAi \in [allowed : Nat, steps : Nat, calls : Nat, reasks : Nat, replans : Nat, step : BOOLEAN]
  BY DEF Nothing, NoAi
<1>3. TypeOK
  <2>1. summaries \in Seq([task : Tasks, trials : Nat, passes : Nat]) /\ summary \in [trials : Nat, passes : Nat]
    BY DEF Init
  <2>2. task \in 1 .. (Len(suite) + 1) /\ trial \in 1 .. (Trials + 1)
    BY <1>1, EvalAssumption DEF Init
  <2>3. payload \in [ok : BOOLEAN, refused : BOOLEAN, flag : BOOLEAN]
        /\ ai \in [allowed : Nat, steps : Nat, calls : Nat, reasks : Nat, replans : Nat, step : BOOLEAN]
    BY <1>2 DEF Init
  <2>4. QED  BY <2>1, <2>2, <2>3 DEF Init, TypeOK
<1>4. InTurn /\ LateInv /\ TrialInv
  BY DEF Init, InTurn, Trying, LateInv, TrialInv, PassIsEarned, Acting, Judging
<1>5. BudgetInv
  BY Price, PaidFor, EvalAssumption DEF Init, BudgetInv
<1>6. CountsInv /\ SummariesInv /\ HaltedInv
  <2>1. \A t : TrialsOf({}, t) = {} /\ NumbersOf({}, t) = {}
    BY DEF TrialsOf, NumbersOf
  <2>2. results = {} /\ summaries = <<>> /\ halted = FALSE /\ task = 1 /\ pc = "task" /\ Tasks \subseteq Nat \ {0}
    BY <1>1 DEF Init
  <2>3. CountsInv
    <3>1. 1 .. 0 = {} /\ IsFiniteSet({}) /\ Cardinality({}) = 0
      BY FS_EmptySet
    <3>2. QED  BY <2>1, <2>2, <3>1 DEF CountsInv
  <2>4. SummariesInv /\ HaltedInv
    BY <2>2 DEF SummariesInv, HaltedInv, Short
  <2>5. QED  BY <2>3, <2>4
<1>7. QED  BY <1>3, <1>4, <1>5, <1>6 DEF EvalInv

(* The parts hold together in every state of the run: its inductive
   invariant.                                                               *)
THEOREM EvalInvariant == Spec => []EvalInv
<1>1. EvalInv /\ [Next]_vars => EvalInv'
  BY NextTypes, NextLate, NextTrialInv, NextBudget, NextScores DEF EvalInv
<1>2. QED  BY InitEval, <1>1, PTL DEF Spec

(* The runner's state keeps its types, and no list runs past its end. *)
THEOREM EvalTypes == Spec => []TypeOK
<1>1. EvalInv => TypeOK
  BY DEF EvalInv
<1>2. QED  BY EvalInvariant, <1>1, PTL

(* For any suite and any moment of the stop (runner.py, run_suite): at most
   one trial begins under a stop that nobody cleared.                       *)
THEOREM StopEnds == Spec => []StopEndsSuite
<1>1. EvalInv => StopEndsSuite
  BY DEF EvalInv, LateInv, StopEndsSuite
<1>2. QED  BY EvalInvariant, <1>1, PTL

(* No trial passes whose set-up failed, nor, once the reset before it was
   carried out, on a state it did not bring about (runner.py, run_trial).   *)
THEOREM PassesEarned == Spec => []PassIsEarned
<1>1. EvalInv => PassIsEarned
  BY DEF EvalInv, TrialInv
<1>2. QED  BY EvalInvariant, <1>1, PTL

(* For any budget and any limits of the loop (tierb.py): the budget is kept,
   a charged step stands for at most CallsPerStep planner calls, and a run
   that raises costs at most the budget once more.                          *)
THEOREM BudgetKept == Spec => []AiCallsBounded
<1>1. EvalInv => AiCallsBounded
  <2> SUFFICES ASSUME EvalInv  PROVE AiCallsBounded
    OBVIOUS
  <2>1. /\ spent \in Nat /\ MaxReasks \in Nat /\ MaxReplans \in Nat /\ Total \in Nat
        /\ ai \in [allowed : Nat, steps : Nat, calls : Nat, reasks : Nat, replans : Nat, step : BOOLEAN]
    BY EvalAssumption DEF EvalInv, TypeOK
  <2>2. ai.steps * CallsPerStep \in Nat /\ (ai.steps + 1) * CallsPerStep = ai.steps * CallsPerStep + CallsPerStep
    BY <2>1, Price
  <2>3. CASE pc # "ai"
    <3>1. ai.steps = 0 /\ ai.calls = 0 /\ ai.allowed = 0
      BY <2>3 DEF EvalInv, BudgetInv, NoAi
    <3>2. QED  BY <2>1, <2>2, <3>1 DEF EvalInv, BudgetInv, AiCallsBounded
  <2>4. CASE pc = "ai"
    <3>1. RunFits
      BY <2>4 DEF EvalInv, BudgetInv
    <3>2. spent + ai.steps <= Total
      BY <2>1, <3>1 DEF RunFits
    <3>3. ai.calls <= ai.allowed * CallsPerStep
      <4>1. CASE ai.step \/ ai.reasks > 0
        <5>1. ai.steps + 1 <= ai.allowed
          BY <2>1, <3>1, <4>1 DEF RunFits
        <5>2. (ai.steps + 1) * CallsPerStep <= ai.allowed * CallsPerStep
          BY <2>1, <5>1, Price
        <5>3. ai.calls <= (ai.steps + 1) * CallsPerStep
          BY <2>1, <2>2, <3>1, Price DEF RunFits
        <5>4. QED  BY <2>1, <2>2, <5>2, <5>3, Price
      <4>2. CASE ~ai.step /\ ai.reasks = 0
        <5>1. ai.steps * CallsPerStep <= ai.allowed * CallsPerStep
          BY <2>1, <3>1, Price DEF RunFits
        <5>2. QED  BY <2>1, <2>2, <3>1, <4>2, <5>1, Price DEF RunFits
      <4>3. QED  BY <2>1, <4>1, <4>2
    <3>4. QED  BY <3>2, <3>3 DEF EvalInv, BudgetInv, AiCallsBounded
  <2>5. QED  BY <2>3, <2>4
<1>2. QED  BY EvalInvariant, <1>1, PTL

(* For any suite and any number of trials (runner.py, run_suite): the scores
   count exactly what was recorded, and what is missing is told.            *)
THEOREM ScoresCount == Spec => []ScoresAgree
<1>1. EvalInv => ScoresAgree
  <2> SUFFICES ASSUME EvalInv  PROVE ScoresAgree
    OBVIOUS
  <2>1. /\ task \in 1 .. (Len(suite) + 1) /\ Len(suite) \in Nat /\ Tasks = 1 .. Len(suite) /\ Trials \in Nat \ {0}
        /\ results \subseteq [task : Tasks, trial : 1 .. Trials, passed : BOOLEAN]
    BY Suited, EvalAssumption DEF EvalInv, TypeOK
  <2>2. \A t : Of(t) = TrialsOf(results, t) /\ {r \in Of(t) : r.passed} = PassesOf(results, t)
    BY DEF Of, TrialsOf, PassesOf
  <2>3. \A i \in DOMAIN summaries :
          /\ summaries[i].trials = Cardinality(Of(summaries[i].task))
          /\ summaries[i].passes = Cardinality({r \in Of(summaries[i].task) : r.passed})
          /\ \A j \in DOMAIN summaries : i < j => summaries[i].task < summaries[j].task
    BY <2>2 DEF EvalInv, SummariesInv
  <2>4. \A t \in Tasks : {r.trial : r \in Of(t)} = 1 .. Cardinality(Of(t))
    BY <2>2 DEF EvalInv, CountsInv, NumbersOf
  <2>5. ASSUME pc = "ended"
        PROVE  /\ \A r \in results : \E i \in DOMAIN summaries : summaries[i].task = r.task
               /\ halted <=> \E t \in Tasks : Cardinality(Of(t)) < Trials
    <3>1. \A t \in Tasks : t >= task => TrialsOf(results, t) = {}
      BY <2>1, <2>5 DEF EvalInv, CountsInv
    <3>2. \A r \in results : r.task < task
      <4>1. ASSUME NEW r \in results, r.task >= task  PROVE FALSE
        <5>1. r \in TrialsOf(results, r.task)
          BY DEF TrialsOf
        <5>2. r.task \in Tasks
          BY <2>1
        <5>3. QED  BY <3>1, <4>1, <5>1, <5>2
      <4>2. QED  BY <2>1, <4>1
    <3>3. \A t \in Tasks : t >= task => Cardinality(TrialsOf(results, t)) < Trials
      BY <2>1, <3>1, FS_EmptySet
    <3>4. halted <=> Short(results, task) \/ task \in Tasks
      BY <2>5 DEF EvalInv, HaltedInv
    <3>5. Short(results, task) \/ task \in Tasks <=> \E t \in Tasks : Cardinality(TrialsOf(results, t)) < Trials
      BY <2>1, <3>3 DEF Short
    <3>6. QED  BY <2>2, <3>2, <3>4, <3>5 DEF EvalInv, SummariesInv
  <2>6. QED  BY <2>3, <2>4, <2>5 DEF ScoresAgree
<1>2. QED  BY EvalInvariant, <1>1, PTL
=============================================================================
