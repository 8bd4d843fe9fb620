--------------------------- MODULE TaskLoopProofs ---------------------------
(* For any limits and any planner: the bounds on what a task executes and  *)
(* the contract of its report.                                             *)
EXTENDS TaskLoop, TLAPS

USE TaskLoopAssumption

-----------------------------------------------------------------------------
(* Arithmetic of the bounds.                                               *)

LEMMA PerStep == ActionsPerStep \in Nat /\ ActionsPerStep >= 1
  BY DEF ActionsPerStep

(* One more execution within the retry and re-plan limits fits in a step.  *)
LEMMA RunFits ==
  ASSUME NEW r \in Nat, NEW a \in Nat, r <= MaxRetries, a <= MaxRetries
  PROVE  r * (MaxRetries + 1) + a + 1 <= ActionsPerStep
<1>1. r * (MaxRetries + 1) <= MaxRetries * (MaxRetries + 1)
  OBVIOUS
<1>2. ActionsPerStep = MaxRetries * (MaxRetries + 1) + MaxRetries + 1
  BY DEF ActionsPerStep
<1>3. QED  BY <1>1, <1>2, PerStep

LEMMA NextStep ==
  ASSUME NEW n \in Nat  PROVE (n + 1) * ActionsPerStep = n * ActionsPerStep + ActionsPerStep
  BY PerStep

LEMMA StepsFit ==
  ASSUME NEW n \in Nat, n <= MaxActions
  PROVE  n * ActionsPerStep <= MaxActions * ActionsPerStep
  BY PerStep

-----------------------------------------------------------------------------
(* The counters, one group at a time.                                      *)

LEMMA InitLoop == Init => LoopInv
<1> SUFFICES ASSUME Init  PROVE LoopInv
  OBVIOUS
<1>1. TypeOK
  BY DEF Init, TypeOK
<1>2. StepCounts /\ RecoveryCounts /\ LateCounts /\ StopCounts
  BY DEF Init, StepCounts, RecoveryCounts, LateCounts, StopCounts, Steps, InStep, BeforeRun,
     AfterRun, Ended
<1>3. WorkCounts
  <2>1. Steps = 0 /\ dispatched = 0 /\ pc = "top"
    BY DEF Init, Steps
  <2>2. 0 <= Steps * ActionsPerStep
    BY <2>1, PerStep
  <2>3. QED  BY <2>1, <2>2 DEF WorkCounts, InStep, BeforeRun, AfterRun
<1>4. QED  BY <1>1, <1>2, <1>3 DEF LoopInv

LEMMA NextType == TypeOK /\ [Next]_vars => TypeOK'
<1> SUFFICES ASSUME TypeOK, [Next]_vars  PROVE TypeOK'
  OBVIOUS
<1> USE DEF TypeOK, Goto, End, FailStep, Executing, env, counts, recovery, history
<1>1. CASE PressStop \/ ClearStop \/ PauseOrResume \/ TimeRunsOut
  <2>1. CASE PressStop
    BY <2>1 DEF PressStop
  <2>2. CASE ClearStop
    BY <2>2 DEF ClearStop
  <2>3. CASE PauseOrResume
    BY <2>3 DEF PauseOrResume
  <2>4. CASE TimeRunsOut
    BY <2>4 DEF TimeRunsOut
  <2>5. QED  BY <1>1, <2>1, <2>2, <2>3, <2>4
<1>2. CASE CountLimit \/ TimeLimit \/ HaltAtGuard \/ PlanDone \/ PlanFails
  BY <1>2 DEF CountLimit, TimeLimit, HaltAtGuard, PlanDone, PlanFails
<1>3. CASE EnterIteration \/ Guard \/ GuardPasses \/ ExecuteGuard
  BY <1>3 DEF EnterIteration, Guard, Look, StayParked, GuardPasses, ExecuteGuard
<1>4. CASE Observe \/ ObserveRaises
  BY <1>4 DEF Observe, ObserveRaises
<1>5. CASE PlanAgain \/ PlanStep
  BY <1>5 DEF PlanAgain, PlanStep
<1>6. CASE ExecuteHalted \/ ExecuteBlocked \/ ExecuteDispatch
  BY <1>6 DEF ExecuteHalted, ExecuteBlocked, ExecuteDispatch
<1>7. CASE VerifyPasses \/ VerifyFails
  BY <1>7 DEF VerifyPasses, VerifyFails
<1>8. CASE OutOfTimeInStep \/ GiveUp
  BY <1>8 DEF OutOfTimeInStep, GiveUp
<1>9. CASE Retry \/ Replan
  BY <1>9 DEF Retry, Replan
<1>10. CASE UNCHANGED vars
  BY <1>10 DEF vars
<1>11. QED
  BY <1>1, <1>2, <1>3, <1>4, <1>5, <1>6, <1>7, <1>8, <1>9, <1>10 DEF Next, Loop, Environment

LEMMA NextStepCounts == TypeOK /\ StepCounts /\ [Next]_vars => StepCounts'
<1> SUFFICES ASSUME TypeOK, StepCounts, [Next]_vars  PROVE StepCounts'
  OBVIOUS
<1> USE DEF TypeOK, Goto, End, FailStep, Executing, env, counts, recovery, history,
            StepCounts, Steps, InStep
<1>1. CASE PressStop \/ ClearStop \/ PauseOrResume \/ TimeRunsOut
  BY <1>1 DEF PressStop, ClearStop, PauseOrResume, TimeRunsOut
<1>2. CASE CountLimit \/ TimeLimit \/ HaltAtGuard \/ PlanDone \/ PlanFails
  BY <1>2 DEF CountLimit, TimeLimit, HaltAtGuard, PlanDone, PlanFails
<1>3. CASE EnterIteration \/ Guard \/ GuardPasses \/ ExecuteGuard
  BY <1>3 DEF EnterIteration, Guard, Look, StayParked, GuardPasses, ExecuteGuard
<1>4. CASE Observe \/ ObserveRaises
  BY <1>4 DEF Observe, ObserveRaises
<1>5. CASE PlanAgain \/ PlanStep
  BY <1>5 DEF PlanAgain, PlanStep
<1>6. CASE ExecuteHalted \/ ExecuteBlocked \/ ExecuteDispatch
  BY <1>6 DEF ExecuteHalted, ExecuteBlocked, ExecuteDispatch
<1>7. CASE VerifyPasses \/ VerifyFails
  BY <1>7 DEF VerifyPasses, VerifyFails
<1>8. CASE OutOfTimeInStep \/ GiveUp
  BY <1>8 DEF OutOfTimeInStep, GiveUp
<1>9. CASE Retry \/ Replan
  BY <1>9 DEF Retry, Replan
<1>10. CASE UNCHANGED vars
  BY <1>10 DEF vars
<1>11. QED
  BY <1>1, <1>2, <1>3, <1>4, <1>5, <1>6, <1>7, <1>8, <1>9, <1>10 DEF Next, Loop, Environment

LEMMA NextRecoveryCounts == TypeOK /\ RecoveryCounts /\ [Next]_vars => RecoveryCounts'
<1> SUFFICES ASSUME TypeOK, RecoveryCounts, [Next]_vars  PROVE RecoveryCounts'
  OBVIOUS
<1> USE DEF TypeOK, Goto, End, FailStep, Executing, env, counts, recovery, history,
            RecoveryCounts, BeforeRun, AfterRun, MayRetry
<1>1. CASE PressStop \/ ClearStop \/ PauseOrResume \/ TimeRunsOut
  BY <1>1 DEF PressStop, ClearStop, PauseOrResume, TimeRunsOut
<1>2. CASE CountLimit \/ TimeLimit \/ HaltAtGuard \/ PlanDone \/ PlanFails
  BY <1>2 DEF CountLimit, TimeLimit, HaltAtGuard, PlanDone, PlanFails
<1>3. CASE EnterIteration \/ Guard \/ GuardPasses \/ ExecuteGuard
  BY <1>3 DEF EnterIteration, Guard, Look, StayParked, GuardPasses, ExecuteGuard
<1>4. CASE Observe \/ ObserveRaises
  BY <1>4 DEF Observe, ObserveRaises
<1>5. CASE PlanAgain \/ PlanStep
  BY <1>5 DEF PlanAgain, PlanStep
<1>6. CASE ExecuteHalted \/ ExecuteBlocked \/ ExecuteDispatch
  BY <1>6 DEF ExecuteHalted, ExecuteBlocked, ExecuteDispatch
<1>7. CASE VerifyPasses \/ VerifyFails
  BY <1>7 DEF VerifyPasses, VerifyFails
<1>8. CASE OutOfTimeInStep \/ GiveUp
  BY <1>8 DEF OutOfTimeInStep, GiveUp
<1>9. CASE Retry \/ Replan
  BY <1>9 DEF Retry, Replan
<1>10. CASE UNCHANGED vars
  BY <1>10 DEF vars
<1>11. QED
  BY <1>1, <1>2, <1>3, <1>4, <1>5, <1>6, <1>7, <1>8, <1>9, <1>10 DEF Next, Loop, Environment

LEMMA NextLateCounts == TypeOK /\ LateCounts /\ [Next]_vars => LateCounts'
<1> SUFFICES ASSUME TypeOK, LateCounts, [Next]_vars  PROVE LateCounts'
  OBVIOUS
<1> USE DEF TypeOK, Goto, End, FailStep, Executing, env, counts, recovery, history,
            LateCounts, AfterRun, Ended
<1>1. CASE PressStop \/ ClearStop \/ PauseOrResume \/ TimeRunsOut
  BY <1>1 DEF PressStop, ClearStop, PauseOrResume, TimeRunsOut
<1>2. CASE CountLimit \/ TimeLimit \/ HaltAtGuard \/ PlanDone \/ PlanFails
  BY <1>2 DEF CountLimit, TimeLimit, HaltAtGuard, PlanDone, PlanFails
<1>3. CASE EnterIteration \/ Guard \/ GuardPasses \/ ExecuteGuard
  BY <1>3 DEF EnterIteration, Guard, Look, StayParked, GuardPasses, ExecuteGuard
<1>4. CASE Observe \/ ObserveRaises
  BY <1>4 DEF Observe, ObserveRaises
<1>5. CASE PlanAgain \/ PlanStep
  BY <1>5 DEF PlanAgain, PlanStep
<1>6. CASE ExecuteHalted \/ ExecuteBlocked \/ ExecuteDispatch
  BY <1>6 DEF ExecuteHalted, ExecuteBlocked, ExecuteDispatch
<1>7. CASE VerifyPasses \/ VerifyFails
  BY <1>7 DEF VerifyPasses, VerifyFails
<1>8. CASE OutOfTimeInStep \/ GiveUp
  BY <1>8 DEF OutOfTimeInStep, GiveUp
<1>9. CASE Retry \/ Replan
  BY <1>9 DEF Retry, Replan
<1>10. CASE UNCHANGED vars
  BY <1>10 DEF vars
<1>11. QED
  BY <1>1, <1>2, <1>3, <1>4, <1>5, <1>6, <1>7, <1>8, <1>9, <1>10 DEF Next, Loop, Environment

LEMMA NextStopCounts == TypeOK /\ StopCounts /\ [Next]_vars => StopCounts'
<1> SUFFICES ASSUME TypeOK, StopCounts, [Next]_vars  PROVE StopCounts'
  OBVIOUS
<1> USE DEF TypeOK, Goto, End, FailStep, Executing, env, counts, recovery, history,
            StopCounts, AfterRun, Ended
<1>1. CASE PressStop \/ ClearStop \/ PauseOrResume \/ TimeRunsOut
  BY <1>1 DEF PressStop, ClearStop, PauseOrResume, TimeRunsOut
<1>2. CASE CountLimit \/ TimeLimit \/ HaltAtGuard \/ PlanDone \/ PlanFails
  BY <1>2 DEF CountLimit, TimeLimit, HaltAtGuard, PlanDone, PlanFails
<1>3. CASE EnterIteration \/ Guard \/ GuardPasses \/ ExecuteGuard
  BY <1>3 DEF EnterIteration, Guard, Look, StayParked, GuardPasses, ExecuteGuard
<1>4. CASE Observe \/ ObserveRaises
  BY <1>4 DEF Observe, ObserveRaises
<1>5. CASE PlanAgain \/ PlanStep
  BY <1>5 DEF PlanAgain, PlanStep
<1>6. CASE ExecuteHalted \/ ExecuteBlocked \/ ExecuteDispatch
  BY <1>6 DEF ExecuteHalted, ExecuteBlocked, ExecuteDispatch
<1>7. CASE VerifyPasses \/ VerifyFails
  BY <1>7 DEF VerifyPasses, VerifyFails
<1>8. CASE OutOfTimeInStep \/ GiveUp
  BY <1>8 DEF OutOfTimeInStep, GiveUp
<1>9. CASE Retry \/ Replan
  BY <1>9 DEF Retry, Replan
<1>10. CASE UNCHANGED vars
  BY <1>10 DEF vars
<1>11. QED
  BY <1>1, <1>2, <1>3, <1>4, <1>5, <1>6, <1>7, <1>8, <1>9, <1>10 DEF Next, Loop, Environment

(* A step within its retries and re-plans executes at most ActionsPerStep. *)
LEMMA StepFits ==
  ASSUME TypeOK, RecoveryCounts, WorkCounts, InStep
  PROVE  runs <= ActionsPerStep
<1>1. runs <= replans * (MaxRetries + 1) + attempts + 1
  BY DEF WorkCounts, InStep, BeforeRun, AfterRun, TypeOK
<1>2. replans * (MaxRetries + 1) + attempts + 1 <= ActionsPerStep
  BY RunFits DEF TypeOK, RecoveryCounts
<1>3. replans * (MaxRetries + 1) \in Nat
  BY DEF TypeOK
<1>4. QED  BY <1>1, <1>2, <1>3, PerStep DEF TypeOK

(* Leaving a step, by its record or by an exception, keeps the total bound.*)
LEMMA StepRecorded ==
  ASSUME TypeOK, StepCounts, RecoveryCounts, WorkCounts, InStep
  PROVE  /\ dispatched <= (good + 1) * ActionsPerStep
         /\ (good + 1) * ActionsPerStep <= MaxActions * ActionsPerStep
<1>1. runs <= ActionsPerStep
  BY StepFits
<1>2. dispatched <= good * ActionsPerStep + runs /\ good + 1 <= MaxActions
  BY DEF WorkCounts, StepCounts, InStep, TypeOK
<1>3. good * ActionsPerStep \in Nat /\ (good + 1) * ActionsPerStep = good * ActionsPerStep + ActionsPerStep
  BY NextStep, PerStep DEF TypeOK
<1>4. good + 1 \in Nat
  BY DEF TypeOK
<1>5. QED  BY <1>1, <1>2, <1>3, <1>4, StepsFit, PerStep DEF TypeOK

LEMMA NextWorkCounts == TypeOK /\ StepCounts /\ RecoveryCounts /\ WorkCounts /\ [Next]_vars => WorkCounts'
<1> SUFFICES ASSUME TypeOK, StepCounts, RecoveryCounts, WorkCounts, [Next]_vars  PROVE WorkCounts'
  OBVIOUS
<1> USE PerStep DEF TypeOK, Goto, End, FailStep, Executing, env, counts, recovery, history,
                    WorkCounts, Steps, InStep, BeforeRun, AfterRun
<1>1. CASE PressStop \/ ClearStop \/ PauseOrResume \/ TimeRunsOut
  BY <1>1 DEF PressStop, ClearStop, PauseOrResume, TimeRunsOut
<1>2. CASE CountLimit \/ TimeLimit \/ HaltAtGuard \/ PlanDone \/ PlanFails
  BY <1>2 DEF CountLimit, TimeLimit, HaltAtGuard, PlanDone, PlanFails
<1>3. CASE EnterIteration \/ Guard \/ GuardPasses \/ ExecuteGuard
  BY <1>3 DEF EnterIteration, Guard, Look, StayParked, GuardPasses, ExecuteGuard
<1>4. CASE Observe \/ ObserveRaises
  BY <1>4, StepRecorded, StepsFit DEF Observe, ObserveRaises, StepCounts
<1>5. CASE PlanAgain \/ PlanStep
  BY <1>5 DEF PlanAgain, PlanStep, StepCounts
<1>6. CASE ExecuteHalted \/ ExecuteBlocked \/ ExecuteDispatch
  BY <1>6 DEF ExecuteHalted, ExecuteBlocked, ExecuteDispatch
<1>7. CASE VerifyPasses \/ VerifyFails
  BY <1>7, StepRecorded DEF VerifyPasses, StepCounts, VerifyFails
<1>8. CASE OutOfTimeInStep \/ GiveUp
  BY <1>8, StepRecorded DEF OutOfTimeInStep, StepCounts, GiveUp
<1>9. CASE Retry \/ Replan
  BY <1>9 DEF Retry, Replan, RecoveryCounts, MayRetry
<1>10. CASE UNCHANGED vars
  BY <1>10 DEF vars
<1>11. QED
  BY <1>1, <1>2, <1>3, <1>4, <1>5, <1>6, <1>7, <1>8, <1>9, <1>10 DEF Next, Loop, Environment

LEMMA LoopInvariant == Spec => []LoopInv
<1>1. LoopInv /\ [Next]_vars => LoopInv'
  BY NextType, NextStepCounts, NextRecoveryCounts, NextWorkCounts, NextLateCounts,
     NextStopCounts DEF LoopInv
<1>2. QED  BY InitLoop, <1>1, PTL DEF Spec

(* The loop's state keeps its types.                                       *)
THEOREM LoopTypes == Spec => []TypeOK
<1>1. LoopInv => TypeOK
  BY DEF LoopInv
<1>2. QED  BY LoopInvariant, <1>1, PTL

(* For every limit: an unsafe action runs once per plan (_execute_step).   *)
THEOREM NoBlindRetry == Spec => []UnsafeRunsOnce
<1>1. LoopInv => UnsafeRunsOnce
  BY DEF LoopInv, UnsafeRunsOnce, RecoveryCounts, TypeOK
<1>2. QED  BY LoopInvariant, <1>1, PTL

(* For every limit: the task sends the desktop at most                     *)
(* MaxActions * (MaxRetries + 1)^2 actions.                                *)
THEOREM BoundedRecovery == Spec => []BoundedWork
<1>1. LoopInv => BoundedWork
  <2> SUFFICES ASSUME LoopInv  PROVE BoundedWork
    OBVIOUS
  <2> USE DEF LoopInv
  <2>1. CASE InStep
    <3>1. dispatched <= good * ActionsPerStep + runs /\ runs <= ActionsPerStep
      BY <2>1, StepFits DEF WorkCounts, InStep
    <3>2. good * ActionsPerStep \in Nat /\ (good + 1) * ActionsPerStep = good * ActionsPerStep + ActionsPerStep
      BY NextStep, PerStep DEF TypeOK
    <3>3. (good + 1) * ActionsPerStep <= MaxActions * ActionsPerStep
      BY <2>1, StepRecorded
    <3>4. QED  BY <3>1, <3>2, <3>3, PerStep DEF BoundedWork, TypeOK
  <2>2. CASE pc = "raised"
    BY <2>2 DEF BoundedWork, WorkCounts, InStep
  <2>3. CASE ~InStep /\ pc # "raised"
    <3>1. dispatched <= Steps * ActionsPerStep
      BY <2>3 DEF WorkCounts
    <3>2. Steps \in Nat /\ Steps <= MaxActions
      BY DEF StepCounts, TypeOK, Steps
    <3>3. Steps * ActionsPerStep <= MaxActions * ActionsPerStep
      BY <3>2, StepsFit
    <3>4. Steps * ActionsPerStep \in Nat /\ MaxActions * ActionsPerStep \in Nat
      BY <3>2, PerStep
    <3>5. QED  BY <3>1, <3>3, <3>4 DEF BoundedWork, TypeOK
  <2>4. QED  BY <2>1, <2>2, <2>3
<1>2. QED  BY LoopInvariant, <1>1, PTL

(* At most one action is executed after the wall-clock limit is reached.   *)
THEOREM TimeTakesEffect == Spec => []OneLateAction
<1>1. LoopInv => OneLateAction
  BY DEF LoopInv, LateCounts, OneLateAction
<1>2. QED  BY LoopInvariant, <1>1, PTL

(* At most one action is dispatched after an emergency stop.               *)
THEOREM StopTakesEffect == Spec => []StopLetsOneThrough
<1>1. LoopInv => StopLetsOneThrough
  BY DEF LoopInv, StopCounts, StopLetsOneThrough
<1>2. QED  BY LoopInvariant, <1>1, PTL

-----------------------------------------------------------------------------
(* The loop implements the contract: a record of a success is the          *)
(* contract's StepSucceeds, an end its EndsAfterSuccess or                 *)
(* EndsOnFailedStep, and everything between is a stutter.                  *)
LEMMA StepImplements == LoopInv /\ [Next]_vars => [Contract!Next]_Contract!vars
<1> SUFFICES ASSUME LoopInv, [Next]_vars  PROVE [Contract!Next]_Contract!vars
  OBVIOUS
<1> USE DEF LoopInv, StepCounts, Steps, InStep, TypeOK, Goto, End, FailStep, Executing, env,
            counts, recovery, history, Contract!Next, Contract!vars, Contract!Environment,
            Contract!StepSucceeds, Contract!EndsAfterSuccess, Contract!EndsOnFailedStep,
            Contract!Running
<1>1. CASE PressStop \/ ClearStop \/ PauseOrResume \/ TimeRunsOut
  BY <1>1 DEF PressStop, ClearStop, PauseOrResume, TimeRunsOut
<1>2. CASE CountLimit \/ TimeLimit \/ HaltAtGuard \/ PlanDone \/ PlanFails
  BY <1>2 DEF CountLimit, TimeLimit, HaltAtGuard, PlanDone, PlanFails
<1>3. CASE EnterIteration \/ Guard \/ GuardPasses \/ ExecuteGuard
  BY <1>3 DEF EnterIteration, Guard, Look, StayParked, GuardPasses, ExecuteGuard
<1>4. CASE Observe \/ ObserveRaises
  BY <1>4 DEF Observe, ObserveRaises
<1>5. CASE PlanAgain \/ PlanStep
  BY <1>5 DEF PlanAgain, PlanStep
<1>6. CASE ExecuteHalted \/ ExecuteBlocked \/ ExecuteDispatch
  BY <1>6 DEF ExecuteHalted, ExecuteBlocked, ExecuteDispatch
<1>7. CASE VerifyPasses \/ VerifyFails
  BY <1>7 DEF VerifyPasses, VerifyFails
<1>8. CASE OutOfTimeInStep \/ GiveUp
  BY <1>8 DEF OutOfTimeInStep, GiveUp
<1>9. CASE Retry \/ Replan
  BY <1>9 DEF Retry, Replan
<1>10. CASE UNCHANGED vars
  BY <1>10 DEF vars
<1>11. QED
  BY <1>1, <1>2, <1>3, <1>4, <1>5, <1>6, <1>7, <1>8, <1>9, <1>10 DEF Next, Loop, Environment

(* TaskLoop implements TaskContract.                                       *)
THEOREM LoopKeepsContract == Spec => ReportContract
<1>1. Init => Contract!Init
  BY DEF Init, Contract!Init
<1>2. QED
  BY <1>1, StepImplements, LoopInvariant, PTL DEF Spec, ReportContract, Contract!Spec
=============================================================================
