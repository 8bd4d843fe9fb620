--------------------------- MODULE ExecutorProofs ---------------------------
(* For any workers, registry, threshold and length of the tools: what is   *)
(* touched was allowed, and a stop, an error or a denial ends it cleanly.  *)
EXTENDS Executor, TLAPS

USE ExecutorAssumption DEF Gestures, Tools, Jobs, Low, Medium, High

LEMMA LongestRun ==
  Longest \in Nat /\ Longest >= PrepInputs /\ Longest >= OrbitMoves + 1 /\ Longest >= 2
  BY DEF Longest

LEMMA InitExecutor == Init => ExecutorInv
<1> SUFFICES ASSUME Init  PROVE ExecutorInv
  OBVIOUS
<1>1. TypeOK
  <2>1. 0 \in 0..MaxRounds /\ 0 \in Nat
    OBVIOUS
  <2>2. rounds \in [Workers -> 0..MaxRounds] /\ burst \in [Workers -> Nat]
        /\ through \in [Workers -> Nat]
    BY <2>1 DEF Init, All
  <2>3. holding \in [Workers -> BOOLEAN] /\ approved \in [Workers -> BOOLEAN]
        /\ touched \in [Workers -> BOOLEAN]
    BY DEF Init, All
  <2>4. at \in [Workers -> Places] /\ job \in [Workers -> Jobs \union {NoJob}]
        /\ outcome \in [Workers -> Outcomes]
    BY DEF Init, All, Places, Outcomes
  <2>5. QED  BY <2>2, <2>3, <2>4 DEF Init, TypeOK
<1>2. FlagFreed
  BY DEF Init, FlagFreed
<1>3. ASSUME NEW w \in Workers  PROVE WorkerInv(w)
  BY LongestRun DEF Init, All, WorkerInv, PlaceInv, GateInv, TouchInv, StopInv, ButtonInv,
     ReportInv, Acting, Before
<1>4. QED  BY <1>1, <1>2, <1>3 DEF ExecutorInv

-----------------------------------------------------------------------------
(* An action of one worker leaves the others alone.                        *)
Kept(v) ==
  /\ at'[v] = at[v] /\ job'[v] = job[v] /\ burst'[v] = burst[v] /\ rounds'[v] = rounds[v]
  /\ holding'[v] = holding[v] /\ outcome'[v] = outcome[v] /\ approved'[v] = approved[v]
  /\ touched'[v] = touched[v] /\ through'[v] = through[v]

Acts(w) == Begin(w) \/ Executing(w) \/ Raises(w)

LEMMA OthersKept ==
  ASSUME TypeOK, NEW w \in Workers, NEW v \in Workers \ {w}, Acts(w)
  PROVE  Kept(v) /\ UNCHANGED <<stopped, dry>>
<1> USE DEF Kept, TypeOK, Goto, Report, Input, env, tool, history
<1>1. CASE Begin(w)
  BY <1>1 DEF Begin
<1>2. CASE GuardHalts(w) \/ GuardPasses(w) \/ NeedsNoApproval(w) \/ Ask(w) \/ Approve(w) \/ Deny(w)
  BY <1>2 DEF GuardHalts, GuardPasses, NeedsNoApproval, Ask, Approve, Deny
<1>3. CASE DryRun(w) \/ DispatchInput(w) \/ DispatchCommand(w) \/ DispatchFails(w)
           \/ RefuseNested(w) \/ FindNotNested(w) \/ EnterTool(w)
  BY <1>3 DEF DryRun, DispatchInput, DispatchCommand, DispatchFails, RefuseNested, FindNotNested,
     EnterTool
<1>4. CASE ToolStarts(w) \/ ToolRefuses(w) \/ ProbePasses(w) \/ LookPasses(w) \/ LookHalts(w)
  BY <1>4 DEF ToolStarts, ToolRefuses, ProbePasses, LookPasses, LookHalts
<1>5. CASE Touch(w) \/ Press(w) \/ Release(w) \/ Raises(w)
  BY <1>5 DEF Touch, Press, Release, Raises
<1>6. CASE Returns(w) \/ LeaveTool(w) \/ Recheck(w) \/ Record(w)
  BY <1>6 DEF Returns, LeaveTool, Recheck, Record
<1>7. QED  BY <1>1, <1>2, <1>3, <1>4, <1>5, <1>6 DEF Acts, Executing

LEMMA KeptInv ==
  ASSUME NEW v \in Workers, WorkerInv(v), Kept(v), UNCHANGED <<stopped, dry>>
  PROVE  WorkerInv(v)'
  BY DEF Kept, WorkerInv, PlaceInv, GateInv, TouchInv, StopInv, ButtonInv, ReportInv

-----------------------------------------------------------------------------
(* What an action of a worker does to its types and to its own invariant.  *)

LEMMA ActsTyped ==
  ASSUME ExecutorInv, NEW w \in Workers, Acts(w)
  PROVE  TypeOK'
<1> USE DEF TypeOK, Places, Outcomes, Goto, Report, Input, env, tool, history
<1>1. TypeOK /\ PlaceInv(w)
  BY DEF ExecutorInv, WorkerInv
<1>2. CASE Begin(w)
  BY <1>1, <1>2 DEF Begin
<1>3. CASE GuardHalts(w) \/ GuardPasses(w) \/ NeedsNoApproval(w) \/ Ask(w) \/ Approve(w) \/ Deny(w)
  BY <1>1, <1>3 DEF GuardHalts, GuardPasses, NeedsNoApproval, Ask, Approve, Deny
<1>4. CASE DryRun(w) \/ DispatchFails(w) \/ RefuseNested(w)
  BY <1>1, <1>4 DEF DryRun, DispatchFails, RefuseNested
<1>5. CASE DispatchInput(w)
  BY <1>1, <1>5 DEF DispatchInput
<1>6. CASE DispatchCommand(w) \/ FindNotNested(w)
  BY <1>1, <1>6 DEF DispatchCommand, FindNotNested
<1>7. CASE EnterTool(w)
  BY <1>1, <1>7 DEF EnterTool
<1>8. CASE ToolStarts(w) \/ ToolRefuses(w)
  BY <1>1, <1>8 DEF ToolStarts, ToolRefuses
<1>9. CASE ProbePasses(w)
  BY <1>1, <1>9 DEF ProbePasses
<1>10. CASE LookPasses(w)
  BY <1>1, <1>10 DEF LookPasses, AfterLook, More
<1>11. CASE LookHalts(w)
  BY <1>1, <1>11 DEF LookHalts, Unwind, Halting
<1>12. CASE Touch(w)
  <2>1. at' \in [Workers -> Places]
    BY <1>1, <1>12 DEF Touch, AfterBurst
  <2>2. burst[w] \in Nat /\ burst[w] > 0
    BY <1>1, <1>12 DEF Touch, PlaceInv
  <2>3. burst' \in [Workers -> Nat]
    BY <1>1, <1>12, <2>2 DEF Touch
  <2>4. QED  BY <1>1, <1>12, <2>1, <2>3 DEF Touch
<1>13. CASE Press(w)
  <2>1. burst' \in [Workers -> Nat]
    BY <1>1, <1>13 DEF Press
  <2>2. at' \in [Workers -> Places]
    BY <1>1, <1>13 DEF Press
  <2>3. QED  BY <1>1, <1>13, <2>1, <2>2 DEF Press
<1>14. CASE Release(w)
  BY <1>1, <1>14 DEF Release
<1>15. CASE Raises(w)
  <2>1. at' \in [Workers -> Places]
    BY <1>1, <1>15 DEF Raises, Unwind
  <2>2. QED  BY <1>1, <1>15, <2>1 DEF Raises
<1>16. CASE Returns(w) \/ LeaveTool(w)
  BY <1>1, <1>16 DEF Returns, LeaveTool
<1>17. CASE Recheck(w)
  BY <1>1, <1>17 DEF Recheck
<1>18. CASE Record(w)
  BY <1>1, <1>18 DEF Record
<1>19. QED
  BY <1>2, <1>3, <1>4, <1>5, <1>6, <1>7, <1>8, <1>9, <1>10, <1>11, <1>12, <1>13, <1>14, <1>15,
     <1>16, <1>17, <1>18 DEF Acts, Executing

LEMMA ActsInv ==
  ASSUME ExecutorInv, NEW w \in Workers, Acts(w)
  PROVE  WorkerInv(w)'
<1> USE DEF WorkerInv, PlaceInv, GateInv, TouchInv, StopInv, ButtonInv, ReportInv, Acting, Before,
        Turning, Goto, Report, Input, env, tool, history, TypeOK
<1>1. TypeOK /\ TypeOK' /\ WorkerInv(w)
  BY ActsTyped DEF ExecutorInv
<1>2. CASE Begin(w)
  BY <1>1, <1>2, LongestRun DEF Begin
<1>3. CASE GuardHalts(w) \/ GuardPasses(w)
  BY <1>1, <1>3, LongestRun DEF GuardHalts, GuardPasses, Clear
<1>4. CASE NeedsNoApproval(w) \/ Ask(w)
  BY <1>1, <1>4, LongestRun DEF NeedsNoApproval, Ask, Asks
<1>5. CASE Approve(w) \/ Deny(w)
  BY <1>1, <1>5, LongestRun DEF Approve, Deny
<1>6. CASE DryRun(w) \/ DispatchInput(w)
  BY <1>1, <1>6, LongestRun DEF DryRun, DispatchInput
<1>7. CASE DispatchCommand(w) \/ DispatchFails(w)
  BY <1>1, <1>7, LongestRun DEF DispatchCommand, DispatchFails
<1>8. CASE RefuseNested(w) \/ FindNotNested(w) \/ EnterTool(w)
  BY <1>1, <1>8, LongestRun DEF RefuseNested, FindNotNested, EnterTool
<1>9. CASE ToolStarts(w)
  BY <1>1, <1>9, LongestRun DEF ToolStarts
<1>10. CASE ToolRefuses(w)
  BY <1>1, <1>10, LongestRun DEF ToolRefuses
<1>11. CASE ProbePasses(w)
  <2>1. PICK n \in 0..PrepInputs :
          /\ burst' = [burst EXCEPT ![w] = n]
          /\ Goto(w, "probe", IF n > 0 THEN "touch" ELSE "look")
    BY <1>11 DEF ProbePasses
  <2>2. burst'[w] = n /\ n <= Longest
    BY <1>1, <2>1, LongestRun
  <2>3. job[w] = "sketch" /\ through[w] = 0
    BY <1>1, <2>1
  <2>4. QED  BY <1>1, <1>11, <2>1, <2>2, <2>3, LongestRun DEF ProbePasses
<1>12. CASE LookPasses(w)
  BY <1>1, <1>12, LongestRun DEF LookPasses, AfterLook, Clear
<1>13. CASE LookHalts(w)
  BY <1>1, <1>13, LongestRun DEF LookHalts, Unwind, Halting
<1>14. CASE Touch(w)
  BY <1>1, <1>14, LongestRun DEF Touch, AfterBurst
<1>15. CASE Press(w)
  BY <1>1, <1>15, LongestRun DEF Press
<1>16. CASE Release(w)
  BY <1>1, <1>16, LongestRun DEF Release
<1>17. CASE Raises(w)
  BY <1>1, <1>17, LongestRun DEF Raises, Unwind
<1>18. CASE Returns(w) \/ LeaveTool(w)
  BY <1>1, <1>18, LongestRun DEF Returns, LeaveTool
<1>19. CASE Recheck(w)
  BY <1>1, <1>19, LongestRun DEF Recheck
<1>20. CASE Record(w)
  BY <1>1, <1>20, LongestRun DEF Record
<1>21. QED
  BY <1>2, <1>3, <1>4, <1>5, <1>6, <1>7, <1>8, <1>9, <1>10, <1>11, <1>12, <1>13, <1>14, <1>15,
     <1>16, <1>17, <1>18, <1>19, <1>20 DEF Acts, Executing

-----------------------------------------------------------------------------
(* Whoever is in a tool stays there, but for the one who leaves it.        *)
LEMMA ActsFlag ==
  ASSUME ExecutorInv, NEW w \in Workers, Acts(w)
  PROVE  FlagFreed'
<1> USE DEF TypeOK, Goto, Report, env, tool, history, InTool
<1>1. TypeOK /\ PlaceInv(w) /\ FlagFreed
  BY DEF ExecutorInv, WorkerInv
<1>2. CASE LeaveTool(w)
  BY <1>2 DEF LeaveTool, FlagFreed
<1>3. CASE EnterTool(w)
  <2>1. InTool(w)'
    BY <1>1, <1>3 DEF EnterTool, PlaceInv
  <2>2. QED  BY <2>1 DEF FlagFreed
<1>4. CASE ~LeaveTool(w) /\ ~EnterTool(w)
  <2>1. inTool' = inTool
    <3>1. CASE Begin(w)
      BY <3>1 DEF Begin
    <3>2. CASE Raises(w)
      BY <3>2 DEF Raises
    <3>3. CASE Executing(w)
      BY <1>4, <3>3 DEF Executing, GuardHalts, GuardPasses, NeedsNoApproval, Ask, Approve, Deny,
         DryRun, DispatchInput, DispatchCommand, DispatchFails, RefuseNested, FindNotNested,
         ToolStarts, ToolRefuses, ProbePasses, LookPasses, LookHalts, Touch, Press, Release,
         Returns, Recheck, Record
    <3>4. QED  BY <3>1, <3>2, <3>3 DEF Acts
  <2>2. ASSUME InTool(w)  PROVE InTool(w)'
    <3>1. CASE Raises(w)
      BY <1>1, <2>2, <3>1 DEF Raises, Unwind
    <3>2. CASE ToolStarts(w) \/ ToolRefuses(w) \/ ProbePasses(w) \/ LookHalts(w)
      BY <1>1, <2>2, <3>2 DEF ToolStarts, ToolRefuses, ProbePasses, LookHalts, Unwind
    <3>3. CASE LookPasses(w)
      BY <1>1, <2>2, <3>3 DEF LookPasses, AfterLook
    <3>4. CASE Touch(w)
      BY <1>1, <2>2, <3>4 DEF Touch, AfterBurst
    <3>5. CASE Press(w) \/ Release(w)
      BY <1>1, <2>2, <3>5 DEF Press, Release
    <3>6. ~(Begin(w) \/ GuardHalts(w) \/ GuardPasses(w) \/ NeedsNoApproval(w) \/ Ask(w)
            \/ Approve(w) \/ Deny(w) \/ DryRun(w) \/ DispatchInput(w) \/ DispatchCommand(w)
            \/ DispatchFails(w) \/ RefuseNested(w) \/ FindNotNested(w) \/ Returns(w)
            \/ Recheck(w) \/ Record(w))
      BY <2>2 DEF Begin, GuardHalts, GuardPasses, NeedsNoApproval, Ask, Approve, Deny, DryRun,
         DispatchInput, DispatchCommand, DispatchFails, RefuseNested, FindNotNested, Returns,
         Recheck, Record
    <3>7. QED  BY <1>4, <3>1, <3>2, <3>3, <3>4, <3>5, <3>6 DEF Acts, Executing
  <2>3. ASSUME NEW v \in Workers, InTool(v)  PROVE InTool(v)'
    <3>1. CASE v = w
      BY <2>2, <2>3, <3>1
    <3>2. CASE v # w
      BY <1>1, <2>3, <3>2, OthersKept DEF Kept
    <3>3. QED  BY <3>1, <3>2
  <2>4. QED  BY <1>1, <2>1, <2>3 DEF FlagFreed
<1>5. QED  BY <1>2, <1>3, <1>4

(* The stop and pause buttons: a stop that takes effect starts the count.  *)
LEMMA ButtonsInv ==
  ASSUME ExecutorInv, PressStop \/ ClearStop \/ PauseOrResume
  PROVE  ExecutorInv'
<1> USE DEF PressStop, ClearStop, PauseOrResume, tool, history
<1>1. UNCHANGED <<dry, tool, at, job, outcome, approved, touched>>
  OBVIOUS
<1>2. TypeOK'
  <2>1. \A value \in Nat : All(value) \in [Workers -> Nat]
    BY DEF All
  <2>2. through' \in [Workers -> Nat]
    BY <2>1 DEF ExecutorInv, TypeOK
  <2>3. QED  BY <1>1, <2>2 DEF ExecutorInv, TypeOK
<1>3. FlagFreed'
  BY <1>1 DEF ExecutorInv, FlagFreed, InTool
<1>4. ASSUME NEW w \in Workers  PROVE WorkerInv(w)'
  <2>1. TypeOK /\ WorkerInv(w)
    BY DEF ExecutorInv
  <2>2. through'[w] = 0 \/ (through'[w] = through[w] /\ stopped' = stopped)
    BY DEF All
  <2>3. PlaceInv(w)' /\ GateInv(w)' /\ TouchInv(w)' /\ ButtonInv(w)' /\ ReportInv(w)'
    BY <1>1, <2>1, <2>2 DEF WorkerInv, PlaceInv, GateInv, TouchInv, ButtonInv, ReportInv
  <2>4. StopInv(w)'
    BY <1>1, <2>1, <2>2, LongestRun DEF WorkerInv, StopInv, TypeOK
  <2>5. QED  BY <2>3, <2>4 DEF WorkerInv
<1>5. QED  BY <1>2, <1>3, <1>4 DEF ExecutorInv

LEMMA StepExecutor == ExecutorInv /\ [Next]_vars => ExecutorInv'
<1> SUFFICES ASSUME ExecutorInv, [Next]_vars  PROVE ExecutorInv'
  OBVIOUS
<1>1. ASSUME NEW w \in Workers, Acts(w)  PROVE ExecutorInv'
  <2>1. ASSUME NEW v \in Workers \ {w}  PROVE WorkerInv(v)'
    BY <1>1, OthersKept, KeptInv DEF ExecutorInv
  <2>2. WorkerInv(w)'
    BY <1>1, ActsInv
  <2>3. QED  BY <1>1, <2>1, <2>2, ActsTyped, ActsFlag DEF ExecutorInv
<1>2. CASE UNCHANGED vars
  BY <1>2 DEF vars, env, tool, history, ExecutorInv, TypeOK, FlagFreed, InTool, WorkerInv,
     PlaceInv, GateInv, TouchInv, StopInv, ButtonInv, ReportInv
<1>3. QED  BY <1>1, <1>2, ButtonsInv DEF Next, Acts

-----------------------------------------------------------------------------
LEMMA ExecutorAlways == Spec => []ExecutorInv
  BY InitExecutor, StepExecutor, PTL DEF Spec

(* Whatever the tools do, nothing is changed without the approval the      *)
(* policy wants (executor.py, _gate).                                      *)
THEOREM NothingUnapproved == Spec => [](TypeOK /\ GatedTouch)
<1>1. ExecutorInv => TypeOK /\ GatedTouch
  BY DEF ExecutorInv, WorkerInv, GateInv, GatedTouch
<1>2. QED  BY <1>1, ExecutorAlways, PTL

(* A dry run and a refused action change nothing at all.                   *)
THEOREM RefusedLeavesAlone == Spec => []LeftAlone
<1>1. ExecutorInv => LeftAlone
  BY DEF ExecutorInv, WorkerInv, TouchInv, LeftAlone
<1>2. QED  BY <1>1, ExecutorAlways, PTL

(* After a stop a worker only ends the burst of inputs it is in.           *)
THEOREM StopTakesEffect == Spec => []StopEndsBurst
<1>1. ExecutorInv => StopEndsBurst
  BY DEF ExecutorInv, WorkerInv, StopInv, StopEndsBurst
<1>2. QED  BY <1>1, ExecutorAlways, PTL

(* A tool that a stop cut short is not reported as done (executor.py:186). *)
THEOREM StopIsReported == Spec => []StopReported
<1>1. ExecutorInv => StopReported
  BY DEF ExecutorInv, WorkerInv, ReportInv, StopReported
<1>2. QED  BY <1>1, ExecutorAlways, PTL

(* However it ends, a tool leaves no mouse button down.                    *)
THEOREM ButtonsUp == Spec => []ButtonReleased
<1>1. ExecutorInv => ButtonReleased
  BY DEF ExecutorInv, WorkerInv, ButtonInv, ButtonReleased
<1>2. QED  BY <1>1, ExecutorAlways, PTL

(* A nesting flag belongs to a thread that is still in a tool.             *)
THEOREM ToolsCleanUp == Spec => []FlagFreed
<1>1. ExecutorInv => FlagFreed
  BY DEF ExecutorInv
<1>2. QED  BY <1>1, ExecutorAlways, PTL
=============================================================================
