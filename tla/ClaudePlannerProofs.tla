------------------------- MODULE ClaudePlannerProofs -------------------------
(***************************************************************************)
(* Proofs about ClaudePlanner: PlannerInv is inductive, so the properties  *)
(* hold for any number of planners, any screens and any limits.            *)
(***************************************************************************)
EXTENDS ClaudePlanner, TLAPS

LEMMA InitInv == Init => PlannerInv
<1> SUFFICES ASSUME Init PROVE PlannerInv
  OBVIOUS
<1> USE PlannerAssumption DEF Init
<1>1. TypeOK
  BY DEF TypeOK, Empty, Garbage, Answers, Numbers
<1>2. VisionCounted /\ OwnNumber
  BY DEF VisionCounted, OwnNumber
<1>3. OwnOutput /\ NoStepYet
  BY DEF OwnOutput, NoStepYet
<1>4. AnswerIsOwn
  BY DEF AnswerIsOwn
<1> QED
  BY <1>1, <1>2, <1>3, <1>4 DEF PlannerInv

(* One lemma for each action: a step of one planner leaves those parts of the
   invariant that are about the others.                                      *)
LEMMA AskKeeps ==
  ASSUME PlannerInv, NEW p \in Planners, NEW v \in Views, NEW shot \in BOOLEAN, NEW drew \in BOOLEAN,
         Ask(p, v, shot, drew)
  PROVE  PlannerInv'
<1> USE PlannerAssumption DEF PlannerInv, Ask, At, told, files, history
<1>1. VisionPath(p, v, shot, drew) \in BOOLEAN
  BY DEF VisionPath
<1>2. TypeOK'
  BY <1>1 DEF TypeOK
<1>3. VisionCounted'
  <2> SUFFICES ASSUME NEW q \in Planners
               PROVE  /\ used'[q] <= MaxVision /\ pictures'[q] <= used'[q]
                      /\ (pc'[q] = "ask" /\ picture'[q] => pictures'[q] < used'[q])
    BY DEF VisionCounted
  <2>1. pictures' = pictures /\ used[q] \in Nat /\ pictures[q] \in Nat
    BY DEF TypeOK
  <2>2. used[q] <= MaxVision /\ pictures[q] <= used[q]
    BY DEF VisionCounted
  <2>3. CASE q # p
    BY <2>1, <2>3 DEF TypeOK, VisionCounted
  <2>4. CASE q = p /\ VisionPath(p, v, shot, drew)
    <3>1. used'[p] = used[p] + 1 /\ used[p] < MaxVision
      BY <2>4 DEF TypeOK, VisionPath
    <3> QED
      BY <2>1, <2>2, <2>4, <3>1
  <2>5. CASE q = p /\ ~VisionPath(p, v, shot, drew)
    <3>1. used'[p] = used[p] /\ ~picture'[p]
      BY <2>5 DEF TypeOK
    <3> QED
      BY <2>1, <2>2, <2>5, <3>1
  <2> QED
    BY <2>3, <2>4, <2>5
<1>4. OwnNumber'
  BY DEF TypeOK, OwnNumber
<1>5. OwnOutput' /\ NoStepYet'
  BY DEF TypeOK, OwnOutput, NoStepYet
<1>6. AnswerIsOwn'
  BY DEF TypeOK, AnswerIsOwn
<1> QED
  BY <1>2, <1>3, <1>4, <1>5, <1>6

LEMMA FailsKeeps ==
  ASSUME PlannerInv, NEW p \in Planners, Fails(p)
  PROVE  PlannerInv'
<1> USE PlannerAssumption DEF PlannerInv, Fails, At, asking, history
<1>1. TypeOK'
  BY DEF TypeOK, Empty, Garbage, Answers
<1>2. VisionCounted'
  BY DEF TypeOK, VisionCounted
<1>3. OwnNumber'
  BY DEF TypeOK, OwnNumber
<1>4. OwnOutput'
  BY DEF TypeOK, OwnOutput, OwnNumber, Numbers
<1>5. NoStepYet' /\ AnswerIsOwn'
  BY DEF TypeOK, NoStepYet, AnswerIsOwn
<1> QED
  BY <1>1, <1>2, <1>3, <1>4, <1>5

LEMMA StartKeeps ==
  ASSUME PlannerInv, NEW p \in Planners, Start(p)
  PROVE  PlannerInv'
<1> USE PlannerAssumption DEF PlannerInv, Start, At, asking, told
<1>1. TypeOK'
  BY DEF TypeOK, Numbers
<1>2. VisionCounted'
  BY DEF TypeOK, VisionCounted
<1>3. OwnNumber'
  BY DEF TypeOK, OwnNumber, Numbers
<1>4. OwnOutput'
  BY DEF TypeOK, OwnOutput, OwnNumber
<1>5. NoStepYet' /\ AnswerIsOwn'
  BY DEF TypeOK, NoStepYet, AnswerIsOwn
<1> QED
  BY <1>1, <1>2, <1>3, <1>4, <1>5

LEMMA AnsweredKeeps ==
  ASSUME PlannerInv, NEW p \in Planners, NEW a \in Answers, Answered(p, a)
  PROVE  PlannerInv'
<1> USE PlannerAssumption DEF PlannerInv, Answered, At, asking, told
<1>1. TypeOK'
  BY DEF TypeOK
<1>2. VisionCounted' /\ OwnNumber'
  BY DEF TypeOK, VisionCounted, OwnNumber
<1>3. OwnOutput'
  BY DEF TypeOK, OwnOutput, OwnNumber, Numbers
<1>4. NoStepYet' /\ AnswerIsOwn'
  BY DEF TypeOK, NoStepYet, AnswerIsOwn
<1> QED
  BY <1>1, <1>2, <1>3, <1>4

(* Either way of reading: by what it leaves said of the call. *)
LEMMA ReadKeeps ==
  ASSUME PlannerInv, NEW p \in Planners, NEW a \in Answers, Read(p, a),
         \/ UNCHANGED <<said, foreign>> /\ a \in Tails(said[p])
         \/ said' = [said EXCEPT ![p] = Nothing] /\ foreign' = [foreign EXCEPT ![p] = TRUE]
  PROVE  PlannerInv'
<1> USE PlannerAssumption DEF PlannerInv, Read, At, asking, told
<1>1. TypeOK'
  BY DEF TypeOK, Empty, Garbage, Answers
<1>2. VisionCounted' /\ OwnNumber'
  BY DEF TypeOK, VisionCounted, OwnNumber
<1>3. OwnOutput'
  BY DEF TypeOK, OwnOutput, OwnNumber, Numbers, Tails
<1>4. NoStepYet' /\ AnswerIsOwn'
  BY DEF TypeOK, NoStepYet, AnswerIsOwn
<1> QED
  BY <1>1, <1>2, <1>3, <1>4

LEMMA ReadStdoutKeeps ==
  ASSUME PlannerInv, NEW p \in Planners, ReadStdout(p)
  PROVE  PlannerInv'
<1>1. PICK a \in {stdout[Ref(p)]} \cup Tails(said[p]) : Read(p, a)
  BY DEF ReadStdout
<1>2. said[p] \in Answers /\ stdout[number[p]] = said[p]
  BY DEF PlannerInv, OwnOutput, ReadStdout
<1>3. a \in Answers /\ a \in Tails(said[p])
  BY <1>1, <1>2 DEF Ref, Tails, Garbage, Answers
<1> QED
  BY <1>1, <1>3, ReadKeeps DEF ReadStdout

LEMMA ReadForeignKeeps ==
  ASSUME PlannerInv, NEW p \in Planners, NEW a \in Answers, ReadForeign(p, a)
  PROVE  PlannerInv'
BY ReadKeeps DEF ReadForeign

(* A call that tells the loop its outcome, for each of the outcomes. *)
LEMMA TellKeeps ==
  ASSUME PlannerInv, NEW p \in Planners, NEW o \in {"done", "invalid", "step"},
         NEW inf \in BOOLEAN, NEW s \in Steps \cup {Nothing}, Tell(p, o, inf, s),
         o = "step" <=> s # Nothing,
         o = "done" => answer[p].says = IF inf THEN "infeasible" ELSE "done",
         o = "step" => s.what = answer[p].says /\ s.id = answer[p].id,
         o = "step" => answer[p].says \in {"plain", "element"}
  PROVE  PlannerInv'
<1> USE PlannerAssumption DEF PlannerInv, Tell, At, asking, files, history
<1>1. TypeOK'
  BY DEF TypeOK
<1>2. VisionCounted' /\ OwnNumber'
  BY DEF TypeOK, VisionCounted, OwnNumber
<1>3. OwnOutput' /\ NoStepYet'
  BY DEF TypeOK, OwnOutput, NoStepYet
<1>4. AnswerIsOwn'
  <2> SUFFICES ASSUME NEW q \in Planners, pc'[q] = "back", ~foreign'[q]
               PROVE  /\ (outcome'[q] = "done" => said'[q] # Nothing /\
                            said'[q].says = IF infeasible'[q] THEN "infeasible" ELSE "done")
                      /\ (outcome'[q] = "step" =>
                            step'[q].what = said'[q].says /\ step'[q].id = said'[q].id)
                      /\ (outcome'[q] = "step" <=> step'[q] # Nothing)
    BY DEF AnswerIsOwn
  <2>1. CASE q # p
    BY <2>1 DEF TypeOK, AnswerIsOwn
  <2>2. CASE q = p
    <3>1. said[p] \in Answers /\ answer[p] \in {said[p], Garbage}
      BY <2>2 DEF OwnOutput, Tails
    <3>2. o # "invalid" => answer[p] = said[p]
      BY <3>1 DEF Garbage
    <3> QED
      BY <2>2, <3>1, <3>2 DEF TypeOK
  <2> QED
    BY <2>1, <2>2
<1> QED
  BY <1>1, <1>2, <1>3, <1>4

LEMMA PlanKeeps ==
  ASSUME PlannerInv, NEW p \in Planners, Plan(p)
  PROVE  PlannerInv'
<1> USE PlannerAssumption
<1>1. pc[p] = "parse" /\ answer[p] \in Answers
  BY DEF Plan, PlannerInv, OwnOutput
<1>2. infeasible[p] \in BOOLEAN
  BY DEF PlannerInv, TypeOK
<1>3. CASE Done(p)
  BY <1>3, TellKeeps DEF Done
<1>4. CASE Invalid(p)
  BY <1>2, <1>4, TellKeeps DEF Invalid
<1>5. CASE Plain(p)
  <2> DEFINE s == [what |-> "plain", id |-> "none"]
  <2>1. s \in Steps /\ s # Nothing
    BY DEF Steps
  <2>2. answer[p].id = "none"
    BY <1>1, <1>5 DEF Plain, Answers
  <2>3. Tell(p, "step", infeasible[p], s)
    BY <1>5 DEF Plain
  <2> QED
    BY <1>2, <1>5, <2>1, <2>2, <2>3, TellKeeps DEF Plain
<1>6. CASE OnElement(p)
  <2> DEFINE s == [what |-> "element", id |-> answer[p].id]
  <2>1. answer[p].id \in Elements /\ answer[p].says = "element"
    BY <1>1, <1>6 DEF OnElement, Answers
  <2>2. s \in Steps /\ s # Nothing
    BY <2>1 DEF Steps
  <2>3. Tell(p, "step", infeasible[p], s)
    BY <1>6 DEF OnElement
  <2> QED
    BY <1>2, <2>1, <2>2, <2>3, TellKeeps
<1>7. CASE Raise(p)
  <2> USE <1>7 DEF PlannerInv, Raise, At, asking, told, files, history
  <2>1. TypeOK' /\ VisionCounted' /\ OwnNumber'
    BY DEF TypeOK, VisionCounted, OwnNumber
  <2>2. OwnOutput' /\ NoStepYet' /\ AnswerIsOwn'
    BY DEF TypeOK, OwnOutput, NoStepYet, AnswerIsOwn
  <2> QED
    BY <2>1, <2>2
<1> QED
  BY <1>3, <1>4, <1>5, <1>6, <1>7 DEF Plan

LEMMA ReturnKeeps ==
  ASSUME PlannerInv, NEW p \in Planners, Return(p)
  PROVE  PlannerInv'
<1> USE PlannerAssumption DEF PlannerInv, Return, At, files
<1>1. TypeOK'
  BY DEF TypeOK
<1>2. VisionCounted'
  BY DEF TypeOK, VisionCounted
<1>3. OwnNumber'
  BY DEF TypeOK, OwnNumber, Numbers
<1>4. OwnOutput' /\ NoStepYet'
  BY DEF TypeOK, OwnOutput, NoStepYet
<1>5. AnswerIsOwn'
  BY DEF TypeOK, AnswerIsOwn
<1> QED
  BY <1>1, <1>2, <1>3, <1>4, <1>5

LEMMA StutterKeeps ==
  ASSUME PlannerInv, UNCHANGED vars
  PROVE  PlannerInv'
BY DEF PlannerInv, vars, asking, told, files, history, TypeOK, VisionCounted, OwnNumber, OwnOutput,
       NoStepYet, AnswerIsOwn

THEOREM PlannerInvariant == Spec => []PlannerInv
<1>1. PlannerInv /\ [Next]_vars => PlannerInv'
  BY AskKeeps, FailsKeeps, StartKeeps, AnsweredKeeps, ReadStdoutKeeps, ReadForeignKeeps, PlanKeeps,
     ReturnKeeps, StutterKeeps DEF Next
<1> QED
  BY InitInv, <1>1, PTL DEF Spec

(* Types of what the planners keep. *)
THEOREM PlannerTypes == Spec => []TypeOK
BY PlannerInvariant, PTL DEF PlannerInv

(* However often a task is asked again, fails or has just drawn, claude looks
   at no more pictures for it than it may.                                  *)
THEOREM PicturesBounded == Spec => []VisionBounded
<1>1. ASSUME PlannerInv, NEW p \in Planners
      PROVE  pictures[p] <= MaxVision
  <2>1. pictures[p] \in Nat /\ used[p] \in Nat /\ MaxVision \in Nat
    BY PlannerAssumption, <1>1 DEF PlannerInv, TypeOK
  <2>2. pictures[p] <= used[p] /\ used[p] <= MaxVision
    BY <1>1 DEF PlannerInv, VisionCounted
  <2> QED
    BY <2>1, <2>2
<1>2. PlannerInv => VisionBounded
  BY <1>1 DEF VisionBounded
<1> QED
  BY PlannerInvariant, <1>2, PTL

(* What the loop is told comes from Claude's answer to the call's question. *)
THEOREM AnswersOwn == Spec => []AnswerIsOwn
BY PlannerInvariant, PTL DEF PlannerInv
=============================================================================
