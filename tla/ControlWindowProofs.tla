------------------------- MODULE ControlWindowProofs -------------------------
(* The approval queue and the window that asks it. For any number of       *)
(* workers and requests, with or without timeouts, one request is open at  *)
(* a time and none is granted without an Approve; in the window what needs *)
(* approval runs only with its own, and a stop lets one operation through. *)
EXTENDS ControlWindow, TLAPS

USE ApprovalQueueAssumption

LEMMA InitQueue == QueueInit => QueueInv
<1> SUFFICES ASSUME QueueInit  PROVE QueueInv
  OBVIOUS
<1>1. TypeOK
  <2>1. issued \in 0..MaxRequests
    BY DEF QueueInit
  <2>2. QED  BY <2>1 DEF QueueInit, TypeOK
<1>2. SlotHeld /\ RequestMade /\ OwnerOpen /\ AnswerRecorded /\ DenyByDefault
  BY DEF QueueInit, SlotHeld, RequestMade, OwnerOpen, AnswerRecorded, DenyByDefault, InSlot, Asking
<1>3. QED  BY <1>1, <1>2 DEF QueueInv

LEMMA NextTypes == QueueInv /\ [Next]_queueVars => TypeOK'
<1> SUFFICES ASSUME QueueInv, [Next]_queueVars  PROVE TypeOK'
  OBVIOUS
<1> USE DEF QueueInv, TypeOK, Goto, shared, caller, window
<1>1. ASSUME NEW w \in Workers, Submit(w)  PROVE TypeOK'
  BY <1>1 DEF Submit, Requests
<1>2. ASSUME NEW w \in Workers, AcquireSlot(w)  PROVE TypeOK'
  BY <1>2 DEF AcquireSlot
<1>3. ASSUME NEW w \in Workers, SlotTimesOut(w)  PROVE TypeOK'
  BY <1>3 DEF SlotTimesOut
<1>4. ASSUME NEW w \in Workers, Arm(w)  PROVE TypeOK'
  BY <1>4 DEF Arm
<1>5. ASSUME NEW w \in Workers, Wake(w)  PROVE TypeOK'
  BY <1>5 DEF Wake
<1>6. ASSUME NEW w \in Workers, WaitTimesOut(w)  PROVE TypeOK'
  BY <1>6 DEF WaitTimesOut
<1>7. ASSUME NEW w \in Workers, Close(w)  PROVE TypeOK'
  BY <1>7 DEF Close, RequestMade
<1>8. ASSUME NEW w \in Workers, Release(w)  PROVE TypeOK'
  BY <1>8 DEF Release
<1>9. CASE Refresh
  BY <1>9 DEF Refresh
<1>10. ASSUME NEW approved \in BOOLEAN, Click(approved)  PROVE TypeOK'
  <2>1. pending => request \in Requests
    BY DEF OwnerOpen, RequestMade, Asking
  <2>2. QED  BY <1>10, <2>1 DEF Click
<1>11. CASE Signal
  BY <1>11 DEF Signal
<1>12. CASE UNCHANGED queueVars
  BY <1>12 DEF queueVars
<1>13. QED
  BY <1>1, <1>2, <1>3, <1>4, <1>5, <1>6, <1>7, <1>8, <1>9, <1>10, <1>11, <1>12 DEF Next, Tk

(* One step per action: who holds the slot, whose request is open, and     *)
(* which recorded answers it can still read.                               *)
LEMMA NextQueue == QueueInv /\ [Next]_queueVars => QueueInv'
<1> SUFFICES ASSUME QueueInv, [Next]_queueVars
             PROVE  SlotHeld' /\ RequestMade' /\ OwnerOpen' /\ AnswerRecorded' /\ DenyByDefault'
  BY NextTypes DEF QueueInv
<1> USE DEF QueueInv, TypeOK, SlotHeld, RequestMade, OwnerOpen, AnswerRecorded, DenyByDefault, InSlot,
            Asking, Goto, shared, caller, window
<1>1. ASSUME NEW w \in Workers, Submit(w)
      PROVE  SlotHeld' /\ RequestMade' /\ OwnerOpen' /\ AnswerRecorded' /\ DenyByDefault'
  BY <1>1 DEF Submit, None
<1>2. ASSUME NEW w \in Workers, AcquireSlot(w)
      PROVE  SlotHeld' /\ RequestMade' /\ OwnerOpen' /\ AnswerRecorded' /\ DenyByDefault'
  BY <1>2 DEF AcquireSlot
<1>3. ASSUME NEW w \in Workers, SlotTimesOut(w)
      PROVE  SlotHeld' /\ RequestMade' /\ OwnerOpen' /\ AnswerRecorded' /\ DenyByDefault'
  BY <1>3 DEF SlotTimesOut
<1>4. ASSUME NEW w \in Workers, Arm(w)
      PROVE  SlotHeld' /\ RequestMade' /\ OwnerOpen' /\ AnswerRecorded' /\ DenyByDefault'
  BY <1>4 DEF Arm
<1>5. ASSUME NEW w \in Workers, Wake(w) \/ WaitTimesOut(w)
      PROVE  SlotHeld' /\ RequestMade' /\ OwnerOpen' /\ AnswerRecorded' /\ DenyByDefault'
  BY <1>5 DEF Wake, WaitTimesOut
<1>6. ASSUME NEW w \in Workers, Close(w)
      PROVE  SlotHeld' /\ RequestMade' /\ OwnerOpen' /\ AnswerRecorded' /\ DenyByDefault'
  BY <1>6 DEF Close
<1>7. ASSUME NEW w \in Workers, Release(w)
      PROVE  SlotHeld' /\ RequestMade' /\ OwnerOpen' /\ AnswerRecorded' /\ DenyByDefault'
  BY <1>7 DEF Release
<1>8. CASE Refresh
  BY <1>8 DEF Refresh
<1>9. ASSUME NEW approved \in BOOLEAN, Click(approved)
      PROVE  SlotHeld' /\ RequestMade' /\ OwnerOpen' /\ AnswerRecorded' /\ DenyByDefault'
  BY <1>9 DEF Click
<1>10. CASE Signal
  BY <1>10 DEF Signal
<1>11. CASE UNCHANGED queueVars
  BY <1>11 DEF queueVars
<1>12. QED
  BY <1>1, <1>2, <1>3, <1>4, <1>5, <1>6, <1>7, <1>8, <1>9, <1>10, <1>11 DEF Next, Tk

LEMMA QueueInvariant == Spec => []QueueInv
<1>1. QueueInv /\ [Next]_queueVars => QueueInv'
  BY NextQueue
<1>2. QED  BY InitQueue, <1>1, PTL DEF Spec

(* One worker is in the handshake at a time and its request is the one     *)
(* that is open.                                                           *)
THEOREM OneAtATime == Spec => [](TypeOK /\ OneOpenRequest)
<1>1. QueueInv => TypeOK /\ OneOpenRequest
  BY DEF QueueInv, SlotHeld, OwnerOpen, OneOpenRequest, InSlot, Asking
<1>2. QED  BY QueueInvariant, <1>1, PTL

(* No request is answered True that no Approve was recorded for.           *)
THEOREM DenyUnlessApproved == Spec => []DenyByDefault
<1>1. QueueInv => DenyByDefault
  BY DEF QueueInv
<1>2. QED  BY QueueInvariant, <1>1, PTL

-----------------------------------------------------------------------------
(* A step of the window is a step of the queue or leaves it alone.         *)
LEMMA StepKeepsQueue == [WindowNext]_windowVars => [Next]_queueVars
<1> SUFFICES ASSUME [WindowNext]_windowVars  PROVE [Next]_queueVars
  OBVIOUS
<1>1. ASSUME NEW w \in Workers,
             \/ Run(w) \/ BeginFree(w) \/ Answer(w) \/ Start(w) \/ Finish(w) \/ TaskEnds(w)
      PROVE  UNCHANGED queueVars
  BY <1>1 DEF Run, BeginFree, Answer, Start, Finish, TaskEnds
<1>2. ASSUME NEW w \in Workers, BeginGated(w)  PROVE Next
  BY <1>2 DEF BeginGated, Next
<1>3. ASSUME NEW w \in Workers,
             \/ Queue(AcquireSlot(w)) \/ Queue(Arm(w)) \/ Queue(Wake(w)) \/ Queue(Close(w))
             \/ Queue(Release(w))
      PROVE  Next
  BY <1>3 DEF Queue, Next
<1>4. ASSUME Queue(Refresh) \/ Queue(Signal) \/ \E approved \in BOOLEAN : Queue(Click(approved))
      PROVE  Next
  BY <1>4 DEF Queue, Next, Tk
<1>5. ASSUME PressStop \/ ClearStop  PROVE UNCHANGED queueVars
  BY <1>5 DEF PressStop, ClearStop
<1>6. CASE UNCHANGED windowVars
  BY <1>6 DEF windowVars
<1>7. QED  BY <1>1, <1>2, <1>3, <1>4, <1>5, <1>6 DEF WindowNext

LEMMA InitWindow == WindowInit => WindowInv
<1> SUFFICES ASSUME WindowInit  PROVE WindowInv
  OBVIOUS
<1>1. QueueInv
  BY InitQueue DEF WindowInit
<1>2. WindowTypeOK
  BY DEF WindowInit, WindowTypeOK
<1>3. OnlyAskingInQueue /\ AllowedIsGranted /\ NoneThroughYet /\ StopLetsOneEach
  BY DEF WindowInit, QueueInit, OnlyAskingInQueue, AllowedIsGranted, NoneThroughYet, StopLetsOneEach
<1>4. QED  BY <1>1, <1>2, <1>3 DEF WindowInv

LEMMA NextAllowed ==
  WindowInv /\ [WindowNext]_windowVars => WindowTypeOK' /\ OnlyAskingInQueue' /\ AllowedIsGranted'
<1> SUFFICES ASSUME WindowInv, [WindowNext]_windowVars
             PROVE  WindowTypeOK' /\ OnlyAskingInQueue' /\ AllowedIsGranted'
  OBVIOUS
<1> USE DEF WindowInv, WindowTypeOK, OnlyAskingInQueue, AllowedIsGranted, Move, QueueInv, TypeOK
<1>1. ASSUME NEW w \in Workers, Run(w) \/ TaskEnds(w)
      PROVE  WindowTypeOK' /\ OnlyAskingInQueue' /\ AllowedIsGranted'
  BY <1>1 DEF Run, TaskEnds, queueVars, shared, caller, window
<1>2. ASSUME NEW w \in Workers, BeginFree(w)
      PROVE  WindowTypeOK' /\ OnlyAskingInQueue' /\ AllowedIsGranted'
  BY <1>2 DEF BeginFree, queueVars, shared, caller, window
<1>3. ASSUME NEW w \in Workers, BeginGated(w)
      PROVE  WindowTypeOK' /\ OnlyAskingInQueue' /\ AllowedIsGranted'
  BY <1>3 DEF BeginGated, Submit, Goto, shared, window
<1>4. ASSUME NEW w \in Workers, Answer(w)
      PROVE  WindowTypeOK' /\ OnlyAskingInQueue' /\ AllowedIsGranted'
  BY <1>4 DEF Answer, queueVars, shared, caller, window
<1>5. ASSUME NEW w \in Workers, Start(w) \/ Finish(w)
      PROVE  WindowTypeOK' /\ OnlyAskingInQueue' /\ AllowedIsGranted'
  BY <1>5 DEF Start, Finish, queueVars, shared, caller, window
<1>6. ASSUME NEW w \in Workers,
             \/ Queue(AcquireSlot(w)) \/ Queue(Arm(w)) \/ Queue(Wake(w)) \/ Queue(Close(w))
             \/ Queue(Release(w))
      PROVE  WindowTypeOK' /\ OnlyAskingInQueue' /\ AllowedIsGranted'
  <2>1. UNCHANGED <<stopped, at, gated, through, mine>> /\ granted \subseteq granted'
    BY <1>6 DEF Queue, AcquireSlot, Arm, Wake, Close, Release, shared, window
  <2>2. \A v \in Workers : v # w => place'[v] = place[v]
    BY <1>6 DEF Queue, AcquireSlot, Arm, Wake, Close, Release, Goto
  <2>3. place[w] # "idle"
    BY <1>6 DEF Queue, AcquireSlot, Arm, Wake, Close, Release, Goto
  <2>4. QED  BY <2>1, <2>2, <2>3
<1>7. ASSUME Queue(Refresh) \/ Queue(Signal) \/ \E approved \in BOOLEAN : Queue(Click(approved))
      PROVE  WindowTypeOK' /\ OnlyAskingInQueue' /\ AllowedIsGranted'
  BY <1>7 DEF Queue, Refresh, Signal, Click, shared, caller
<1>8. CASE PressStop \/ ClearStop
  <2>1. through' \in [Workers -> Nat]
    BY <1>8 DEF PressStop, ClearStop
  <2>2. UNCHANGED <<queueVars, at, gated>> /\ stopped' \in BOOLEAN
    BY <1>8 DEF PressStop, ClearStop
  <2>3. UNCHANGED <<at, gated, mine, granted, place>>
    BY <2>2 DEF queueVars, shared, caller, window
  <2>4. QED  BY <2>1, <2>2, <2>3
<1>9. CASE UNCHANGED windowVars
  BY <1>9 DEF windowVars, queueVars, shared, caller, window
<1>10. QED
  BY <1>1, <1>2, <1>3, <1>4, <1>5, <1>6, <1>7, <1>8, <1>9 DEF WindowNext

(* What a thread has started under the stop: only Start counts, and only a  *)
(* thread that looked before the stop gets there.                          *)
LEMMA NextThrough ==
  WindowInv /\ [WindowNext]_windowVars => NoneThroughYet' /\ StopLetsOneEach'
<1> SUFFICES ASSUME WindowInv, [WindowNext]_windowVars
             PROVE  NoneThroughYet' /\ StopLetsOneEach'
  OBVIOUS
<1> USE DEF WindowInv, WindowTypeOK, NoneThroughYet, StopLetsOneEach, Move
<1>1. ASSUME NEW w \in Workers, Run(w) \/ Answer(w) \/ Finish(w) \/ TaskEnds(w)
      PROVE  NoneThroughYet' /\ StopLetsOneEach'
  BY <1>1 DEF Run, Answer, Finish, TaskEnds
<1>2. ASSUME NEW w \in Workers, BeginFree(w) \/ BeginGated(w)
      PROVE  NoneThroughYet' /\ StopLetsOneEach'
  BY <1>2 DEF BeginFree, BeginGated
<1>3. ASSUME NEW w \in Workers, Start(w)
      PROVE  NoneThroughYet' /\ StopLetsOneEach'
  BY <1>3 DEF Start
<1>4. ASSUME UNCHANGED <<stopped, at, gated, through>>
      PROVE  NoneThroughYet' /\ StopLetsOneEach'
  BY <1>4
<1>5. ASSUME PressStop \/ ClearStop
      PROVE  NoneThroughYet' /\ StopLetsOneEach'
  BY <1>5 DEF PressStop, ClearStop
<1>6. CASE UNCHANGED windowVars
  BY <1>6 DEF windowVars
<1>7. QED
  BY <1>1, <1>2, <1>3, <1>4, <1>5, <1>6 DEF WindowNext, Queue

LEMMA NextWindow == WindowInv /\ [WindowNext]_windowVars => WindowInv'
BY StepKeepsQueue, NextQueue, NextAllowed, NextThrough DEF WindowInv

(* What needs approval runs only when its own request was approved.        *)
THEOREM RunsOnlyIfApproved == WindowSpec => []RunsIfApproved
<1>1. WindowInv => RunsIfApproved
  BY DEF WindowInv, QueueInv, AllowedIsGranted, DenyByDefault, RunsIfApproved
<1>2. QED  BY InitWindow, NextWindow, <1>1, PTL DEF WindowSpec

(* A stop lets each thread start one operation more at most, whenever the  *)
(* user answers what was asked before it.                                  *)
THEOREM StopsLetOneEach == WindowSpec => []StopLetsOneEach
<1>1. WindowInv => StopLetsOneEach
  BY DEF WindowInv
<1>2. QED  BY InitWindow, NextWindow, <1>1, PTL DEF WindowSpec
=============================================================================
