---------------------------- MODULE ControlWindow ----------------------------
(***************************************************************************)
(* The control window as `ui` wires it (__main__.py): each click on Run    *)
(* starts a task on a thread of its own, and the threads share one         *)
(* executor, one broker, one emergency stop and one approval queue.  An    *)
(* operation (an action, a tool, a command) looks at the stop, asks for    *)
(* approval when its risk needs it, and starts when it is allowed.         *)
(***************************************************************************)
EXTENDS ApprovalQueue

VARIABLES
  stopped,   \* what the EmergencyStop answers
  at,        \* what each thread is doing
  gated,     \* is each thread's operation one that needs approval
  through    \* history: operations each thread has started under the present
             \* stop, counted up to two

windowVars == <<queueVars, stopped, at, gated, through>>

WindowInit ==
  /\ QueueInit
  /\ stopped \in BOOLEAN
  /\ at = [w \in Workers |-> "done"]
  /\ gated = [w \in Workers |-> FALSE]
  /\ through = [w \in Workers |-> 0]

Move(w, from, to) == at[w] = from /\ at' = [at EXCEPT ![w] = to]

-----------------------------------------------------------------------------
(* A task's thread.                                                        *)

Run(w) ==
  /\ ui = "rest"
  /\ Move(w, "done", "ready")
  /\ UNCHANGED <<queueVars, stopped, gated, through>>

(* Mutant: only operations that ask look at the stop. *)
MutBeginFreeBlind(w) ==
  /\ Move(w, "ready", "go")
  /\ gated' = [gated EXCEPT ![w] = FALSE]
  /\ UNCHANGED <<queueVars, stopped, through>>

BeginFree(w) ==
  /\ ~stopped
  /\ Move(w, "ready", "go")
  /\ gated' = [gated EXCEPT ![w] = FALSE]
  /\ UNCHANGED <<queueVars, stopped, through>>

(* Mutant: an operation that asks leaves the look at the stop to the user. *)
MutBeginGatedBlind(w) ==
  /\ Move(w, "ready", "asking")
  /\ gated' = [gated EXCEPT ![w] = TRUE]
  /\ Submit(w)
  /\ UNCHANGED <<stopped, through>>

BeginGated(w) ==
  /\ ~stopped
  /\ Move(w, "ready", "asking")
  /\ gated' = [gated EXCEPT ![w] = TRUE]
  /\ Submit(w)
  /\ UNCHANGED <<stopped, through>>

(* Mutant: whatever the answer, the operation goes on. *)
MutAnswerIgnored(w) ==
  /\ place[w] = "idle"
  /\ Move(w, "asking", "go")
  /\ UNCHANGED <<queueVars, stopped, gated, through>>

(* request() has returned: go on if it returned True, else the operation   *)
(* is blocked and the task goes on to recover.                             *)
Answer(w) ==
  /\ place[w] = "idle"
  /\ Move(w, "asking", IF mine[w] \in granted THEN "go" ELSE "ready")
  /\ UNCHANGED <<queueVars, stopped, gated, through>>

Start(w) ==
  /\ Move(w, "go", "running")
  /\ through' = [through EXCEPT ![w] = IF stopped /\ @ < 2 THEN @ + 1 ELSE @]
  /\ UNCHANGED <<queueVars, stopped, gated>>

Finish(w) ==
  /\ Move(w, "running", "ready")
  /\ UNCHANGED <<queueVars, stopped, gated, through>>

(* The loop ends: halted by the stop, or for a reason of its own.          *)
TaskEnds(w) ==
  /\ Move(w, "ready", "done")
  /\ UNCHANGED <<queueVars, stopped, gated, through>>

-----------------------------------------------------------------------------
PressStop ==
  /\ ui = "rest"
  /\ stopped' = TRUE
  /\ UNCHANGED <<queueVars, at, gated, through>>

ClearStop ==
  /\ ui = "rest"
  /\ stopped' = FALSE
  /\ through' = [w \in Workers |-> 0]
  /\ UNCHANGED <<queueVars, at, gated>>

Queue(A) == A /\ UNCHANGED <<stopped, at, gated, through>>

Own(w) == BeginFree(w) \/ BeginGated(w) \/ Answer(w) \/ Start(w) \/ Finish(w) \/ TaskEnds(w)

WindowNext ==
  \/ \E w \in Workers :
       \/ Run(w) \/ BeginFree(w) \/ BeginGated(w) \/ Answer(w) \/ Start(w) \/ Finish(w)
       \/ TaskEnds(w)
       \/ Queue(AcquireSlot(w)) \/ Queue(Arm(w)) \/ Queue(Wake(w)) \/ Queue(Close(w))
       \/ Queue(Release(w))
  \/ Queue(Refresh) \/ Queue(Signal) \/ \E approved \in BOOLEAN : Queue(Click(approved))
  \/ PressStop \/ ClearStop

WindowSpec == WindowInit /\ [][WindowNext]_windowVars

(* The threads of the tasks and of the window are scheduled and an         *)
(* operation returns.  Nobody has to click anything.                       *)
FairWindowSpec ==
  /\ WindowSpec
  /\ \A w \in Workers : WF_windowVars(Own(w)) /\ WF_windowVars(Queue(Answering(w)))
  /\ WF_windowVars(Queue(Refresh)) /\ WF_windowVars(Queue(Signal))

(* The same with a user who answers what the approval bar shows.           *)
AttendedWindowSpec ==
  /\ FairWindowSpec
  /\ WF_windowVars(\E approved \in BOOLEAN : Queue(Click(approved)))

-----------------------------------------------------------------------------
WindowTypeOK ==
  /\ stopped \in BOOLEAN
  /\ at \in [Workers -> {"done", "ready", "asking", "go", "running"}]
  /\ gated \in [Workers -> BOOLEAN]
  /\ through \in [Workers -> Nat]

(* An operation that needs approval runs only when an Approve was recorded *)
(* for its own request while that request was the pending one.             *)
RunsIfApproved ==
  \A w \in Workers : at[w] \in {"go", "running"} /\ gated[w] => mine[w] \in yes

(* Under a stop that nobody has cleared each thread starts one operation   *)
(* at most, the one that had looked at the stop before: be it allowed      *)
(* already, or waiting for an answer that the user gives after the stop.   *)
StopLetsOneEach == \A w \in Workers : through[w] <= 1

(* A stop that stays ends every task, whatever it is doing when the stop   *)
(* comes.  It does if the user goes on answering what the window asks; if  *)
(* not, a thread waits for its approval and never looks at the stop.       *)
StopEndsTasks == <>[]stopped => \A w \in Workers : []<>(at[w] = "done")

(* The inductive invariant: only a thread that is asking is in the queue,  *)
(* so the request it was answered for is still its own when it starts; and *)
(* a thread past its look has started nothing under the present stop.      *)
OnlyAskingInQueue == \A w \in Workers : at[w] # "asking" => place[w] = "idle"
AllowedIsGranted ==
  \A w \in Workers : at[w] \in {"go", "running"} /\ gated[w] => mine[w] \in granted
NoneThroughYet ==
  \A w \in Workers : ~stopped \/ at[w] \in {"asking", "go"} => through[w] = 0
WindowInv ==
  /\ WindowTypeOK /\ QueueInv /\ OnlyAskingInQueue /\ AllowedIsGranted
  /\ NoneThroughYet /\ StopLetsOneEach
=============================================================================
