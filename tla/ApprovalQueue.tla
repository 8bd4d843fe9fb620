---------------------------- MODULE ApprovalQueue ----------------------------
(***************************************************************************)
(* The blocking approval handshake of ui/controller.py and the approval    *)
(* bar of ui/app_tk.py that answers it.  Worker threads call request();    *)
(* the one Tk thread shows pending() when it refreshes, and a click on     *)
(* Approve or Deny calls resolve().  The semaphore, the lock's two         *)
(* sections and the event are separate steps.                              *)
(***************************************************************************)
EXTENDS Naturals

CONSTANTS
  Workers,      \* threads that may need an approval
  Nobody,       \* the slot's value while it is free
  Timed,        \* request() is given a timeout (the control window gives none)
  MaxRequests   \* bound: requests made in a run

ASSUME ApprovalQueueAssumption ==
  /\ Nobody \notin Workers
  /\ Timed \in BOOLEAN
  /\ MaxRequests \in Nat

Requests == 1..MaxRequests
None == 0

VARIABLES
  slot,       \* owner of the semaphore
  request,    \* _request
  pending,    \* _pending
  decision,   \* _decision
  event,      \* _event is set
  place,      \* where each worker is in request()
  mine,       \* the request each worker made last
  got,        \* result of its event.wait()
  shown,      \* the request the approval bar shows; buttons are off at None
  ui,         \* the Tk thread is at rest, or about to set the event
  issued,     \* requests made so far
  granted,    \* history: requests answered True
  yes,        \* history: requests pending when an Approve was recorded
  endorsed    \* history: requests shown when Approve was clicked

shared == <<slot, request, pending, decision, event>>
caller == <<place, mine, got, issued, granted>>
window == <<shown, ui, yes, endorsed>>
queueVars == <<shared, caller, window>>

Goto(w, from, to) == place[w] = from /\ place' = [place EXCEPT ![w] = to]

QueueInit ==
  /\ slot = Nobody /\ request = None
  /\ pending = FALSE /\ decision = FALSE /\ event = FALSE
  /\ place = [w \in Workers |-> "idle"]
  /\ mine = [w \in Workers |-> None]
  /\ got = [w \in Workers |-> FALSE]
  /\ shown = None /\ ui = "rest"
  /\ issued = 0 /\ granted = {} /\ yes = {} /\ endorsed = {}

-----------------------------------------------------------------------------
(* ApprovalQueue.request, on a worker thread.                              *)

Submit(w) ==
  /\ issued < MaxRequests
  /\ Goto(w, "idle", "slot")
  /\ issued' = issued + 1
  /\ mine' = [mine EXCEPT ![w] = issued']
  /\ UNCHANGED <<shared, got, granted, window>>

(* Mutant: the semaphore admits everyone. *)
MutAcquireTaken(w) ==
  /\ Goto(w, "slot", "arm")
  /\ slot' = w
  /\ UNCHANGED <<request, pending, decision, event, mine, got, issued, granted, window>>

AcquireSlot(w) ==
  /\ slot = Nobody
  /\ Goto(w, "slot", "arm")
  /\ slot' = w
  /\ UNCHANGED <<request, pending, decision, event, mine, got, issued, granted, window>>

SlotTimesOut(w) ==
  /\ Timed
  /\ Goto(w, "slot", "idle")
  /\ UNCHANGED <<shared, mine, got, issued, granted, window>>

(* Mutant: the answer to the last request is not reset. *)
MutArmKeepsDecision(w) ==
  /\ Goto(w, "arm", "wait")
  /\ request' = mine[w] /\ pending' = TRUE
  /\ event' = FALSE
  /\ UNCHANGED <<slot, decision, mine, got, issued, granted, window>>

Arm(w) ==
  /\ Goto(w, "arm", "wait")
  /\ request' = mine[w] /\ pending' = TRUE
  /\ decision' = FALSE /\ event' = FALSE
  /\ UNCHANGED <<slot, mine, got, issued, granted, window>>

Wake(w) ==
  /\ event
  /\ Goto(w, "wait", "close")
  /\ got' = [got EXCEPT ![w] = TRUE]
  /\ UNCHANGED <<shared, mine, issued, granted, window>>

WaitTimesOut(w) ==
  /\ Timed
  /\ Goto(w, "wait", "close")
  /\ got' = [got EXCEPT ![w] = FALSE]
  /\ UNCHANGED <<shared, mine, issued, granted, window>>

Close(w) ==
  /\ Goto(w, "close", "release")
  /\ pending' = FALSE /\ request' = None
  /\ granted' = IF got[w] /\ decision THEN granted \union {mine[w]} ELSE granted
  /\ UNCHANGED <<slot, decision, event, mine, got, issued, window>>

Release(w) ==
  /\ Goto(w, "release", "idle")
  /\ slot' = Nobody
  /\ UNCHANGED <<request, pending, decision, event, mine, got, issued, granted, window>>

-----------------------------------------------------------------------------
(* The Tk thread: the refresh timer, and clicks on enabled buttons.        *)

Refresh ==
  /\ ui = "rest"
  /\ shown' = IF pending THEN request ELSE None
  /\ UNCHANGED <<shared, caller, ui, yes, endorsed>>

Click(approved) ==
  /\ ui = "rest" /\ shown # None
  /\ decision' = approved
  /\ ui' = "signal"
  /\ yes' = IF approved /\ pending THEN yes \union {request} ELSE yes
  /\ endorsed' = IF approved THEN endorsed \union {shown} ELSE endorsed
  /\ UNCHANGED <<slot, request, pending, event, caller, shown>>

(* Mutant: only an Approve wakes the worker. *)
MutSignalApproval ==
  /\ ui = "signal"
  /\ event' = (event \/ decision)
  /\ ui' = "rest"
  /\ UNCHANGED <<slot, request, pending, decision, caller, shown, yes, endorsed>>

Signal ==
  /\ ui = "signal"
  /\ event' = TRUE
  /\ ui' = "rest"
  /\ UNCHANGED <<slot, request, pending, decision, caller, shown, yes, endorsed>>

-----------------------------------------------------------------------------
(* What a worker does by itself once its request is in.                    *)
Answering(w) == AcquireSlot(w) \/ Arm(w) \/ Wake(w) \/ Close(w) \/ Release(w)
Tk == Refresh \/ Signal \/ \E approved \in BOOLEAN : Click(approved)

Next ==
  \/ \E w \in Workers :
       \/ Submit(w) \/ AcquireSlot(w) \/ Arm(w) \/ Wake(w) \/ Close(w) \/ Release(w)
       \/ SlotTimesOut(w) \/ WaitTimesOut(w)
  \/ Tk

Spec == QueueInit /\ [][Next]_queueVars

(* Worker threads and the Tk thread are scheduled; the refresh timer       *)
(* fires.  Nobody has to click, and no timeout has to be set.              *)
FairSpec ==
  /\ Spec
  /\ \A w \in Workers : WF_queueVars(Answering(w))
  /\ WF_queueVars(Refresh) /\ WF_queueVars(Signal)

-----------------------------------------------------------------------------
InSlot(w) == place[w] \in {"arm", "wait", "close", "release"}

TypeOK ==
  /\ slot \in Workers \union {Nobody}
  /\ request \in Requests \union {None}
  /\ pending \in BOOLEAN /\ decision \in BOOLEAN /\ event \in BOOLEAN
  /\ place \in [Workers -> {"idle", "slot", "arm", "wait", "close", "release"}]
  /\ mine \in [Workers -> Requests \union {None}]
  /\ got \in [Workers -> BOOLEAN]
  /\ shown \in Requests \union {None} /\ ui \in {"rest", "signal"}
  /\ issued \in 0..MaxRequests
  /\ granted \subseteq Requests /\ yes \subseteq Requests /\ endorsed \subseteq Requests

(* However requests, timeouts and clicks interleave, what the window can   *)
(* show is one request, and that is the request of the one worker that     *)
(* holds the slot and still waits for its answer.                          *)
OneOpenRequest ==
  /\ \A v, w \in Workers : InSlot(v) /\ InSlot(w) => v = w
  /\ pending => \E w \in Workers : place[w] \in {"wait", "close"} /\ mine[w] = request

(* Deny by default: a request is answered True only if an Approve was      *)
(* recorded while that very request was pending.  A timeout, an answer     *)
(* that comes too late, or a click left from an earlier request, grants    *)
(* nothing by itself.                                                      *)
DenyByDefault == granted \subseteq yes

(* A click releases the worker: the event it sets is not lost to the       *)
(* clear() of another request.                                             *)
ClickReleases ==
  \A w \in Workers : (place[w] = "wait" /\ ui = "signal") ~> place[w] = "idle"

(* The inductive invariant: who holds the slot, whose request is open, and *)
(* that a recorded Approve names the request it will be read for.          *)
SlotHeld == \A w \in Workers : InSlot(w) <=> slot = w
Asking(w) == place[w] \in {"wait", "close"}
RequestMade == \A w \in Workers : place[w] # "idle" => mine[w] # None
OwnerOpen ==
  /\ \A w \in Workers : Asking(w) => pending /\ request = mine[w]
  /\ pending => \E w \in Workers : Asking(w)
AnswerRecorded == \A w \in Workers : Asking(w) /\ decision => mine[w] \in yes
QueueInv == TypeOK /\ SlotHeld /\ RequestMade /\ OwnerOpen /\ AnswerRecorded /\ DenyByDefault

(* What the window says of a click: Approve answers the request shown.     *)
ApprovedAsShown == granted \subseteq endorsed
=============================================================================
