------------------------------ MODULE McpBridge ------------------------------
(***************************************************************************)
(* The bridge an external agent drives the desktop through                 *)
(* (mcp_server/bridge.py), with the perception it answers from             *)
(* (perception/perceiver.py, perception/uia_backend.py).                   *)
(*                                                                         *)
(* The server's tools are plain functions, so it serves one request after  *)
(* another. What moves in between is the rest of the world: controls       *)
(* appear, move and vanish, windows come to the front, and other processes *)
(* set and clear the emergency stop through its file.                      *)
(*                                                                         *)
(* An action of the agent is one of five kinds: not an object, refused by  *)
(* parse_action, of a "type" that cannot be looked up (a list, an object), *)
(* denied by the policy, or one that may be executed.  A control is what   *)
(* the agent may click; its place is the point in the middle of its        *)
(* bounds.                                                                 *)
(***************************************************************************)
EXTENDS Naturals, Sequences, FiniteSets

CONSTANTS Control,      \* the controls applications may show
          Place,        \* where on the screen a control may be
          Nowhere,      \* the place of a control that is not shown
          Ident,        \* the id stable_element_id gives each control
          Tier,         \* the rank of each control's type: 0 is kept first
          Order,        \* when the tree walk comes to each control
          Deep,         \* the controls below the depth the walk goes to
          Lettered,     \* the controls whose text OCR can read
          OcrId,        \* the id of an element that only OCR found
          MaxElements,  \* how many elements of a walk are kept
          Window,       \* the titles a foreground window may have
          Filters,      \* the sets of controls a perceive may be narrowed to
          Caps,         \* the max_elements a perceive may ask for, 0 for none
          MaxBatch      \* bound: the longest list of actions sent

ASSUME BridgeAssumption ==
    /\ Nowhere \notin Place
    /\ Ident \in [Control -> STRING]
    /\ \A c \in Control : Ident[c] # OcrId
    /\ Tier \in [Control -> 0 .. 3]
    /\ Order \in [Control -> Nat]
    /\ \A c, d \in Control : Order[c] = Order[d] => c = d
    /\ IsFiniteSet(Control)
    /\ Deep \subseteq Control /\ Lettered \subseteq Control
    /\ MaxElements \in Nat \ {0}
    /\ MaxBatch \in Nat \ {0}
    /\ Filters \subseteq SUBSET Control
    /\ Caps \subseteq Nat

VARIABLES at,        \* where each control is now
          window,    \* the foreground window
          stopped,   \* the emergency stop, as a look finds it
          pc,        \* where the bridge is in serving a request
          call,      \* the request
          index,     \* the action of the batch it is at
          okays,     \* the actions of the batch whose result is ok
          failedAt,  \* the action the report names as failed, 0 for none
          before,    \* the signature taken before an act that reports changes
          listing,   \* the last perception: elements, and whether it was cut
          answer,    \* the last answer
          touched,   \* history: the actions that reached the desktop
          failed,    \* history: the actions of the batch that failed
          through,   \* history: actions that touched under an unbroken stop
          calm,      \* history: nothing on the screen moved since the click was asked for
          hit        \* history: what a click by id found at its place

bridgeVars == <<pc, call, index, okays, failedAt, before, listing, answer>>
history == <<touched, failed, through, calm, hit>>
vars == <<at, window, stopped, bridgeVars, history>>

Kind == {"notObject", "malformed", "unhashable", "denied", "plain"}
Idents == {Ident[c] : c \in Control} \cup {OcrId}
Batch == UNION {[1 .. n -> Kind] : n \in 0 .. MaxBatch}
NoCall == [op |-> "none"]
NoHit == [controls |-> {}, place |-> Nowhere, calm |-> FALSE]
Unseen == [elements |-> {}, shown |-> {}, truncated |-> FALSE]

-----------------------------------------------------------------------------
(* What a perception returns. *)

Shown == {c \in Control : at[c] # Nowhere}

(* An element as perceive() lists it; its center is its place. What OCR
   found comes behind everything of the walk.                              *)
UiaElement(c) == [id |-> Ident[c], control |-> c, place |-> at[c], tier |-> Tier[c]]
OcrElement(c) == [id |-> OcrId, control |-> c, place |-> at[c], tier |-> 4]

(* The walk: every control shown, down to its depth. *)
Walk == {UiaElement(c) : c \in Shown \ Deep}

(* The order elements are listed in: by rank, then as the walk came to them. *)
Sooner(e, f) ==
    \/ e.tier < f.tier
    \/ e.tier = f.tier /\ Order[e.control] < Order[f.control]
FirstOf(es, n) == {e \in es : Cardinality({f \in es : Sooner(f, e)}) < n}

(* OCR fills the gaps: only what lies in no element of the capped walk. *)
Merge(kept, readable) ==
    kept \cup {OcrElement(c) : c \in {d \in readable : \A e \in kept : e.place # at[d]}}

(* One perceive: screenshot says whether OCR has an image to read, want is
   what the filters leave, cap the caller's max_elements (0 for none).     *)
Exceeds(matching, cap) == cap > 0 /\ Cardinality(matching) > cap
(* Mutant: only the caller's own cut is told. *)
MutTruncated(kept, matching, cap) == Exceeds(matching, cap)
Truncated(kept, matching, cap) ==
    Cardinality(kept) < Cardinality(Walk) \/ Exceeds(matching, cap)
Perceived(screenshot, want, cap) ==
    LET kept == FirstOf(Walk, MaxElements)
        all == Merge(kept, IF screenshot THEN Shown \cap Lettered ELSE {})
        matching == {e \in all : e.control \in want}
    IN  [elements |-> IF Exceeds(matching, cap) THEN FirstOf(matching, cap) ELSE matching,
         shown |-> Shown,
         truncated |-> Truncated(kept, matching, cap)]

(* Mutant: an id that is gone matches any element. *)
MutMatches(id) ==
    LET exact == {e \in listing.elements : e.id = id}
    IN  IF exact = {} THEN listing.elements ELSE exact
Matches(id) == {e \in listing.elements : e.id = id}
FirstMatch(id) == CHOOSE e \in Matches(id) : \A f \in Matches(id) : ~Sooner(f, e)

-----------------------------------------------------------------------------
Init ==
    /\ at \in [Control -> {Nowhere}]
    /\ window \in Window
    /\ stopped \in BOOLEAN
    /\ pc = "idle" /\ call = NoCall /\ index = 0 /\ okays = {} /\ failedAt = 0
    /\ before = Nowhere /\ listing = Unseen /\ answer = [ok |-> TRUE]
    /\ touched = {} /\ failed = {} /\ through = 0 /\ calm = TRUE /\ hit = NoHit

(* What a call finds: none of the results of the call before it. *)
Afresh(request) ==
    /\ pc = "idle"
    /\ call' = request
    /\ okays' = {} /\ failedAt' = 0
    /\ touched' = {} /\ failed' = {} /\ calm' = TRUE /\ hit' = NoHit

(* A request that takes several steps arrives. *)
Accept(request, place) ==
    /\ Afresh(request)
    /\ pc' = place /\ index' = 1 /\ listing' = Unseen /\ answer' = [ok |-> FALSE]
    /\ UNCHANGED <<at, window, stopped, before, through>>

(* A request that is answered at once. *)
Instant(request, a) ==
    /\ Afresh(request)
    /\ index' = 0 /\ answer' = a
    /\ UNCHANGED <<pc, at, window, before>>

(* Serving ends with an answer. *)
Reply(a) == pc' = "idle" /\ answer' = a

BeginAct(kind, settle, report) ==
    /\ kind # "notObject"
    /\ Accept([op |-> "act", batch |-> <<kind>>, settle |-> settle, report |-> report], "parse")

BeginMany(batch, stopOnFailure, settle) ==
    /\ batch # <<>>
    /\ Accept([op |-> "many", batch |-> batch, settle |-> settle, stopOnFailure |-> stopOnFailure],
              "parse")

(* act_many([]) is refused. *)
RefuseEmpty ==
    /\ Instant(NoCall, [ok |-> FALSE])
    /\ listing' = Unseen /\ UNCHANGED <<stopped, through>>

BeginClick(id) == Accept([op |-> "click", batch |-> <<"plain">>, id |-> id], "reperceive")

Perceive(screenshot, want, cap) ==
    /\ Instant([op |-> "perceive", want |-> want, cap |-> cap], [ok |-> TRUE])
    /\ listing' = Perceived(screenshot, want, cap)
    /\ UNCHANGED <<stopped, through>>

(* screenshot(): the picture, or a reason why there is none. *)
Screenshot ==
    /\ \E captured, encoded \in BOOLEAN :
          Instant(NoCall, [ok |-> captured, image |-> captured /\ encoded])
    /\ listing' = Unseen /\ UNCHANGED <<stopped, through>>

-----------------------------------------------------------------------------
(* click_element: look again, find the id, click its current centre. *)

Reperceive ==
    /\ pc = "reperceive"
    /\ listing' = Perceived(FALSE, Control, 0)
    /\ pc' = "match"
    /\ UNCHANGED <<at, window, stopped, call, index, okays, failedAt, before, answer, history>>

RefuseStale ==
    /\ pc = "match" /\ Matches(call.id) = {}
    /\ Reply([ok |-> FALSE, refused |-> call.id, truncated |-> listing.truncated, calm |-> calm])
    /\ UNCHANGED <<at, window, stopped, call, index, okays, failedAt, before, listing, history>>

Match ==
    /\ pc = "match" /\ Matches(call.id) # {}
    /\ pc' = "parse"
    /\ UNCHANGED <<at, window, stopped, call, index, okays, failedAt, before, listing, answer, history>>

-----------------------------------------------------------------------------
(* act(): parse, take the signature, execute, settle, report. *)

Current == call.batch[index]
Last == index = Len(call.batch)

(* The result of the current action is in the list of results. *)
NotOk == failedAt' = index /\ failed' = failed \cup {index} /\ UNCHANGED okays
IsOk == okays' = okays \cup {index} /\ UNCHANGED <<failedAt, failed>>

(* Where the bridge goes after a result; act_many breaks at an action that
   is no object, and at any failure unless it was told to go on.           *)
(* Mutant: stopOnFailure forgotten. *)
MutBreaks(ok) == ~ok /\ Current = "notObject"
Breaks(ok) == call.op = "many" /\ ~ok /\ (call.stopOnFailure \/ Current = "notObject")

Onward == pc' = IF Last THEN "report" ELSE "next"
Settles == call.op # "click" /\ call.settle
Then(ok) ==
    \/ Breaks(ok) /\ pc' = "report"
    \/ ~Breaks(ok) /\ Settles /\ pc' = "settle"
    \/ ~Breaks(ok) /\ ~Settles /\ Onward

(* parse_action, or the bridge's own check, refuses it: nothing is done. An
   act that does not parse is answered at once.                            *)
Reject ==
    /\ pc = "parse" /\ Current \in {"notObject", "malformed"}
    /\ NotOk
    /\ IF call.op = "act" THEN pc' = "report" ELSE Then(FALSE)
    /\ UNCHANGED <<at, window, stopped, call, index, before, listing, answer, touched, through, calm, hit>>

(* A "type" that cannot be hashed raises out of parse_action, act and
   act_many: the request ends there, without a result or counts.           *)
ParseRaises ==
    /\ pc = "parse" /\ Current = "unhashable"
    /\ Reply([ok |-> FALSE, raised |-> TRUE])
    /\ UNCHANGED <<at, window, stopped, call, index, okays, failedAt, before, listing, history>>

Parse ==
    /\ pc = "parse" /\ Current \in {"denied", "plain"}
    /\ before' = IF call.op = "act" /\ call.report THEN window ELSE Nowhere
    /\ pc' = "guard"
    /\ UNCHANGED <<at, window, stopped, call, index, okays, failedAt, listing, answer, history>>

(* ActionExecutor.execute: the stop, then the policy, then the dispatch. *)
Halt ==
    /\ pc = "guard" /\ stopped
    /\ NotOk /\ Then(FALSE)
    /\ UNCHANGED <<at, window, stopped, call, index, before, listing, answer, touched, through, calm, hit>>

Deny ==
    /\ pc = "guard" /\ ~stopped /\ Current = "denied"
    /\ NotOk /\ Then(FALSE)
    /\ UNCHANGED <<at, window, stopped, call, index, before, listing, answer, touched, through, calm, hit>>

(* Mutant: the stop is not looked at. *)
MutGuard ==
    /\ pc = "guard" /\ Current = "plain"
    /\ pc' = "dispatch"
    /\ UNCHANGED <<at, window, stopped, call, index, okays, failedAt, before, listing, answer, history>>
Guard ==
    /\ pc = "guard" /\ ~stopped /\ Current = "plain"
    /\ pc' = "dispatch"
    /\ UNCHANGED <<at, window, stopped, call, index, okays, failedAt, before, listing, answer, history>>

(* The action reaches the desktop, which may change the window in front; a
   click by id lands on whatever is at its place by now.                   *)
Target == FirstMatch(call.id).place
Found == [controls |-> {c \in Control : at[c] = Target}, place |-> Target, calm |-> calm]
Dispatch ==
    /\ pc = "dispatch"
    /\ touched' = touched \cup {index}
    /\ through' = IF stopped THEN through + 1 ELSE through
    /\ hit' = IF call.op = "click" THEN Found ELSE hit
    /\ window' \in Window
    /\ \/ IsOk /\ Then(TRUE)
       \/ NotOk /\ Then(FALSE)
    /\ UNCHANGED <<at, stopped, call, index, before, listing, answer, calm>>

(* The settling pause is an action of its own: the executor may halt it,
   and nobody looks at its result.                                         *)
Settle ==
    /\ pc = "settle"
    /\ Onward
    /\ UNCHANGED <<at, window, stopped, call, index, okays, failedAt, before, listing, answer, history>>

NextAction ==
    /\ pc = "next"
    /\ index' = index + 1 /\ pc' = "parse"
    /\ UNCHANGED <<at, window, stopped, call, okays, failedAt, before, listing, answer, history>>

(* The report: of a single action its result, with what the signature says
   when asked for; of a batch the counts.                                  *)
ReportSingle ==
    /\ pc = "report" /\ call.op # "many"
    /\ Reply([ok |-> 1 \in okays,
              silentNoOp |-> call.op = "act" /\ call.report /\ 1 \in okays /\ window = before])
    /\ before' = Nowhere
    /\ UNCHANGED <<at, window, stopped, call, index, okays, failedAt, listing, history>>

ReportBatch ==
    /\ pc = "report" /\ call.op = "many"
    /\ Reply([ok |-> failedAt = 0, completed |-> Cardinality(okays), failedAt |-> failedAt])
    /\ UNCHANGED <<at, window, stopped, call, index, okays, failedAt, before, listing, history>>

-----------------------------------------------------------------------------
(* The stop: by the bridge's tool, or by another process at any moment. *)

EmergencyStop ==
    /\ Instant(NoCall, [ok |-> TRUE])
    /\ stopped' = TRUE /\ listing' = Unseen /\ UNCHANGED through

ClearStop ==
    /\ Instant(NoCall, [ok |-> TRUE])
    /\ stopped' = FALSE /\ through' = 0 /\ listing' = Unseen

StopElsewhere ==
    /\ stopped' = TRUE
    /\ UNCHANGED <<at, window, bridgeVars, history>>

ClearElsewhere ==
    /\ stopped' = FALSE /\ through' = 0
    /\ UNCHANGED <<at, window, bridgeVars, touched, failed, calm, hit>>

(* The screen changes under the agent: a control appears, moves or goes. *)
Rearrange(c, p) ==
    /\ p # at[c]
    /\ p \in Place => \A d \in Control : at[d] # p
    /\ at' = [at EXCEPT ![c] = p]
    /\ calm' = (calm /\ call.op # "click")
    /\ UNCHANGED <<window, stopped, bridgeVars, touched, failed, through, hit>>

(* Another window comes to the front. *)
ComesToFront(w) ==
    /\ w # window
    /\ window' = w
    /\ UNCHANGED <<at, stopped, bridgeVars, history>>

Serve ==
    \/ Reperceive \/ RefuseStale \/ Match
    \/ Reject \/ ParseRaises \/ Parse \/ Halt \/ Deny \/ Guard \/ Dispatch \/ Settle \/ NextAction
    \/ ReportSingle \/ ReportBatch

Request ==
    \/ \E kind \in Kind, settle, report \in BOOLEAN : BeginAct(kind, settle, report)
    \/ \E batch \in Batch, stopOnFailure, settle \in BOOLEAN : BeginMany(batch, stopOnFailure, settle)
    \/ RefuseEmpty
    \/ \E id \in Idents : BeginClick(id)
    \/ \E screenshot \in BOOLEAN, want \in Filters, cap \in Caps : Perceive(screenshot, want, cap)
    \/ Screenshot
    \/ EmergencyStop \/ ClearStop

World ==
    \/ StopElsewhere \/ ClearElsewhere
    \/ \E c \in Control, p \in Place \cup {Nowhere} : Rearrange(c, p)
    \/ \E w \in Window : ComesToFront(w)

Next == Serve \/ Request \/ World
Spec == Init /\ [][Next]_vars

-----------------------------------------------------------------------------
(* Types of what the bridge keeps while it serves a request. *)
TypeOK ==
    /\ at \in [Control -> Place \cup {Nowhere}]
    /\ window \in Window /\ before \in Window \cup {Nowhere}
    /\ stopped \in BOOLEAN /\ calm \in BOOLEAN
    /\ pc \in {"idle", "reperceive", "match", "parse", "guard", "dispatch", "settle", "next", "report"}
    /\ index \in 0 .. MaxBatch /\ failedAt \in 0 .. MaxBatch
    /\ okays \subseteq 1 .. MaxBatch /\ failed \subseteq 1 .. MaxBatch /\ touched \subseteq 1 .. MaxBatch
    /\ through \in Nat
    /\ call.op \in {"act", "many", "click"} =>
          call.batch \in [1 .. Len(call.batch) -> Kind] /\ Len(call.batch) \in 1 .. MaxBatch

(* act_many: only what may be executed reaches the desktop; told to stop at
   failures, nothing reaches it after one; and the answer's ok, completed and
   failedAt say what was done, whichever way the batch ended.  It ends without
   counts only at an action whose type cannot be looked up, and then nothing
   behind that action was done.                                             *)
BatchHonest ==
    call.op = "many" =>
        /\ okays \subseteq touched
        /\ \A i \in touched : call.batch[i] = "plain"
        /\ call.stopOnFailure => \A i \in touched, j \in failed : i <= j
        /\ pc = "idle" =>
              IF "completed" \in DOMAIN answer
              THEN /\ answer.ok <=> okays = DOMAIN call.batch
                   /\ answer.completed = Cardinality(okays)
                   /\ ~answer.ok => answer.failedAt \in failed \ okays
              ELSE /\ ~answer.ok
                   /\ \E i \in DOMAIN call.batch :
                         call.batch[i] = "unhashable" /\ \A j \in touched : j < i

(* Whether it stands alone, in a batch or behind a settling pause, at most
   one action of the agent reaches the desktop after an emergency stop that
   nobody cleared: the one that had passed its look.                        *)
StopLetsOneThrough == through <= 1

(* click_element: what is clicked is a place where the look of this very
   call found that id, and the control there still bears it if the screen
   has not moved; an id is refused on a screen that has not moved only if
   every control bearing it is out of the walk's depth or the agent is told
   that the list was cut.                                                   *)
ClickFollowsId ==
    call.op = "click" =>
        /\ 1 \in touched /\ hit.calm => \E c \in hit.controls : Ident[c] = call.id
        /\ 1 \in touched => \E c \in listing.shown : Ident[c] = call.id
        /\ pc = "idle" /\ "refused" \in DOMAIN answer /\ answer.calm =>
              \A c \in Shown \ Deep : calm /\ Ident[c] = call.id => answer.truncated

(* perceive: a control on the screen that the walk reaches and the filters
   want is listed, or the answer says that the list was cut.                *)
CutIsTold ==
    pc = "idle" /\ call.op = "perceive" =>
        \A c \in (listing.shown \ Deep) \cap call.want :
            \/ \E e \in listing.elements : e.control = c
            \/ listing.truncated

=============================================================================
