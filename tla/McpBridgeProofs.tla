--------------------------- MODULE McpBridgeProofs ---------------------------
(* Proofs about McpBridge: the types, what an emergency stop lets through,
   what a batch reports, where a click by id goes and what a perception
   leaves out, for every screen and every length of a batch.                *)
EXTENDS McpBridge, FiniteSetTheorems, WellFoundedInduction, TLAPS

Serving == {"parse", "guard", "dispatch", "settle", "next", "report"}
Asked == {"act", "many", "click"}

(* What the types rest on: a request being served has an action to be at. *)
Placed ==
    /\ pc \in {"reperceive", "match"} => call.op = "click"
    /\ pc # "idle" => call.op \in Asked
    /\ call.op \in Asked => index \in 1 .. Len(call.batch)
    /\ pc = "next" => index < Len(call.batch)

(* At most one action got through, and then the stop still holds and no
   further action has passed its look.                                      *)
OneThrough ==
    /\ through \in {0, 1}
    /\ through = 1 => stopped /\ pc # "dispatch"

(* A batch that an exception has ended is at the action that raised it. *)
Broken == pc = "idle" /\ Current = "unhashable"

(* How far a batch is: the results so far are those of its first actions. *)
Results ==
    /\ okays \cap failed = {}
    /\ okays \cup failed =
          1 .. (IF pc \in {"parse", "guard", "dispatch"} \/ Broken THEN index - 1 ELSE index)
    /\ okays \subseteq touched /\ touched \subseteq okays \cup failed
    /\ \A i \in touched : call.batch[i] = "plain"
    /\ pc = "dispatch" => Current = "plain"
    /\ pc \notin {"parse", "idle"} => Current # "unhashable"

(* What is known of the failures of a batch, and when it may end early. *)
Failures ==
    /\ failed = {} => failedAt = 0
    /\ failed # {} => failedAt \in failed
    /\ call.stopOnFailure => IF pc \in {"report", "idle"} THEN failed \subseteq {index} ELSE failed = {}
    /\ pc \in {"report", "idle"} => index = Len(call.batch) \/ failed # {} \/ Broken
    /\ pc = "idle" =>
          IF Broken THEN answer = [ok |-> FALSE, raised |-> TRUE]
                    ELSE answer = [ok |-> failedAt = 0, completed |-> Cardinality(okays),
                                   failedAt |-> failedAt]

BatchInv == call.op = "many" => Results /\ Failures

(* What the agent was told of the last look it asked for. *)
PerceiveInv ==
    call.op = "perceive" =>
        \A c \in (listing.shown \ Deep) \cap call.want :
            \/ \E e \in listing.elements : e.control = c
            \/ listing.truncated

(* What the look of a click knows of the screen, and goes on knowing while
   nothing moves.                                                          *)
Looked ==
    /\ listing.shown \subseteq Control
    /\ \A e \in listing.elements :
          e.control \in listing.shown /\ e.id = Ident[e.control] /\ e.tier \in Nat
    /\ calm => listing.shown = Shown /\ \A e \in listing.elements : at[e.control] = e.place
    /\ listing.truncated \/ \A c \in listing.shown \ Deep : \E e \in listing.elements : e.control = c

(* A click is refused before it touches anything, and goes past the match
   only with an element that bears the id.                                 *)
ClickInv ==
    call.op = "click" =>
        /\ pc # "reperceive" => Looked
        /\ pc \in {"reperceive", "match"} => touched = {}
        /\ pc \notin {"reperceive", "match", "idle"} => Matches(call.id) # {}
        /\ pc = "idle" =>
              IF Matches(call.id) = {}
              THEN touched = {} /\ answer.truncated = listing.truncated
              ELSE "refused" \notin DOMAIN answer
        /\ 1 \in touched /\ hit.calm => \E c \in hit.controls : Ident[c] = call.id

BridgeInv == TypeOK /\ Placed /\ OneThrough /\ BatchInv /\ PerceiveInv /\ ClickInv

-----------------------------------------------------------------------------
(* Perception. *)

(* A set of numbers that is not empty has a smallest. *)
LEMMA SmallestOf ==
    ASSUME NEW S \in SUBSET Nat, S # {}
    PROVE  \E n \in S : \A m \in S : ~(m < n)
<1> DEFINE R == {p \in Nat \X Nat : p[1] < p[2]}
<1>1. IsWellFoundedOn(R, Nat)
    BY NatLessThanWellFounded DEF OpToRel
<1>2. \A n, m \in Nat : m < n => <<m, n>> \in R
    OBVIOUS
<1> HIDE DEF R
<1> QED BY <1>1, <1>2, WFMin

(* Among elements that match there is one that comes first. *)
LEMMA FirstMatches ==
    ASSUME NEW id, Matches(id) # {},
           \A e \in Matches(id) : e.tier \in Nat /\ e.control \in Control
    PROVE  FirstMatch(id) \in Matches(id)
<1> DEFINE tiers == {e.tier : e \in Matches(id)}
<1>1. PICK t \in tiers : \A u \in tiers : ~(u < t)
  <2>1. tiers \subseteq Nat /\ tiers # {}
      OBVIOUS
  <2> HIDE DEF tiers
  <2> QED BY <2>1, SmallestOf
<1> DEFINE top == {e \in Matches(id) : e.tier = t}
           places == {Order[e.control] : e \in top}
<1>2. PICK o \in places : \A p \in places : ~(p < o)
  <2>1. places \subseteq Nat
      BY BridgeAssumption
  <2>2. places # {}
      BY <1>1
  <2> HIDE DEF places
  <2> QED BY <2>1, <2>2, SmallestOf
<1>3. PICK e \in top : Order[e.control] = o
    BY <1>2
<1>4. \A f \in Matches(id) : ~Sooner(f, e)
  <2> SUFFICES ASSUME NEW f \in Matches(id), Sooner(f, e) PROVE FALSE
      OBVIOUS
  <2>1. e.tier = t /\ f.tier \in tiers /\ ~(f.tier < t)
      BY <1>1, <1>3
  <2>2. f \in top /\ Order[f.control] < o
      BY <1>3, <2>1 DEF Sooner
  <2>3. Order[f.control] \in places
      BY <2>2
  <2> HIDE DEF places
  <2> QED BY <1>2, <2>2, <2>3
<1> QED BY <1>3, <1>4 DEF FirstMatch

(* A walk has finitely many elements. *)
LEMMA WalkIsFinite == IsFiniteSet(Walk)
<1> DEFINE f == [c \in Shown \ Deep |-> UiaElement(c)]
<1>1. IsFiniteSet(Shown \ Deep)
    BY BridgeAssumption, FS_Subset DEF Shown
<1>2. f \in Surjection(Shown \ Deep, Walk)
    BY DEF Walk, Surjection
<1> QED BY <1>1, <1>2, FS_Surjection

(* The order of the list is a strict one, and total on a walk. *)
LEMMA WalkOrder ==
    /\ \A e \in Walk : ~Sooner(e, e)
    /\ \A e, f, g \in Walk : Sooner(e, f) /\ Sooner(f, g) => Sooner(e, g)
    /\ \A e, f \in Walk : e = f \/ Sooner(e, f) \/ Sooner(f, e)
<1>1. ASSUME NEW e \in Walk
      PROVE  /\ e.tier \in Nat /\ e.control \in Control /\ Order[e.control] \in Nat
             /\ e = UiaElement(e.control) /\ e.tier = Tier[e.control]
    BY BridgeAssumption DEF Walk, UiaElement, Shown
<1>2. ASSUME NEW e \in Walk, NEW f \in Walk, Order[e.control] = Order[f.control]
      PROVE  e = f
  <2>1. e.control = f.control
      BY <1>1, <1>2, BridgeAssumption
  <2> QED BY <1>1, <2>1
<1>3. \A e \in Walk : ~Sooner(e, e)
    BY <1>1 DEF Sooner
<1>4. ASSUME NEW e \in Walk, NEW f \in Walk, NEW g \in Walk, Sooner(e, f), Sooner(f, g)
      PROVE  Sooner(e, g)
  <2>1. /\ e.tier \in Nat /\ f.tier \in Nat /\ g.tier \in Nat
        /\ Order[e.control] \in Nat /\ Order[f.control] \in Nat /\ Order[g.control] \in Nat
      BY <1>1
  <2> QED BY <1>4, <2>1 DEF Sooner
<1>5. ASSUME NEW e \in Walk, NEW f \in Walk
      PROVE  e = f \/ Sooner(e, f) \/ Sooner(f, e)
  <2>1. /\ e.tier \in Nat /\ f.tier \in Nat
        /\ Order[e.control] \in Nat /\ Order[f.control] \in Nat
      BY <1>1
  <2> QED BY <1>2, <2>1 DEF Sooner
<1> QED BY <1>3, <1>4, <1>5

(* Where an element of the walk stands in the list. *)
Before(e) == {f \in Walk : Sooner(f, e)}
Rank == [e \in Walk |-> Cardinality(Before(e))]

LEMMA RankIsBijection == Rank \in Bijection(Walk, 0 .. Cardinality(Walk) - 1)
<1> DEFINE C == Cardinality(Walk)
<1>1. IsFiniteSet(Walk) /\ C \in Nat
    BY WalkIsFinite, FS_CardinalityType
<1>2. ASSUME NEW e \in Walk
      PROVE  IsFiniteSet(Before(e)) /\ Cardinality(Before(e)) \in Nat
    BY <1>1, FS_Subset, FS_CardinalityType DEF Before
<1>3. ASSUME NEW e \in Walk
      PROVE  Cardinality(Before(e)) < C
  <2>1. Before(e) \in SUBSET Walk /\ Before(e) # Walk
      BY WalkOrder DEF Before
  <2> QED BY <1>1, <1>2, <2>1, FS_Subset
<1>4. ASSUME NEW e \in Walk, NEW f \in Walk, Sooner(e, f)
      PROVE  Rank[e] < Rank[f]
  <2>1. Before(e) \in SUBSET Before(f) /\ Before(e) # Before(f)
      BY <1>4, WalkOrder DEF Before
  <2>2. Cardinality(Before(e)) < Cardinality(Before(f))
      BY <1>2, <2>1, FS_Subset
  <2> QED BY <2>2 DEF Rank
<1>5. Rank \in [Walk -> 0 .. C - 1]
    BY <1>1, <1>2, <1>3 DEF Rank
<1>6. Rank \in Injection(Walk, 0 .. C - 1)
  <2>1. ASSUME NEW e \in Walk, NEW f \in Walk, Rank[e] = Rank[f]
        PROVE  e = f
    <3>1. Rank[e] \in 0 .. C - 1 /\ Rank[f] \in 0 .. C - 1
        BY <1>5
    <3> QED BY <1>1, <1>4, <2>1, <3>1, WalkOrder
  <2> QED BY <1>5, <2>1 DEF Injection, IsInjective
<1>7. IsFiniteSet(0 .. C - 1) /\ Cardinality(0 .. C - 1) = C
    BY <1>1, FS_Interval
<1>8. Rank \in Surjection(Walk, 0 .. C - 1)
    BY <1>1, <1>6, <1>7, FS_Injection
<1> QED BY <1>6, <1>8 DEF Bijection

(* A perception shows the screen as it is, leaves out what the walk reaches
   and the filters want only when it says so, and lists what it shows.      *)
LEMMA PerceivedTells ==
    ASSUME NEW screenshot \in BOOLEAN, NEW want, NEW cap,
           NEW p, p = Perceived(screenshot, want, cap)
    PROVE  /\ p.shown = Shown
           /\ \A c \in (p.shown \ Deep) \cap want :
                 (\E e \in p.elements : e.control = c) \/ p.truncated
<1> DEFINE kept == FirstOf(Walk, MaxElements)
           all == Merge(kept, IF screenshot THEN Shown \cap Lettered ELSE {})
           matching == {e \in all : e.control \in want}
<1>1. /\ p.elements = IF Exceeds(matching, cap) THEN FirstOf(matching, cap) ELSE matching
      /\ p.shown = Shown
      /\ p.truncated = Truncated(kept, matching, cap)
    BY DEF Perceived
<1>2. SUFFICES ASSUME NEW c \in (Shown \ Deep) \cap want, ~p.truncated
      PROVE  \E e \in p.elements : e.control = c
    BY <1>1
<1>3. kept = Walk
  <2>1. kept \in SUBSET Walk
      BY DEF FirstOf
  <2>2. ~(Cardinality(kept) < Cardinality(Walk))
      BY <1>1, <1>2 DEF Truncated
  <2>3. /\ IsFiniteSet(kept) /\ Cardinality(kept) <= Cardinality(Walk)
        /\ Cardinality(Walk) = Cardinality(kept) => Walk = kept
      BY <2>1, WalkIsFinite, FS_Subset
  <2>4. Cardinality(kept) \in Nat /\ Cardinality(Walk) \in Nat
      BY <2>3, WalkIsFinite, FS_CardinalityType
  <2> HIDE DEF kept
  <2> QED BY <2>2, <2>3, <2>4
<1>4. UiaElement(c) \in all
    BY <1>2, <1>3 DEF Walk, Merge
<1>5. UiaElement(c) \in p.elements
    BY <1>1, <1>2, <1>4 DEF Truncated, UiaElement
<1> QED BY <1>5 DEF UiaElement

(* What the look of a click, without a screenshot, lists. *)
LEMMA LookOfClick ==
    ASSUME NEW p, p = Perceived(FALSE, Control, 0)
    PROVE  \A e \in p.elements :
              /\ e.control \in Shown /\ e.id = Ident[e.control] /\ e.tier \in Nat
              /\ e.place = at[e.control]
<1>1. p.elements = {e \in FirstOf(Walk, MaxElements) : e.control \in Control}
  <2>1. ASSUME NEW kept PROVE Merge(kept, {}) = kept
      BY DEF Merge
  <2>2. ASSUME NEW matching PROVE ~Exceeds(matching, 0)
      BY DEF Exceeds
  <2> QED BY <2>1, <2>2 DEF Perceived
<1>2. \A e \in Walk :
         /\ e.control \in Shown /\ e.id = Ident[e.control] /\ e.tier \in Nat
         /\ e.place = at[e.control]
    BY BridgeAssumption DEF Walk, UiaElement, Shown
<1> QED BY <1>1, <1>2 DEF FirstOf

-----------------------------------------------------------------------------
(* Where the bridge goes after a result. *)
LEMMA ThenGoes ==
    ASSUME NEW ok \in BOOLEAN, Then(ok)
    PROVE  /\ pc' \in {"report", "settle", "next"}
           /\ pc' = "next" => ~Last
           /\ pc' = "report" => Last \/ (call.op = "many" /\ ~ok)
           /\ call.op = "many" /\ call.stopOnFailure /\ ~ok => pc' = "report"
  BY DEF Then, Breaks, Settles, Onward

(* The initial states have every part of the invariant. *)
LEMMA BridgeInit == Init => BridgeInv
<1> SUFFICES ASSUME Init PROVE BridgeInv
    OBVIOUS
<1> USE BridgeAssumption DEF Init
<1>1. at \in [Control -> Place \cup {Nowhere}]
    OBVIOUS
<1>2. call.op = "none"
    BY DEF NoCall
<1> QED BY <1>1, <1>2 DEF BridgeInv, TypeOK, Placed, OneThrough, BatchInv, PerceiveInv, ClickInv, Asked

-----------------------------------------------------------------------------
(* Types. *)

(* A request of one action, or of a batch, has the types of a call. *)
LEMMA TypesAct ==
    ASSUME TypeOK, Placed, NEW kind \in Kind, NEW settle \in BOOLEAN, NEW report \in BOOLEAN,
           BeginAct(kind, settle, report)
    PROVE  TypeOK' /\ Placed'
<1>1. /\ call'.op = "act" /\ call'.batch = <<kind>> /\ pc' = "parse" /\ index' = 1
      /\ Len(call'.batch) = 1 /\ call'.batch \in [1 .. 1 -> Kind]
    BY DEF BeginAct, Accept, Afresh
<1> QED BY <1>1, BridgeAssumption DEF BeginAct, Accept, Afresh, TypeOK, Placed, Asked

LEMMA TypesMany ==
    ASSUME TypeOK, Placed, NEW batch \in Batch, NEW stopOnFailure \in BOOLEAN,
           NEW settle \in BOOLEAN, BeginMany(batch, stopOnFailure, settle)
    PROVE  TypeOK' /\ Placed'
<1>1. /\ call'.op = "many" /\ call'.batch = batch /\ pc' = "parse" /\ index' = 1 /\ batch # <<>>
    BY DEF BeginMany, Accept, Afresh
<1>2. PICK n \in 0 .. MaxBatch : batch \in [1 .. n -> Kind]
    BY DEF Batch
<1>3. Len(batch) = n /\ n # 0
    BY <1>1, <1>2, BridgeAssumption
<1> QED BY <1>1, <1>2, <1>3, BridgeAssumption DEF BeginMany, Accept, Afresh, TypeOK, Placed, Asked

LEMMA TypesClick ==
    ASSUME TypeOK, Placed, NEW id \in Idents, BeginClick(id)
    PROVE  TypeOK' /\ Placed'
<1>1. /\ call'.op = "click" /\ call'.batch = <<"plain">> /\ pc' = "reperceive" /\ index' = 1
      /\ Len(call'.batch) = 1 /\ call'.batch \in [1 .. 1 -> Kind]
    BY DEF BeginClick, Accept, Afresh, Kind
<1> QED BY <1>1, BridgeAssumption DEF BeginClick, Accept, Afresh, TypeOK, Placed, Asked

(* Every request keeps the types, those answered at once included. *)
LEMMA TypesRequest == TypeOK /\ Placed /\ Request => TypeOK' /\ Placed'
<1> SUFFICES ASSUME TypeOK, Placed, Request PROVE TypeOK' /\ Placed'
    OBVIOUS
<1> USE BridgeAssumption
<1>1. ASSUME NEW r, NEW a, r.op \notin Asked, Instant(r, a), stopped' \in BOOLEAN, through' \in Nat
      PROVE  TypeOK' /\ Placed'
    BY <1>1 DEF Instant, Afresh, TypeOK, Placed, Asked
<1>2. NoCall.op \notin Asked
    BY DEF NoCall, Asked
<1>3. ASSUME NEW screenshot \in BOOLEAN, NEW want \in Filters, NEW cap \in Caps,
             Perceive(screenshot, want, cap)
      PROVE  TypeOK' /\ Placed'
  <2> DEFINE r == [op |-> "perceive", want |-> want, cap |-> cap]
  <2>1. r.op \notin Asked
      BY DEF Asked
  <2>2. Instant(r, [ok |-> TRUE]) /\ stopped' \in BOOLEAN /\ through' \in Nat
      BY <1>3 DEF Perceive, TypeOK
  <2> HIDE DEF r
  <2> QED BY <2>1, <2>2, <1>1
<1>4. CASE RefuseEmpty
    BY <1>4, <1>1, <1>2 DEF RefuseEmpty, TypeOK
<1>5. CASE Screenshot
    BY <1>5, <1>1, <1>2 DEF Screenshot, TypeOK
<1>6. CASE EmergencyStop
    BY <1>6, <1>1, <1>2 DEF EmergencyStop, TypeOK
<1>7. CASE ClearStop
    BY <1>7, <1>1, <1>2 DEF ClearStop, TypeOK
<1> QED BY <1>3, <1>4, <1>5, <1>6, <1>7, TypesAct, TypesMany, TypesClick DEF Request

(* A step of serving keeps the types. *)
LEMMA TypesServe == TypeOK /\ Placed /\ Serve => TypeOK' /\ Placed'
<1> SUFFICES ASSUME TypeOK, Placed, Serve PROVE TypeOK' /\ Placed'
    OBVIOUS
<1> USE BridgeAssumption DEF TypeOK, Placed, Asked
<1>1. CASE Reperceive
    BY <1>1 DEF Reperceive, history
<1>2. CASE RefuseStale
    BY <1>2 DEF RefuseStale, Reply, history
<1>3. CASE Match
    BY <1>3 DEF Match, history
<1>4. CASE Reject
  <2>1. index \in 1 .. MaxBatch /\ call.op \in Asked
      BY <1>4 DEF Reject
  <2>2. /\ pc' \in {"report", "settle", "next"}
        /\ pc' = "next" => ~Last
      BY <1>4, ThenGoes DEF Reject
  <2>3. /\ okays' \subseteq 1 .. MaxBatch /\ failed' \subseteq 1 .. MaxBatch
        /\ failedAt' \in 0 .. MaxBatch /\ touched' \subseteq 1 .. MaxBatch
      BY <1>4, <2>1 DEF Reject, NotOk, IsOk
  <2>4. UNCHANGED <<at, call, index, stopped, calm, before>> /\ window' \in Window /\ through' \in Nat
      BY <1>4 DEF Reject
  <2> QED BY <2>1, <2>2, <2>3, <2>4 DEF Last
<1>5. CASE Parse
    BY <1>5 DEF Parse, history
<1>6. CASE Halt
  <2>1. index \in 1 .. MaxBatch /\ call.op \in Asked
      BY <1>6 DEF Halt
  <2>2. /\ pc' \in {"report", "settle", "next"}
        /\ pc' = "next" => ~Last
      BY <1>6, ThenGoes DEF Halt
  <2>3. /\ okays' \subseteq 1 .. MaxBatch /\ failed' \subseteq 1 .. MaxBatch
        /\ failedAt' \in 0 .. MaxBatch /\ touched' \subseteq 1 .. MaxBatch
      BY <1>6, <2>1 DEF Halt, NotOk, IsOk
  <2>4. UNCHANGED <<at, call, index, stopped, calm, before>> /\ window' \in Window /\ through' \in Nat
      BY <1>6 DEF Halt
  <2> QED BY <2>1, <2>2, <2>3, <2>4 DEF Last
<1>7. CASE Deny
  <2>1. index \in 1 .. MaxBatch /\ call.op \in Asked
      BY <1>7 DEF Deny
  <2>2. /\ pc' \in {"report", "settle", "next"}
        /\ pc' = "next" => ~Last
      BY <1>7, ThenGoes DEF Deny
  <2>3. /\ okays' \subseteq 1 .. MaxBatch /\ failed' \subseteq 1 .. MaxBatch
        /\ failedAt' \in 0 .. MaxBatch /\ touched' \subseteq 1 .. MaxBatch
      BY <1>7, <2>1 DEF Deny, NotOk, IsOk
  <2>4. UNCHANGED <<at, call, index, stopped, calm, before>> /\ window' \in Window /\ through' \in Nat
      BY <1>7 DEF Deny
  <2> QED BY <2>1, <2>2, <2>3, <2>4 DEF Last
<1>8. CASE Guard
    BY <1>8 DEF Guard, history
<1>9. CASE Dispatch
  <2>1. index \in 1 .. MaxBatch /\ call.op \in Asked
      BY <1>9 DEF Dispatch
  <2>2. /\ pc' \in {"report", "settle", "next"}
        /\ pc' = "next" => ~Last
      BY <1>9, ThenGoes DEF Dispatch
  <2>3. /\ okays' \subseteq 1 .. MaxBatch /\ failed' \subseteq 1 .. MaxBatch
        /\ failedAt' \in 0 .. MaxBatch /\ touched' \subseteq 1 .. MaxBatch
      BY <1>9, <2>1 DEF Dispatch, NotOk, IsOk
  <2>4. UNCHANGED <<at, call, index, stopped, calm, before>> /\ window' \in Window /\ through' \in Nat
      BY <1>9 DEF Dispatch
  <2> QED BY <2>1, <2>2, <2>3, <2>4 DEF Last
<1>10. CASE Settle
    BY <1>10 DEF Settle, Onward, Last, history
<1>11. CASE NextAction
    BY <1>11 DEF NextAction, history
<1>12. CASE ReportSingle
    BY <1>12 DEF ReportSingle, Reply, history
<1>13. CASE ReportBatch
    BY <1>13 DEF ReportBatch, Reply, history
<1>14. CASE ParseRaises
    BY <1>14 DEF ParseRaises, Reply, history
<1> QED BY <1>1, <1>2, <1>3, <1>4, <1>5, <1>6, <1>7, <1>8, <1>9, <1>10, <1>11, <1>12, <1>13, <1>14
        DEF Serve

(* So does the rest of the world. *)
LEMMA TypesWorld == TypeOK /\ Placed /\ World => TypeOK' /\ Placed'
<1> SUFFICES ASSUME TypeOK, Placed, World PROVE TypeOK' /\ Placed'
    OBVIOUS
<1> USE BridgeAssumption DEF TypeOK, Placed, Asked, bridgeVars, history
<1>1. CASE StopElsewhere
    BY <1>1 DEF StopElsewhere
<1>2. CASE ClearElsewhere
    BY <1>2 DEF ClearElsewhere
<1>3. ASSUME NEW c \in Control, NEW p \in Place \cup {Nowhere}, Rearrange(c, p)
      PROVE  TypeOK' /\ Placed'
    BY <1>3 DEF Rearrange
<1>4. ASSUME NEW w \in Window, ComesToFront(w)
      PROVE  TypeOK' /\ Placed'
    BY <1>4 DEF ComesToFront
<1> QED BY <1>1, <1>2, <1>3, <1>4 DEF World

-----------------------------------------------------------------------------
(* The stop. *)

(* A step of serving raises the count only past a look that found no stop. *)
LEMMA OneThroughServe == OneThrough /\ Serve => OneThrough'
<1> SUFFICES ASSUME OneThrough, Serve PROVE OneThrough'
    OBVIOUS
<1> USE DEF OneThrough, history
<1>1. CASE Reperceive
    BY <1>1 DEF Reperceive
<1>2. CASE RefuseStale
    BY <1>2 DEF RefuseStale, Reply
<1>3. CASE Match
    BY <1>3 DEF Match
<1>4. CASE Reject
  <2>1. pc' \in {"report", "settle", "next"}
      BY <1>4, ThenGoes DEF Reject
  <2> QED BY <1>4, <2>1 DEF Reject
<1>5. CASE Parse
    BY <1>5 DEF Parse
<1>6. CASE Halt
  <2>1. pc' \in {"report", "settle", "next"}
      BY <1>6, ThenGoes DEF Halt
  <2> QED BY <1>6, <2>1 DEF Halt
<1>7. CASE Deny
  <2>1. pc' \in {"report", "settle", "next"}
      BY <1>7, ThenGoes DEF Deny
  <2> QED BY <1>7, <2>1 DEF Deny
<1>8. CASE Guard
    BY <1>8 DEF Guard
<1>9. CASE Dispatch
  <2>1. pc' \in {"report", "settle", "next"}
      BY <1>9, ThenGoes DEF Dispatch
  <2> QED BY <1>9, <2>1 DEF Dispatch
<1>10. CASE Settle
    BY <1>10 DEF Settle, Onward
<1>11. CASE NextAction
    BY <1>11 DEF NextAction
<1>12. CASE ReportSingle
    BY <1>12 DEF ReportSingle, Reply
<1>13. CASE ReportBatch
    BY <1>13 DEF ReportBatch, Reply
<1>14. CASE ParseRaises
    BY <1>14 DEF ParseRaises, Reply
<1> QED BY <1>1, <1>2, <1>3, <1>4, <1>5, <1>6, <1>7, <1>8, <1>9, <1>10, <1>11, <1>12, <1>13, <1>14
        DEF Serve

(* Requests and the rest of the world leave the count, or start it anew. *)
LEMMA OneThroughElse == OneThrough /\ (Request \/ World) => OneThrough'
<1> SUFFICES ASSUME OneThrough, Request \/ World PROVE OneThrough'
    OBVIOUS
<1> USE DEF OneThrough, Accept, Afresh, Instant, bridgeVars, history
<1>1. ASSUME NEW kind, NEW settle, NEW report, BeginAct(kind, settle, report)
      PROVE  OneThrough'
    BY <1>1 DEF BeginAct
<1>2. ASSUME NEW batch, NEW stopOnFailure, NEW settle, BeginMany(batch, stopOnFailure, settle)
      PROVE  OneThrough'
    BY <1>2 DEF BeginMany
<1>3. ASSUME NEW id, BeginClick(id)
      PROVE  OneThrough'
    BY <1>3 DEF BeginClick
<1>4. ASSUME NEW screenshot, NEW want, NEW cap, Perceive(screenshot, want, cap)
      PROVE  OneThrough'
    BY <1>4 DEF Perceive
<1>5. CASE RefuseEmpty \/ Screenshot \/ EmergencyStop \/ ClearStop
    BY <1>5 DEF RefuseEmpty, Screenshot, EmergencyStop, ClearStop
<1>6. ASSUME NEW c, NEW p, Rearrange(c, p)
      PROVE  OneThrough'
    BY <1>6 DEF Rearrange
<1>7. ASSUME NEW w, ComesToFront(w)
      PROVE  OneThrough'
    BY <1>7 DEF ComesToFront
<1>8. CASE StopElsewhere \/ ClearElsewhere
    BY <1>8 DEF StopElsewhere, ClearElsewhere
<1> QED BY <1>1, <1>2, <1>3, <1>4, <1>5, <1>6, <1>7, <1>8 DEF Request, World

-----------------------------------------------------------------------------
(* A batch. *)

(* What serving a batch adds when its current action has not ended well. *)
LEMMA BatchNotOk ==
    ASSUME BridgeInv, call.op = "many", pc \in {"parse", "guard"},
           Current # "unhashable", NotOk, Then(FALSE), UNCHANGED <<call, index, touched, okays>>
    PROVE  BatchInv'
<1> USE DEF BridgeInv, BatchInv, TypeOK, Placed, Asked
<1>1. index \in 1 .. Len(call.batch) /\ Len(call.batch) \in Nat
    OBVIOUS
<1>2. /\ pc' \in {"report", "settle", "next"}
      /\ call.stopOnFailure => pc' = "report"
    BY ThenGoes
<1>3. failedAt' = index /\ failed' = failed \cup {index}
    BY DEF NotOk
<1>4. Results'
  <2>1. okays' \cup failed' = 1 .. index
      BY <1>1, <1>3 DEF Results
  <2>2. okays' \cap failed' = {}
      BY <1>1, <1>3 DEF Results
  <2> QED BY <1>1, <1>2, <1>3, <2>1, <2>2 DEF Results, Broken, Current
<1>5. Failures'
    BY <1>1, <1>2, <1>3 DEF Failures
<1> QED BY <1>4, <1>5

(* What the dispatch of an action of a batch adds. *)
LEMMA BatchDispatch ==
    ASSUME BridgeInv, call.op = "many", Dispatch
    PROVE  BatchInv'
<1> USE DEF BridgeInv, BatchInv, TypeOK, Placed, Asked
<1>1. index \in 1 .. Len(call.batch) /\ Len(call.batch) \in Nat /\ pc = "dispatch"
    BY DEF Dispatch
<1>2. UNCHANGED <<call, index, answer>> /\ touched' = touched \cup {index}
    BY DEF Dispatch
<1>3. CASE IsOk /\ Then(TRUE)
  <2>1. /\ pc' \in {"report", "settle", "next"}
        /\ pc' = "report" => Last
      BY <1>3, ThenGoes
  <2>2. okays' = okays \cup {index} /\ UNCHANGED <<failed, failedAt>>
      BY <1>3 DEF IsOk
  <2>3. okays' \cup failed' = 1 .. index /\ okays' \cap failed' = {}
      BY <1>1, <2>2 DEF Results
  <2>4. Results'
      BY <1>1, <1>2, <2>1, <2>2, <2>3 DEF Results, Broken, Current
  <2>5. Failures'
      BY <1>1, <1>2, <2>1, <2>2 DEF Failures, Last
  <2> QED BY <2>4, <2>5
<1>4. CASE NotOk /\ Then(FALSE)
  <2>1. /\ pc' \in {"report", "settle", "next"}
        /\ call.stopOnFailure => pc' = "report"
      BY <1>4, ThenGoes
  <2>2. failed' = failed \cup {index} /\ failedAt' = index /\ UNCHANGED okays
      BY <1>4 DEF NotOk
  <2>3. okays' \cup failed' = 1 .. index /\ okays' \cap failed' = {}
      BY <1>1, <2>2 DEF Results
  <2>4. Results'
      BY <1>1, <1>2, <2>1, <2>2, <2>3 DEF Results, Broken, Current
  <2>5. Failures'
      BY <1>1, <1>2, <2>1, <2>2 DEF Failures
  <2> QED BY <2>4, <2>5
<1> QED BY <1>3, <1>4 DEF Dispatch

(* Every step of serving keeps what is known of a batch. *)
LEMMA BatchServe == BridgeInv /\ Serve => BatchInv'
<1> SUFFICES ASSUME BridgeInv, Serve, call'.op = "many" PROVE BatchInv'
    BY DEF BatchInv
<1>0. call.op = "many" /\ UNCHANGED call
    BY DEF Serve, Reperceive, RefuseStale, Match, Reject, ParseRaises, Parse, Halt, Deny, Guard, Dispatch,
           Settle, NextAction, ReportSingle, ReportBatch, history
<1>00. Results /\ Failures /\ pc \notin {"reperceive", "match"}
       /\ index \in 1 .. Len(call.batch) /\ Len(call.batch) \in Nat
    BY <1>0 DEF BridgeInv, BatchInv, TypeOK, Placed, Asked
<1>1. CASE Reperceive \/ RefuseStale \/ Match \/ ReportSingle
    BY <1>0, <1>00, <1>1 DEF Reperceive, RefuseStale, Match, ReportSingle
<1>2. CASE Reject
    BY <1>0, <1>2, BatchNotOk DEF Reject, NotOk
<1>3. CASE Halt \/ Deny
    BY <1>0, <1>00, <1>3, BatchNotOk DEF Halt, Deny, NotOk, Results
<1>4. CASE Dispatch
    BY <1>0, <1>4, BatchDispatch
<1>5. CASE Parse \/ Guard
  <2>1. /\ UNCHANGED <<index, okays, failedAt, answer, touched, failed>>
        /\ pc \in {"parse", "guard"} /\ pc' \in {"guard", "dispatch"}
        /\ pc' = "dispatch" => Current = "plain"
        /\ Current # "unhashable"
      BY <1>5 DEF Parse, Guard, history
  <2>2. Results' /\ Failures'
      BY <1>0, <1>00, <2>1 DEF Results, Failures, Broken, Current
  <2> QED BY <2>2 DEF BatchInv
<1>6. CASE Settle
  <2>1. /\ UNCHANGED <<index, okays, failedAt, answer, touched, failed>>
        /\ pc = "settle" /\ pc' \in {"report", "next"} /\ (pc' = "report" => Last)
      BY <1>6 DEF Settle, Onward, history
  <2>2. Results' /\ Failures'
      BY <1>0, <1>00, <2>1 DEF Results, Failures, Last, Broken, Current
  <2> QED BY <2>2 DEF BatchInv
<1>7. CASE NextAction
  <2>1. /\ UNCHANGED <<okays, failedAt, answer, touched, failed>>
        /\ pc = "next" /\ pc' = "parse" /\ index' = index + 1
      BY <1>7 DEF NextAction, history
  <2>2. Results' /\ Failures'
      BY <1>0, <1>00, <2>1 DEF Results, Failures, Broken, Current
  <2> QED BY <2>2 DEF BatchInv
<1>8. CASE ReportBatch
  <2>1. /\ UNCHANGED <<index, okays, failedAt, touched, failed>>
        /\ pc = "report" /\ pc' = "idle"
        /\ answer' = [ok |-> failedAt = 0, completed |-> Cardinality(okays), failedAt |-> failedAt]
      BY <1>8 DEF ReportBatch, Reply, history
  <2>2. Results'
      BY <1>0, <1>00, <2>1 DEF Results, Broken, Current
  <2>3. Failures'
      BY <1>0, <1>00, <2>1 DEF Results, Failures, Broken, Current
  <2> QED BY <2>2, <2>3 DEF BatchInv
<1>9. CASE ParseRaises
  <2>1. /\ UNCHANGED <<index, okays, failedAt, touched, failed>>
        /\ pc = "parse" /\ pc' = "idle" /\ Current = "unhashable"
        /\ answer' = [ok |-> FALSE, raised |-> TRUE]
      BY <1>9 DEF ParseRaises, Reply, history
  <2>2. Broken'
      BY <1>0, <2>1 DEF Broken, Current
  <2>3. Results'
      BY <1>0, <1>00, <2>1, <2>2 DEF Results
  <2>4. Failures'
      BY <1>0, <1>00, <2>1, <2>2 DEF Failures
  <2> QED BY <2>3, <2>4 DEF BatchInv
<1> QED BY <1>1, <1>2, <1>3, <1>4, <1>5, <1>6, <1>7, <1>8, <1>9 DEF Serve

(* A batch that is asked for has no results yet; every other request is none. *)
LEMMA BatchRequest == BridgeInv /\ Request => BatchInv'
<1> SUFFICES ASSUME BridgeInv, Request PROVE BatchInv'
    OBVIOUS
<1> USE DEF BatchInv, Accept, Afresh, Instant
<1>1. ASSUME NEW kind, NEW settle, NEW report, BeginAct(kind, settle, report)
      PROVE  BatchInv'
    BY <1>1 DEF BeginAct
<1>2. ASSUME NEW batch, NEW stopOnFailure, NEW settle, BeginMany(batch, stopOnFailure, settle)
      PROVE  BatchInv'
    BY <1>2 DEF BeginMany, Results, Failures
<1>3. ASSUME NEW id, BeginClick(id)
      PROVE  BatchInv'
    BY <1>3 DEF BeginClick
<1>4. ASSUME NEW screenshot, NEW want, NEW cap, Perceive(screenshot, want, cap)
      PROVE  BatchInv'
    BY <1>4 DEF Perceive
<1>5. CASE RefuseEmpty \/ Screenshot \/ EmergencyStop \/ ClearStop
    BY <1>5 DEF RefuseEmpty, Screenshot, EmergencyStop, ClearStop, NoCall
<1> QED BY <1>1, <1>2, <1>3, <1>4, <1>5 DEF Request

(* Nothing else touches what the bridge keeps of a batch. *)
LEMMA BatchElse == BridgeInv /\ (World \/ UNCHANGED vars) => BatchInv'
<1> SUFFICES ASSUME BridgeInv, World \/ UNCHANGED vars PROVE BatchInv'
    OBVIOUS
<1>1. UNCHANGED <<bridgeVars, touched, failed>>
  <2>1. ASSUME NEW c, NEW p, Rearrange(c, p) PROVE UNCHANGED <<bridgeVars, touched, failed>>
      BY <2>1 DEF Rearrange
  <2>2. ASSUME NEW w, ComesToFront(w) PROVE UNCHANGED <<bridgeVars, touched, failed>>
      BY <2>2 DEF ComesToFront, history
  <2> QED BY <2>1, <2>2 DEF World, StopElsewhere, ClearElsewhere, vars, history
<1> QED BY <1>1 DEF bridgeVars, BridgeInv, BatchInv, Results, Failures, Broken, Current

-----------------------------------------------------------------------------
(* A look, and the click that follows it. *)

(* What a step of serving leaves of a look once it is taken. *)
LEMMA LookStays ==
    ASSUME ClickInv, call.op = "click", pc # "reperceive", UNCHANGED <<at, call, listing, calm>>
    PROVE  Looked' /\ Matches(call.id)' = Matches(call.id)
  BY DEF ClickInv, Looked, Shown, Matches

(* The element a click goes to bears its id, and is there still if nothing
   has moved.                                                               *)
LEMMA HitBearsId ==
    ASSUME ClickInv, call.op = "click", pc = "dispatch", calm
    PROVE  \E c \in Found.controls : Ident[c] = call.id
<1>1. Looked /\ Matches(call.id) # {}
    BY DEF ClickInv
<1> DEFINE e == FirstMatch(call.id)
<1>2. e \in Matches(call.id)
    BY <1>1, FirstMatches DEF Looked, Matches
<1>3. /\ e.control \in Control /\ at[e.control] = e.place
      /\ Ident[e.control] = call.id
    BY <1>1, <1>2 DEF Looked, Matches
<1> QED BY <1>3 DEF Found, Target

(* Every step of serving keeps what a click knows. *)
LEMMA ClickServe == BridgeInv /\ Serve => ClickInv'
<1> SUFFICES ASSUME BridgeInv, Serve, call'.op = "click" PROVE ClickInv'
    BY DEF ClickInv
<1>1. call.op = "click" /\ UNCHANGED <<at, call, calm>> /\ pc # "idle"
    BY DEF Serve, Reperceive, RefuseStale, Match, Reject, ParseRaises, Parse, Halt, Deny, Guard, Dispatch,
           Settle, NextAction, ReportSingle, ReportBatch, history
<1>2. ClickInv /\ index \in Nat
    BY <1>1 DEF BridgeInv, TypeOK
<1>3. CASE Reperceive
  <2>1. /\ pc = "reperceive" /\ pc' = "match" /\ touched' = touched
        /\ listing' = Perceived(FALSE, Control, 0)
      BY <1>3 DEF Reperceive, history
  <2>2. touched' = {}
      BY <1>1, <1>2, <2>1 DEF ClickInv
  <2>3. /\ listing'.shown = Shown
        /\ listing'.truncated \/ \A c \in listing'.shown \ Deep :
                                    \E e \in listing'.elements : e.control = c
    <3>1. Shown \subseteq Control
        BY DEF Shown
    <3> QED BY <2>1, <3>1, PerceivedTells
  <2>4. \A e \in listing'.elements :
           /\ e.control \in Shown /\ e.id = Ident[e.control] /\ e.tier \in Nat
           /\ e.place = at[e.control]
      BY <2>1, LookOfClick
  <2>5. Looked'
      BY <1>1, <2>3, <2>4 DEF Looked, Shown
  <2> QED BY <1>1, <2>1, <2>2, <2>5 DEF ClickInv
<1>4. ASSUME pc # "reperceive", UNCHANGED <<listing, touched, hit>>,
             pc' \notin {"reperceive", "match", "idle"}, pc = "match" => Matches(call.id) # {}
      PROVE  ClickInv'
    BY <1>1, <1>2, <1>4, LookStays DEF ClickInv
<1>5. CASE RefuseStale
  <2>1. Looked' /\ Matches(call.id)' = Matches(call.id)
      BY <1>1, <1>2, <1>5, LookStays DEF RefuseStale
  <2> QED BY <1>1, <1>2, <1>5, <2>1 DEF RefuseStale, Reply, ClickInv, history
<1>6. CASE Match
    BY <1>4, <1>6 DEF Match, history
<1>7. CASE Reject \/ Halt \/ Deny
  <2>1. pc' \in {"report", "settle", "next"}
      BY <1>7, ThenGoes DEF Reject, Halt, Deny
  <2> QED BY <1>4, <1>7, <2>1 DEF Reject, Halt, Deny
<1>8. CASE Parse \/ Guard \/ Settle \/ NextAction
    BY <1>4, <1>8 DEF Parse, Guard, Settle, Onward, NextAction, history
<1>9. CASE Dispatch
  <2>1. pc' \in {"report", "settle", "next"}
      BY <1>9, ThenGoes DEF Dispatch
  <2>2. pc = "dispatch" /\ UNCHANGED listing /\ hit' = Found
      BY <1>1, <1>9 DEF Dispatch
  <2>3. Looked' /\ Matches(call.id)' = Matches(call.id)
      BY <1>1, <1>2, <2>2, LookStays
  <2>4. hit'.calm => \E c \in hit'.controls : Ident[c] = call.id
    <3>1. Found.calm = calm
        BY DEF Found
    <3> QED BY <1>1, <1>2, <2>2, <3>1, HitBearsId
  <2> QED BY <1>1, <1>2, <2>1, <2>2, <2>3, <2>4 DEF ClickInv
<1>10. CASE ReportSingle
  <2>1. /\ pc = "report" /\ pc' = "idle" /\ UNCHANGED <<listing, touched, hit>>
        /\ "refused" \notin DOMAIN answer'
      BY <1>10 DEF ReportSingle, Reply, history
  <2>2. Looked' /\ Matches(call.id)' = Matches(call.id)
      BY <1>1, <1>2, <2>1, LookStays
  <2> QED BY <1>1, <1>2, <2>1, <2>2 DEF ClickInv
<1>11. CASE ReportBatch
    BY <1>1, <1>11 DEF ReportBatch
<1>12. CASE ParseRaises
  <2>1. /\ pc = "parse" /\ pc' = "idle" /\ UNCHANGED <<listing, touched, hit>>
        /\ "refused" \notin DOMAIN answer'
      BY <1>12 DEF ParseRaises, Reply, history
  <2>2. Looked' /\ Matches(call.id)' = Matches(call.id)
      BY <1>1, <1>2, <2>1, LookStays
  <2> QED BY <1>1, <1>2, <2>1, <2>2 DEF ClickInv
<1> QED BY <1>3, <1>5, <1>6, <1>7, <1>8, <1>9, <1>10, <1>11, <1>12 DEF Serve

(* A request of a click has taken no look yet; a perception is what it is
   asked for; every other request knows nothing of the screen.              *)
LEMMA LookRequest == Request => PerceiveInv' /\ ClickInv'
<1> SUFFICES ASSUME Request PROVE PerceiveInv' /\ ClickInv'
    OBVIOUS
<1> USE DEF PerceiveInv, ClickInv, Accept, Afresh, Instant
<1>1. ASSUME NEW kind, NEW settle, NEW report, BeginAct(kind, settle, report)
      PROVE  PerceiveInv' /\ ClickInv'
    BY <1>1 DEF BeginAct
<1>2. ASSUME NEW batch, NEW stopOnFailure, NEW settle, BeginMany(batch, stopOnFailure, settle)
      PROVE  PerceiveInv' /\ ClickInv'
    BY <1>2 DEF BeginMany
<1>3. ASSUME NEW id, BeginClick(id)
      PROVE  PerceiveInv' /\ ClickInv'
    BY <1>3 DEF BeginClick
<1>4. ASSUME NEW screenshot \in BOOLEAN, NEW want, NEW cap, Perceive(screenshot, want, cap)
      PROVE  PerceiveInv' /\ ClickInv'
  <2>1. /\ call' = [op |-> "perceive", want |-> want, cap |-> cap]
        /\ listing' = Perceived(screenshot, want, cap)
      BY <1>4 DEF Perceive
  <2>2. \A c \in (listing'.shown \ Deep) \cap want :
           (\E e \in listing'.elements : e.control = c) \/ listing'.truncated
      BY <2>1, PerceivedTells
  <2> QED BY <2>1, <2>2
<1>5. CASE RefuseEmpty \/ Screenshot \/ EmergencyStop \/ ClearStop
    BY <1>5 DEF RefuseEmpty, Screenshot, EmergencyStop, ClearStop, NoCall
<1> QED BY <1>1, <1>2, <1>3, <1>4, <1>5 DEF Request

(* While the world moves, a look is out of date and says so. *)
LEMMA ClickElse == BridgeInv /\ (World \/ UNCHANGED vars) => ClickInv'
<1> SUFFICES ASSUME BridgeInv, World \/ UNCHANGED vars, call'.op = "click" PROVE ClickInv'
    BY DEF ClickInv
<1>1. /\ UNCHANGED <<bridgeVars, touched, hit>>
      /\ calm' => calm /\ UNCHANGED at
  <2>1. ASSUME NEW c, NEW p, Rearrange(c, p)
        PROVE  UNCHANGED <<bridgeVars, touched, hit>> /\ ~calm'
      BY <2>1 DEF Rearrange, bridgeVars
  <2>2. ASSUME NEW w, ComesToFront(w)
        PROVE  UNCHANGED <<bridgeVars, touched, hit, calm, at>>
      BY <2>2 DEF ComesToFront, history
  <2> QED BY <2>1, <2>2 DEF World, StopElsewhere, ClearElsewhere, vars, history
<1>2. ClickInv /\ call.op = "click"
    BY <1>1 DEF BridgeInv, bridgeVars
<1>3. pc # "reperceive" => Looked'
    BY <1>1, <1>2 DEF ClickInv, Looked, Shown, bridgeVars
<1>4. Matches(call.id)' = Matches(call.id)
    BY <1>1 DEF Matches, bridgeVars
<1> QED BY <1>1, <1>2, <1>3, <1>4 DEF ClickInv, bridgeVars

(* Only a request is told of a perception. *)
LEMMA PerceiveElse == BridgeInv /\ (Serve \/ World \/ UNCHANGED vars) => PerceiveInv'
<1> SUFFICES ASSUME BridgeInv, Serve \/ World \/ UNCHANGED vars PROVE PerceiveInv'
    OBVIOUS
<1>1. CASE Serve
  <2>1. call.op # "perceive" /\ UNCHANGED call
    <3>1. pc # "idle" /\ UNCHANGED call
        BY <1>1 DEF Serve, Reperceive, RefuseStale, Match, Reject, ParseRaises, Parse, Halt, Deny, Guard,
                    Dispatch, Settle, NextAction, ReportSingle, ReportBatch, history
    <3> QED BY <3>1 DEF BridgeInv, Placed, Asked
  <2> QED BY <2>1 DEF PerceiveInv
<1>2. CASE World \/ UNCHANGED vars
  <2>1. UNCHANGED bridgeVars
    <3>1. ASSUME NEW c, NEW p, Rearrange(c, p) PROVE UNCHANGED bridgeVars
        BY <3>1 DEF Rearrange
    <3>2. ASSUME NEW w, ComesToFront(w) PROVE UNCHANGED bridgeVars
        BY <3>2 DEF ComesToFront
    <3> QED BY <1>2, <3>1, <3>2 DEF World, StopElsewhere, ClearElsewhere, vars
  <2> QED BY <2>1 DEF BridgeInv, PerceiveInv, bridgeVars
<1> QED BY <1>1, <1>2

-----------------------------------------------------------------------------
(* The parts hold together in every state the bridge reaches: its inductive
   invariant.                                                               *)
THEOREM BridgeInvariant == Spec => []BridgeInv
<1>1. BridgeInv /\ [Next]_vars => BridgeInv'
  <2> SUFFICES ASSUME BridgeInv, [Next]_vars PROVE BridgeInv'
      OBVIOUS
  <2>1. TypeOK' /\ Placed'
    <3>1. CASE UNCHANGED vars
        BY <3>1 DEF BridgeInv, TypeOK, Placed, Asked, vars, bridgeVars, history
    <3> QED BY <3>1, TypesServe, TypesRequest, TypesWorld DEF BridgeInv, Next
  <2>2. OneThrough'
    <3>1. CASE UNCHANGED vars
        BY <3>1 DEF BridgeInv, OneThrough, vars, bridgeVars, history
    <3> QED BY <3>1, OneThroughServe, OneThroughElse DEF BridgeInv, Next
  <2>3. BatchInv'
      BY BatchServe, BatchRequest, BatchElse DEF Next
  <2>4. PerceiveInv'
      BY PerceiveElse, LookRequest DEF Next
  <2>5. ClickInv'
      BY ClickServe, LookRequest, ClickElse DEF Next
  <2> QED BY <2>1, <2>2, <2>3, <2>4, <2>5 DEF BridgeInv
<1> QED BY <1>1, BridgeInit, PTL DEF Spec

(* The bridge keeps its types while it serves requests of every kind. *)
THEOREM BridgeTypes == Spec => []TypeOK
<1>1. BridgeInv => TypeOK
    BY DEF BridgeInv
<1> QED BY <1>1, BridgeInvariant, PTL

(* After an emergency stop that nobody cleared at most one action of the agent
   reaches the desktop, however long its batches are.                       *)
THEOREM StopBoundsAgent == Spec => []StopLetsOneThrough
<1>1. BridgeInv => StopLetsOneThrough
    BY DEF BridgeInv, OneThrough, StopLetsOneThrough
<1> QED BY <1>1, BridgeInvariant, PTL

(* act_many reports what was done, and goes no further than it was told. *)
THEOREM BatchesHonest == Spec => []BatchHonest
<1>1. BridgeInv => BatchHonest
  <2> SUFFICES ASSUME BridgeInv, call.op = "many" PROVE BatchHonest
      BY DEF BatchHonest
  <2>1. /\ Results /\ Failures
        /\ index \in 1 .. Len(call.batch) /\ Len(call.batch) \in Nat
        /\ DOMAIN call.batch = 1 .. Len(call.batch)
      BY DEF BridgeInv, BatchInv, TypeOK, Placed, Asked
  <2>2. okays \subseteq touched /\ \A i \in touched : call.batch[i] = "plain"
      BY <2>1 DEF Results
  <2>3. call.stopOnFailure => \A i \in touched, j \in failed : i <= j
      BY <2>1 DEF Results, Failures
  <2>4. ASSUME pc = "idle", ~Broken
        PROVE  /\ "completed" \in DOMAIN answer
               /\ answer.ok <=> okays = DOMAIN call.batch
               /\ answer.completed = Cardinality(okays)
               /\ ~answer.ok => answer.failedAt \in failed \ okays
    <3>1. /\ answer = [ok |-> failedAt = 0, completed |-> Cardinality(okays), failedAt |-> failedAt]
          /\ okays \cap failed = {} /\ okays \cup failed = 1 .. index
          /\ index = Len(call.batch) \/ failed # {}
        BY <2>1, <2>4 DEF Results, Failures
    <3>2. failedAt = 0 <=> failed = {}
        BY <2>1, <3>1 DEF Failures
    <3>3. failed = {} <=> okays = DOMAIN call.batch
      <4>1. ASSUME failed = {} PROVE okays = DOMAIN call.batch
          BY <2>1, <3>1, <4>1
      <4>2. ASSUME failed # {} PROVE okays # DOMAIN call.batch
        <5>1. PICK j \in failed : TRUE
            BY <4>2
        <5>2. j \in DOMAIN call.batch /\ j \notin okays
            BY <2>1, <3>1, <5>1
        <5> QED BY <5>2
      <4> QED BY <4>1, <4>2
    <3>4. failed # {} => failedAt \in failed \ okays
        BY <2>1, <3>1 DEF Failures
    <3>5. "completed" \in DOMAIN answer
        BY <3>1
    <3> QED BY <3>1, <3>2, <3>3, <3>4, <3>5
  <2>5. ASSUME pc = "idle", Broken
        PROVE  /\ "completed" \notin DOMAIN answer /\ ~answer.ok
               /\ call.batch[index] = "unhashable" /\ \A j \in touched : j < index
    <3>1. answer = [ok |-> FALSE, raised |-> TRUE]
        BY <2>1, <2>5 DEF Failures
    <3>2. touched \subseteq 1 .. index - 1
        BY <2>1, <2>5 DEF Results
    <3> QED BY <2>1, <2>5, <3>1, <3>2 DEF Broken, Current
  <2>6. pc = "idle" =>
           IF "completed" \in DOMAIN answer
           THEN /\ answer.ok <=> okays = DOMAIN call.batch
                /\ answer.completed = Cardinality(okays)
                /\ ~answer.ok => answer.failedAt \in failed \ okays
           ELSE /\ ~answer.ok
                /\ \E i \in DOMAIN call.batch :
                      call.batch[i] = "unhashable" /\ \A j \in touched : j < i
    <3>1. CASE pc = "idle" /\ ~Broken
        BY <2>4, <3>1
    <3>2. CASE pc = "idle" /\ Broken
        BY <2>1, <2>5, <3>2
    <3> QED BY <3>1, <3>2
  <2> QED BY <2>2, <2>3, <2>6 DEF BatchHonest
<1> QED BY <1>1, BridgeInvariant, PTL

(* rank_and_cap keeps as many elements of the walk as it may and there are, and
   none that the order puts behind one it drops: what an agent can use is cut
   last, and a list is cut only when there is more than it may hold.        *)
THEOREM CapKeepsFirst ==
    /\ Cardinality(FirstOf(Walk, MaxElements)) =
          IF Cardinality(Walk) < MaxElements THEN Cardinality(Walk) ELSE MaxElements
    /\ \A e \in FirstOf(Walk, MaxElements), f \in Walk \ FirstOf(Walk, MaxElements) : Sooner(e, f)
<1> DEFINE C == Cardinality(Walk)
           n == IF C < MaxElements THEN C ELSE MaxElements
           kept == FirstOf(Walk, MaxElements)
<1>1. C \in Nat /\ MaxElements \in Nat /\ n \in Nat /\ n <= C
    BY WalkIsFinite, FS_CardinalityType, BridgeAssumption
<1>2. Rank \in Bijection(Walk, 0 .. C - 1)
    BY RankIsBijection
<1>3. Rank \in [Walk -> 0 .. C - 1]
    BY <1>2 DEF Bijection, Surjection
<1>4. \A e \in Walk : e \in kept <=> Rank[e] < MaxElements
    BY DEF FirstOf, Rank, Before
<1>5. kept \in SUBSET Walk
    BY DEF FirstOf
<1>6. \A e \in Walk : e \in kept <=> Rank[e] \in 0 .. n - 1
    BY <1>1, <1>3, <1>4
<1> HIDE DEF kept, n, C
<1>7. Cardinality(kept) = n
  <2> DEFINE g == [e \in kept |-> Rank[e]]
  <2>1. g \in [kept -> 0 .. n - 1]
      BY <1>5, <1>6
  <2>2. g \in Injection(kept, 0 .. n - 1)
      BY <1>2, <1>5, <2>1 DEF Bijection, Injection, IsInjective
  <2>3. ASSUME NEW i \in 0 .. n - 1
        PROVE  \E e \in kept : g[e] = i
    <3>1. i \in 0 .. C - 1
        BY <1>1
    <3>2. PICK e \in Walk : Rank[e] = i
        BY <1>2, <3>1 DEF Bijection, Surjection
    <3>3. e \in kept
        BY <1>6, <3>2
    <3> QED BY <3>2, <3>3
  <2>4. g \in Bijection(kept, 0 .. n - 1)
      BY <2>1, <2>2, <2>3 DEF Bijection, Surjection
  <2>5. IsFiniteSet(kept)
      BY <1>5, WalkIsFinite, FS_Subset
  <2>6. Cardinality(0 .. n - 1) = Cardinality(kept)
      BY <2>4, <2>5, FS_Bijection DEF ExistsBijection
  <2>7. Cardinality(0 .. n - 1) = n
      BY <1>1, FS_Interval
  <2> QED BY <2>6, <2>7
<1>8. ASSUME NEW e \in kept, NEW f \in Walk \ kept
      PROVE  Sooner(e, f)
  <2>1. e \in Walk /\ Rank[e] < Rank[f]
      BY <1>1, <1>3, <1>4, <1>5, <1>8
  <2>2. CASE Sooner(f, e)
    <3>1. Before(f) \in SUBSET Before(e)
        BY <2>1, <2>2, WalkOrder DEF Before
    <3>2. IsFiniteSet(Before(e)) /\ IsFiniteSet(Before(f))
        BY WalkIsFinite, FS_Subset DEF Before
    <3>3. Cardinality(Before(f)) <= Cardinality(Before(e))
        BY <3>1, <3>2, FS_Subset
    <3>4. Cardinality(Before(f)) \in Nat /\ Cardinality(Before(e)) \in Nat
        BY <3>2, FS_CardinalityType
    <3> QED BY <2>1, <3>3, <3>4 DEF Rank
  <2> QED BY <2>1, <2>2, WalkOrder
<1> QED BY <1>7, <1>8 DEF kept, n, C

(* A click by id goes to a place where the look of this very call found the id,
   the control there bears it still if the screen has not moved, and a refusal
   of an id that is on the screen says that the list was cut.               *)
THEOREM ClicksFollowIds == Spec => []ClickFollowsId
<1>1. BridgeInv => ClickFollowsId
  <2> SUFFICES ASSUME BridgeInv, call.op = "click" PROVE ClickFollowsId
      BY DEF ClickFollowsId
  <2>1. ClickInv
      BY DEF BridgeInv
  <2>2. 1 \in touched /\ hit.calm => \E c \in hit.controls : Ident[c] = call.id
      BY <2>1 DEF ClickInv
  <2>3. ASSUME 1 \in touched PROVE \E c \in listing.shown : Ident[c] = call.id
    <3>1. Looked /\ Matches(call.id) # {}
        BY <2>1, <2>3 DEF ClickInv
    <3> QED BY <3>1 DEF Looked, Matches
  <2>4. ASSUME pc = "idle", "refused" \in DOMAIN answer, calm,
               NEW c \in Shown \ Deep, Ident[c] = call.id, ~answer.truncated
        PROVE  FALSE
    <3>1. Looked /\ Matches(call.id) = {} /\ ~listing.truncated
        BY <2>1, <2>4 DEF ClickInv
    <3>2. c \in listing.shown \ Deep
        BY <2>4, <3>1 DEF Looked
    <3>3. PICK e \in listing.elements : e.control = c /\ e.id = Ident[c]
        BY <3>1, <3>2 DEF Looked
    <3> QED BY <2>4, <3>1, <3>3 DEF Matches
  <2> QED BY <2>2, <2>3, <2>4 DEF ClickFollowsId
<1> QED BY <1>1, BridgeInvariant, PTL

(* A perception that leaves out a control the walk reaches and the filters
   want says that its list was cut.                                         *)
THEOREM CutsAreTold == Spec => []CutIsTold
<1>1. BridgeInv => CutIsTold
    BY DEF BridgeInv, PerceiveInv, CutIsTold
<1> QED BY <1>1, BridgeInvariant, PTL
=============================================================================
