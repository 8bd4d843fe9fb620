-------------------------- MODULE CliBrokerProofs --------------------------
(* For any callers and commands: what starts was consented to, starts once,*)
(* and the log does not overstate it.                                      *)
EXTENDS CliBroker, TLAPS

USE CliBrokerAssumption

LEMMA ActiveCall ==
  ASSUME BrokerInv, NEW c \in Callers, Active(c)
  PROVE  call[c] \in Calls /\ Id(c) \in Ids /\ Id(c) <= made
  BY DEF BrokerInv, TypeOK, OwnCalls, Calls, Id

LEMMA RecordTyped ==
  ASSUME BrokerInv, NEW c \in Callers, Active(c),
         NEW kind \in {"blocked", "launched", "executed"}, NEW elevated \in BOOLEAN
  PROVE  Record(c, kind, elevated) \in LogRecords
<1>1. approved[c] \in BOOLEAN /\ number[c] \in Nat /\ None \in Nat
  BY DEF BrokerInv, TypeOK, None
<1>2. QED  BY ActiveCall, <1>1 DEF Record, LogRecords

LEMMA InitBroker == Init => BrokerInv
<1> SUFFICES ASSUME Init  PROVE BrokerInv
  OBVIOUS
<1>1. TypeOK
  <2>1. made \in 0..MaxCalls
    BY DEF Init
  <2>2. None \in Nat
    BY DEF None
  <2>3. QED  BY <2>1, <2>2 DEF Init, TypeOK, Places
<1>2. OwnCalls /\ NothingAhead /\ Gated /\ Claims /\ Numbered
  BY DEF Init, OwnCalls, NothingAhead, Gated, Claims, Numbered, Active, InRun
<1>3. GatedStart /\ StartsOnce /\ HonestLog /\ OwnFiles
  BY DEF Init, GatedStart, StartsOnce, HonestLog, OwnFiles, InRun
<1>4. QED  BY <1>1, <1>2, <1>3 DEF BrokerInv

(* The types.  What a step records is the id of a call in progress.        *)
LEMMA NextTypes == BrokerInv /\ [Next]_vars => TypeOK'
<1> SUFFICES ASSUME BrokerInv, [Next]_vars  PROVE TypeOK'
  OBVIOUS
<1> USE DEF BrokerInv, TypeOK, Places, Goto, process, frame, disk, history
<1>1. ASSUME NEW c \in Callers, Begin(c)
      PROVE  TypeOK'
  <2>1. made' \in Ids /\ made' \in 0..MaxCalls
    BY <1>1 DEF Begin, Ids
  <2>2. QED  BY <1>1, <2>1 DEF Begin
<1>2. ASSUME NEW c \in Callers, NeedsNoApproval(c) \/ SessionRule(c) \/ AskApprover(c) \/ Approve(c)
      PROVE  TypeOK'
  <2>1. call[c] \in Calls /\ Id(c) \in Ids
    BY <1>2, ActiveCall DEF NeedsNoApproval, SessionRule, AskApprover, Approve, Consent, Active
  <2>2. QED  BY <1>2, <2>1 DEF NeedsNoApproval, SessionRule, AskApprover, Approve, Consent
<1>3. ASSUME NEW c \in Callers, TakeNumber(c)
      PROVE  TypeOK'
  BY <1>3 DEF TakeNumber
<1>4. ASSUME NEW c \in Callers, ElevationFails(c) \/ WriteOutput(c)
      PROVE  TypeOK'
  <2>1. call[c] \in Calls /\ Id(c) \in Ids
    BY <1>4, ActiveCall DEF ElevationFails, WriteOutput, Active
  <2>2. QED  BY <1>4, <2>1 DEF ElevationFails, WriteOutput
<1>5. ASSUME NEW c \in Callers, Launch(c)
      PROVE  TypeOK'
  <2>1. call[c] \in Calls /\ Id(c) \in Ids
    BY <1>5, ActiveCall DEF Launch, Starts, Active
  <2>2. QED  BY <1>5, <2>1 DEF Launch, Starts
<1>6. ASSUME NEW c \in Callers, RunElevated(c)
      PROVE  TypeOK'
  <2>1. call[c] \in Calls /\ Id(c) \in Ids
    BY <1>6, ActiveCall DEF RunElevated, Starts, Active
  <2>2. QED  BY <1>6, <2>1 DEF RunElevated, Starts
<1>7. ASSUME NEW c \in Callers, RunInline(c) \/ FallBackInline(c)
      PROVE  TypeOK'
  <2>1. call[c] \in Calls /\ Id(c) \in Ids
    BY <1>7, ActiveCall DEF RunInline, FallBackInline, Inline, Active
  <2>2. call[c].elevated \in BOOLEAN
    BY <2>1 DEF Calls
  <2>3. QED  BY <1>7, <2>1, <2>2 DEF RunInline, FallBackInline, Inline, Starts
<1>8. ASSUME NEW c \in Callers, Blocked(c) \/ RecordLaunched(c) \/ RecordExecuted(c)
      PROVE  TypeOK'
  <2>1. Active(c) /\ Id(c) \in Ids
    BY <1>8, ActiveCall DEF Blocked, RecordLaunched, RecordExecuted, Leave, Active
  <2>2. \E kind \in {"blocked", "launched", "executed"}, elevated \in BOOLEAN :
          Audit(Record(c, kind, elevated))
    BY <1>8 DEF Blocked, RecordLaunched, RecordExecuted
  <2>3. log' \subseteq LogRecords
    BY <2>1, <2>2, RecordTyped DEF Audit
  <2>4. None \in Nat
    BY DEF None
  <2>5. QED
    BY <1>8, <2>1, <2>3, <2>4 DEF Blocked, RecordLaunched, RecordExecuted, Leave
<1>9. ASSUME NEW c \in Callers, Raise(c)
      PROVE  TypeOK'
  <2>1. Id(c) \in Ids
    BY <1>9, ActiveCall DEF Raise, Leave, Active
  <2>2. None \in Nat
    BY DEF None
  <2>3. QED  BY <1>9, <2>1, <2>2 DEF Raise, Leave
<1>10. ASSUME NEW command \in Commands, AllowForSession(command)  PROVE TypeOK'
  BY <1>10 DEF AllowForSession
<1>11. CASE Restart
  <2>1. None \in Nat
    BY DEF None
  <2>2. QED  BY <1>11, <2>1 DEF Restart
<1>12. CASE UNCHANGED vars
  BY <1>12 DEF vars
<1>13. QED
  BY <1>1, <1>2, <1>3, <1>4, <1>5, <1>6, <1>7, <1>8, <1>9, <1>10, <1>11, <1>12 DEF Next

(* The calls in progress are different calls.                              *)
LEMMA NextOwnCalls == BrokerInv /\ [Next]_vars => OwnCalls'
<1> SUFFICES ASSUME BrokerInv, [Next]_vars  PROVE OwnCalls'
  OBVIOUS
<1> USE DEF BrokerInv, TypeOK, OwnCalls, Active, Id, Goto, process, frame, disk, history
<1>1. ASSUME NEW c \in Callers, Begin(c)
      PROVE  OwnCalls'
  <2>1. PICK k \in Calls : k.id = made + 1 /\ call' = [call EXCEPT ![c] = k]
    BY <1>1 DEF Begin
  <2>2. at'[c] = "gate" /\ call'[c] = k /\ k # NoCall /\ made \in Nat /\ made' = made + 1
    BY <1>1, <2>1 DEF Begin
  <2>3. \A b \in Callers : b # c => at'[b] = at[b] /\ call'[b] = call[b]
    BY <1>1, <2>1 DEF Begin
  <2>4. \A b \in Callers : Active(b) => call[b].id \in Nat /\ call[b].id <= made
    BY ActiveCall DEF Ids, Id
  <2>5. QED  BY <1>1, <2>1, <2>2, <2>3, <2>4 DEF Begin
<1>2. ASSUME NEW c \in Callers,
             \/ NeedsNoApproval(c) \/ SessionRule(c) \/ AskApprover(c) \/ Approve(c)
             \/ TakeNumber(c) \/ ElevationFails(c) \/ WriteOutput(c)
      PROVE  OwnCalls'
  BY <1>2 DEF NeedsNoApproval, SessionRule, AskApprover, Approve, Consent, TakeNumber,
     ElevationFails, WriteOutput
<1>3. ASSUME NEW c \in Callers, Launch(c) \/ RunElevated(c) \/ RunInline(c) \/ FallBackInline(c)
      PROVE  OwnCalls'
  BY <1>3 DEF Launch, RunElevated, RunInline, FallBackInline, Inline, Starts
<1>4. ASSUME NEW c \in Callers, Blocked(c) \/ RecordLaunched(c) \/ RecordExecuted(c)
      PROVE  OwnCalls'
  BY <1>4 DEF Blocked, RecordLaunched, RecordExecuted, Leave, Audit, Record
<1>5. ASSUME NEW c \in Callers, Raise(c)
      PROVE  OwnCalls'
  BY <1>5 DEF Raise, Leave
<1>6. ASSUME NEW command \in Commands, AllowForSession(command)  PROVE OwnCalls'
  BY <1>6 DEF AllowForSession
<1>7. CASE Restart
  BY <1>7 DEF Restart
<1>8. CASE UNCHANGED vars
  BY <1>8 DEF vars
<1>9. QED
  BY <1>1, <1>2, <1>3, <1>4, <1>5, <1>6, <1>7, <1>8 DEF Next

(* Nothing is logged of a call in progress or started ahead of its time.   *)
LEMMA NextNothingAhead == BrokerInv /\ [Next]_vars => NothingAhead'
<1> SUFFICES ASSUME BrokerInv, [Next]_vars  PROVE NothingAhead'
  OBVIOUS
<1> USE DEF BrokerInv, TypeOK, OwnCalls, NothingAhead, Active, Id, Goto, process, frame, disk, history
<1>1. ASSUME NEW c \in Callers, Begin(c)
      PROVE  NothingAhead'
  <2>1. PICK k \in Calls : k.id = made + 1 /\ call' = [call EXCEPT ![c] = k]
    BY <1>1 DEF Begin
  <2>2. at'[c] = "gate" /\ call'[c] = k /\ k # NoCall /\ made \in Nat /\ made' = made + 1
    BY <1>1, <2>1 DEF Begin
  <2>3. \A b \in Callers : b # c => at'[b] = at[b] /\ call'[b] = call[b]
    BY <1>1, <2>1 DEF Begin
  <2>4. \A b \in Callers : Active(b) => call[b].id \in Nat /\ call[b].id <= made
    BY ActiveCall DEF Ids, Id
  <2>5. \A e \in log : e.id \in Nat
    BY DEF LogRecords, Ids
  <2>6. \A i \in started \union risky : i \in Nat
    BY DEF Ids
  <2>7. started' = started /\ log' = log /\ risky' \subseteq risky \union {made + 1}
    BY <1>1 DEF Begin
  <2>8. QED  BY <1>1, <2>1, <2>2, <2>3, <2>4, <2>5, <2>6, <2>7
<1>2. ASSUME NEW c \in Callers,
             \/ NeedsNoApproval(c) \/ SessionRule(c) \/ AskApprover(c) \/ Approve(c)
             \/ TakeNumber(c) \/ ElevationFails(c) \/ WriteOutput(c)
      PROVE  NothingAhead'
  BY <1>2 DEF NeedsNoApproval, SessionRule, AskApprover, Approve, Consent, TakeNumber,
     ElevationFails, WriteOutput
<1>3. ASSUME NEW c \in Callers, Launch(c) \/ RunElevated(c) \/ RunInline(c) \/ FallBackInline(c)
      PROVE  NothingAhead'
  BY <1>3 DEF Launch, RunElevated, RunInline, FallBackInline, Inline, Starts
<1>4. ASSUME NEW c \in Callers, Blocked(c) \/ RecordLaunched(c) \/ RecordExecuted(c)
      PROVE  NothingAhead'
  BY <1>4 DEF Blocked, RecordLaunched, RecordExecuted, Leave, Audit, Record
<1>5. ASSUME NEW c \in Callers, Raise(c)
      PROVE  NothingAhead'
  BY <1>5 DEF Raise, Leave
<1>6. ASSUME NEW command \in Commands, AllowForSession(command)  PROVE NothingAhead'
  BY <1>6 DEF AllowForSession
<1>7. CASE Restart
  BY <1>7 DEF Restart
<1>8. CASE UNCHANGED vars
  BY <1>8 DEF vars
<1>9. QED
  BY <1>1, <1>2, <1>3, <1>4, <1>5, <1>6, <1>7, <1>8 DEF Next

(* Past the gate, a high-risk call has its consent.                        *)
LEMMA NextGated == BrokerInv /\ [Next]_vars => (Gated /\ GatedStart)'
<1> SUFFICES ASSUME BrokerInv, [Next]_vars  PROVE (Gated /\ GatedStart)'
  OBVIOUS
<1> USE DEF BrokerInv, TypeOK, OwnCalls, NothingAhead, Gated, GatedStart, Active, Id,
            Places, Goto, process, frame, disk, history
<1>1. ASSUME NEW c \in Callers, Begin(c)
      PROVE  (Gated /\ GatedStart)'
  BY <1>1 DEF Begin
<1>2. ASSUME NEW c \in Callers,
             \/ NeedsNoApproval(c) \/ SessionRule(c) \/ AskApprover(c) \/ Approve(c)
             \/ TakeNumber(c) \/ ElevationFails(c) \/ WriteOutput(c)
      PROVE  (Gated /\ GatedStart)'
  BY <1>2 DEF NeedsNoApproval, SessionRule, AskApprover, Approve, Consent, TakeNumber,
     ElevationFails, WriteOutput
<1>3. ASSUME NEW c \in Callers, Launch(c) \/ RunElevated(c) \/ RunInline(c) \/ FallBackInline(c)
      PROVE  (Gated /\ GatedStart)'
  BY <1>3 DEF Launch, RunElevated, RunInline, FallBackInline, Inline, Starts
<1>4. ASSUME NEW c \in Callers, Blocked(c) \/ RecordLaunched(c) \/ RecordExecuted(c)
      PROVE  (Gated /\ GatedStart)'
  BY <1>4 DEF Blocked, RecordLaunched, RecordExecuted, Leave, Audit, Record
<1>5. ASSUME NEW c \in Callers, Raise(c)
      PROVE  (Gated /\ GatedStart)'
  BY <1>5 DEF Raise, Leave
<1>6. ASSUME NEW command \in Commands, AllowForSession(command)  PROVE (Gated /\ GatedStart)'
  BY <1>6 DEF AllowForSession
<1>7. CASE Restart
  BY <1>7 DEF Restart
<1>8. CASE UNCHANGED vars
  BY <1>8 DEF vars
<1>9. QED
  BY <1>1, <1>2, <1>3, <1>4, <1>5, <1>6, <1>7, <1>8 DEF Next

(* What the locals of a call claim is true.                                *)
LEMMA NextClaims == BrokerInv /\ [Next]_vars => Claims'
<1> SUFFICES ASSUME BrokerInv, [Next]_vars  PROVE Claims'
  OBVIOUS
<1> USE DEF BrokerInv, TypeOK, OwnCalls, Claims, NothingAhead, Active, Id, Goto, process, frame, disk, history
<1>1. ASSUME NEW c \in Callers, Begin(c)
      PROVE  Claims'
  BY <1>1 DEF Begin
<1>2. ASSUME NEW c \in Callers,
             \/ NeedsNoApproval(c) \/ SessionRule(c) \/ AskApprover(c) \/ Approve(c)
             \/ TakeNumber(c) \/ ElevationFails(c) \/ WriteOutput(c)
      PROVE  Claims'
  BY <1>2 DEF NeedsNoApproval, SessionRule, AskApprover, Approve, Consent, TakeNumber,
     ElevationFails, WriteOutput
<1>3. ASSUME NEW c \in Callers, Launch(c) \/ RunElevated(c) \/ RunInline(c) \/ FallBackInline(c)
      PROVE  Claims'
  BY <1>3 DEF Launch, RunElevated, RunInline, FallBackInline, Inline, Starts
<1>4. ASSUME NEW c \in Callers, Blocked(c) \/ RecordLaunched(c) \/ RecordExecuted(c)
      PROVE  Claims'
  BY <1>4 DEF Blocked, RecordLaunched, RecordExecuted, Leave, Audit, Record
<1>5. ASSUME NEW c \in Callers, Raise(c)
      PROVE  Claims'
  BY <1>5 DEF Raise, Leave
<1>6. ASSUME NEW command \in Commands, AllowForSession(command)  PROVE Claims'
  BY <1>6 DEF AllowForSession
<1>7. CASE Restart
  BY <1>7 DEF Restart
<1>8. CASE UNCHANGED vars
  BY <1>8 DEF vars
<1>9. QED
  BY <1>1, <1>2, <1>3, <1>4, <1>5, <1>6, <1>7, <1>8 DEF Next

(* Runs in progress have different numbers.                                *)
LEMMA NextNumbered == BrokerInv /\ [Next]_vars => (Numbered /\ OwnFiles)'
<1> SUFFICES ASSUME BrokerInv, [Next]_vars  PROVE (Numbered /\ OwnFiles)'
  OBVIOUS
<1> USE DEF BrokerInv, TypeOK, Numbered, OwnFiles, InRun, Goto, process, frame, disk, history
<1>1. ASSUME NEW c \in Callers, Begin(c)
      PROVE  (Numbered /\ OwnFiles)'
  BY <1>1 DEF Begin
<1>2. ASSUME NEW c \in Callers,
             \/ NeedsNoApproval(c) \/ SessionRule(c) \/ AskApprover(c) \/ Approve(c)
             \/ TakeNumber(c) \/ ElevationFails(c) \/ WriteOutput(c)
      PROVE  (Numbered /\ OwnFiles)'
  BY <1>2 DEF NeedsNoApproval, SessionRule, AskApprover, Approve, Consent, TakeNumber,
     ElevationFails, WriteOutput
<1>3. ASSUME NEW c \in Callers, Launch(c) \/ RunElevated(c) \/ RunInline(c) \/ FallBackInline(c)
      PROVE  (Numbered /\ OwnFiles)'
  BY <1>3 DEF Launch, RunElevated, RunInline, FallBackInline, Inline, Starts
<1>4. ASSUME NEW c \in Callers, Blocked(c) \/ RecordLaunched(c) \/ RecordExecuted(c)
      PROVE  (Numbered /\ OwnFiles)'
  BY <1>4 DEF Blocked, RecordLaunched, RecordExecuted, Leave, Audit, Record
<1>5. ASSUME NEW c \in Callers, Raise(c)
      PROVE  (Numbered /\ OwnFiles)'
  BY <1>5 DEF Raise, Leave
<1>6. ASSUME NEW command \in Commands, AllowForSession(command)  PROVE (Numbered /\ OwnFiles)'
  BY <1>6 DEF AllowForSession
<1>7. CASE Restart
  BY <1>7 DEF Restart
<1>8. CASE UNCHANGED vars
  BY <1>8 DEF vars
<1>9. QED
  BY <1>1, <1>2, <1>3, <1>4, <1>5, <1>6, <1>7, <1>8 DEF Next

(* The log tells the truth, and a command starts once.                     *)
LEMMA NextHonest == BrokerInv /\ [Next]_vars => (StartsOnce /\ HonestLog)'
<1> SUFFICES ASSUME BrokerInv, [Next]_vars  PROVE (StartsOnce /\ HonestLog)'
  OBVIOUS
<1> USE DEF BrokerInv, TypeOK, OwnCalls, NothingAhead, Claims, StartsOnce, HonestLog,
            Active, Id, Goto, process, frame, disk, history
<1>1. ASSUME NEW c \in Callers, Begin(c)
      PROVE  (StartsOnce /\ HonestLog)'
  BY <1>1 DEF Begin
<1>2. ASSUME NEW c \in Callers,
             \/ NeedsNoApproval(c) \/ SessionRule(c) \/ AskApprover(c) \/ Approve(c)
             \/ TakeNumber(c) \/ ElevationFails(c) \/ WriteOutput(c)
      PROVE  (StartsOnce /\ HonestLog)'
  BY <1>2 DEF NeedsNoApproval, SessionRule, AskApprover, Approve, Consent, TakeNumber,
     ElevationFails, WriteOutput
<1>3. ASSUME NEW c \in Callers, Launch(c) \/ RunElevated(c) \/ RunInline(c) \/ FallBackInline(c)
      PROVE  (StartsOnce /\ HonestLog)'
  BY <1>3 DEF Launch, RunElevated, RunInline, FallBackInline, Inline, Starts
<1>4. ASSUME NEW c \in Callers, Blocked(c) \/ RecordLaunched(c) \/ RecordExecuted(c)
      PROVE  (StartsOnce /\ HonestLog)'
  <2>1. CASE Blocked(c)
    <3>1. Active(c) /\ UNCHANGED <<started, restarted, asAdmin, consented>>
      BY <2>1 DEF Blocked, Leave
    <3>2. PICK r \in {Record(c, "blocked", FALSE)} : log' \subseteq log \union {r}
      BY <2>1 DEF Blocked, Audit
    <3>3. r.id = Id(c) /\ (r.approved => approved[c])
      BY <3>2, <3>1 DEF Record
    <3>4. ~r.elevated /\ Id(c) \notin started
      BY <3>2, <2>1 DEF Record, Blocked, Leave
    <3>5. QED  BY <3>1, <3>2, <3>3, <3>4
  <2>2. CASE RecordLaunched(c)
    <3>1. Active(c) /\ UNCHANGED <<started, restarted, asAdmin, consented>>
      BY <2>2 DEF RecordLaunched, Leave
    <3>2. PICK r \in {Record(c, "launched", FALSE)} : log' \subseteq log \union {r}
      BY <2>2 DEF RecordLaunched, Audit
    <3>3. r.id = Id(c) /\ (r.approved => approved[c])
      BY <3>2, <3>1 DEF Record
    <3>4. r.kind # "blocked" /\ (r.elevated => reported[c])
      BY <3>2 DEF Record
    <3>5. QED  BY <3>1, <3>2, <3>3, <3>4
  <2>3. CASE RecordExecuted(c)
    <3>1. Active(c) /\ UNCHANGED <<started, restarted, asAdmin, consented>>
      BY <2>3 DEF RecordExecuted, Leave
    <3>2. PICK r \in {Record(c, "executed", reported[c])} : log' \subseteq log \union {r}
      BY <2>3 DEF RecordExecuted, Audit
    <3>3. r.id = Id(c) /\ (r.approved => approved[c])
      BY <3>2, <3>1 DEF Record
    <3>4. r.kind # "blocked" /\ (r.elevated => reported[c])
      BY <3>2 DEF Record
    <3>5. QED  BY <3>1, <3>2, <3>3, <3>4
  <2>4. QED  BY <1>4, <2>1, <2>2, <2>3
<1>5. ASSUME NEW c \in Callers, Raise(c)
      PROVE  (StartsOnce /\ HonestLog)'
  BY <1>5 DEF Raise, Leave
<1>6. ASSUME NEW command \in Commands, AllowForSession(command)  PROVE (StartsOnce /\ HonestLog)'
  BY <1>6 DEF AllowForSession
<1>7. CASE Restart
  BY <1>7 DEF Restart
<1>8. CASE UNCHANGED vars
  BY <1>8 DEF vars
<1>9. QED
  BY <1>1, <1>2, <1>3, <1>4, <1>5, <1>6, <1>7, <1>8 DEF Next

LEMMA BrokerInvariant == Spec => []BrokerInv
<1>1. BrokerInv /\ [Next]_vars => BrokerInv'
  BY NextTypes, NextOwnCalls, NextNothingAhead, NextGated, NextClaims, NextNumbered, NextHonest
  DEF BrokerInv
<1>2. QED  BY InitBroker, <1>1, PTL DEF Spec

(* No high-risk command starts unconsented, on any path.                   *)
THEOREM BrokerGate == Spec => [](TypeOK /\ GatedStart)
<1>1. BrokerInv => TypeOK /\ GatedStart
  BY DEF BrokerInv
<1>2. QED  BY BrokerInvariant, <1>1, PTL

(* No call starts its command twice, across broker restarts (the numbering  *)
(* of run_command).                                                        *)
THEOREM NoSecondStart == Spec => []StartsOnce
<1>1. BrokerInv => StartsOnce
  BY DEF BrokerInv
<1>2. QED  BY BrokerInvariant, <1>1, PTL

(* The audit log never overstates what was started and how it ended.       *)
THEOREM BrokerLog == Spec => []HonestLog
<1>1. BrokerInv => HonestLog
  BY DEF BrokerInv
<1>2. QED  BY BrokerInvariant, <1>1, PTL

(* Runs that overlap keep their output files apart.                        *)
THEOREM FilesApart == Spec => []OwnFiles
<1>1. BrokerInv => OwnFiles
  BY DEF BrokerInv
<1>2. QED  BY BrokerInvariant, <1>1, PTL
============================================================================
