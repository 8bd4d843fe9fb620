------------------------------ MODULE CliBroker ------------------------------
(***************************************************************************)
(* ElevatedCliBroker of broker/cli_broker.py: run() and launch(), called   *)
(* by the threads that share one broker.  The approver, the operating      *)
(* system and the UAC prompt are the environment.  A call that             *)
(* estop.check() refuses changes nothing and is no step here.              *)
(* The number of a run is taken in one step: CPython switches threads only *)
(* at calls and backward jumps, and there is none between the two lines.   *)
(***************************************************************************)
EXTENDS Naturals

CONSTANTS
  Callers,      \* threads that call the broker
  Commands,     \* command lines
  HighRisk,     \* those at or above the policy's approval threshold
  NoCall,       \* the arguments of a caller that is in no call
  MaxCalls      \* bound: calls made over all restarts

Ids == 1..MaxCalls
None == 0
Calls == [id : Ids, cmd : Commands, how : {"run", "launch"}, elevated : BOOLEAN]

ASSUME CliBrokerAssumption ==
  HighRisk \subseteq Commands /\ NoCall \notin Calls /\ MaxCalls \in Nat

VARIABLES
  admin,        \* _is_elevated(): this process has the administrator's token
  elevator,     \* self.elevator is not None
  counter,      \* _counter
  sessionAllow, \* _session_allow
  at,           \* where each caller is in run() or launch()
  call,         \* the arguments of each caller's call
  approved,     \* local of run() and launch()
  number,       \* n, the number in the names of the output files
  reported,     \* actually_elevated
  made,         \* calls made so far
  files,        \* the call whose output the files of this number hold
  log,          \* the audit log's cli.* records
  risky,        \* history: calls of a high-risk command
  consented,    \* history: calls the approver or a session rule allowed
  started,      \* history: calls whose command was started
  restarted,    \* history: calls whose command was started again
  asAdmin       \* history: calls whose command had the administrator's token

process == <<admin, elevator, counter, sessionAllow>>
frame == <<at, call, approved, number, reported>>
disk == <<files, log>>
history == <<risky, consented, started, restarted, asAdmin>>
vars == <<process, frame, made, disk, history>>

Goto(c, from, to) == at[c] = from /\ at' = [at EXCEPT ![c] = to]
Id(c) == call[c].id

Init ==
  /\ admin \in BOOLEAN /\ elevator \in BOOLEAN /\ counter = 0 /\ sessionAllow = {}
  /\ at = [c \in Callers |-> "idle"]
  /\ call = [c \in Callers |-> NoCall]
  /\ approved = [c \in Callers |-> FALSE] /\ number = [c \in Callers |-> None]
  /\ reported = [c \in Callers |-> FALSE]
  /\ made = 0 /\ files = [n \in Ids |-> None] /\ log = {}
  /\ risky = {} /\ consented = {} /\ started = {} /\ restarted = {} /\ asAdmin = {}

-----------------------------------------------------------------------------
(* Shared by run() and launch(): risk classification and the approval gate.*)

Begin(c) ==
  /\ made < MaxCalls
  /\ Goto(c, "idle", "gate")
  /\ made' = made + 1
  /\ \E k \in Calls :
       /\ k.id = made'
       /\ call' = [call EXCEPT ![c] = k]
       /\ risky' = IF k.cmd \in HighRisk THEN risky \union {made'} ELSE risky
  /\ UNCHANGED <<process, approved, number, reported, disk, consented, started, restarted,
                 asAdmin>>

(* Mutant: launch() is not gated. *)
MutLaunchUngated(c) ==
  /\ Goto(c, "gate", "cwd")
  /\ call[c].cmd \notin HighRisk \/ call[c].how = "launch"
  /\ UNCHANGED <<process, call, approved, number, reported, made, disk, history>>

NeedsNoApproval(c) ==
  /\ Goto(c, "gate", "cwd")
  /\ call[c].cmd \notin HighRisk
  /\ UNCHANGED <<process, call, approved, number, reported, made, disk, history>>

Consent(c, from) ==
  /\ Goto(c, from, "cwd")
  /\ approved' = [approved EXCEPT ![c] = TRUE]
  /\ consented' = consented \union {Id(c)}
  /\ UNCHANGED <<process, call, number, reported, made, disk, risky, started, restarted,
                 asAdmin>>

SessionRule(c) ==
  /\ Consent(c, "gate")
  /\ call[c].cmd \in HighRisk \intersect sessionAllow

AskApprover(c) ==
  /\ Goto(c, "gate", "asking")
  /\ call[c].cmd \in HighRisk \ sessionAllow
  /\ UNCHANGED <<process, call, approved, number, reported, made, disk, history>>

Approve(c) == Consent(c, "asking")

Record(c, kind, elevated) ==
  [id |-> Id(c), kind |-> kind, elevated |-> elevated, approved |-> kind # "blocked" /\ approved[c],
   ref |-> IF kind = "executed" THEN number[c] ELSE None]

Leave(c, from) ==
  /\ Goto(c, from, "idle")
  /\ call' = [call EXCEPT ![c] = NoCall]
  /\ approved' = [approved EXCEPT ![c] = FALSE]
  /\ number' = [number EXCEPT ![c] = None]
  /\ reported' = [reported EXCEPT ![c] = FALSE]

(* audit.record: one line more, or an OSError that run() and launch() do   *)
(* not catch.                                                              *)
Audit(record) == log' \in {log, log \union {record}}

(* _blocked: the approver said no, there is no such directory, or the      *)
(* program to launch could not be started.                                 *)
Blocked(c) ==
  /\ \/ Leave(c, "asking")
     \/ Leave(c, "cwd")
  /\ Audit(Record(c, "blocked", FALSE))
  /\ UNCHANGED <<process, made, files, risky, consented, started, restarted, asAdmin>>

-----------------------------------------------------------------------------
Starts(c, token) ==
  /\ started' = started \union {Id(c)}
  /\ restarted' = IF Id(c) \in started THEN restarted \union {Id(c)} ELSE restarted
  /\ asAdmin' = IF token THEN asAdmin \union {Id(c)} ELSE asAdmin

(* launch(): the program is left to itself.                                *)
Launch(c) ==
  /\ Goto(c, "cwd", "launched")
  /\ call[c].how = "launch"
  /\ Starts(c, admin)
  /\ UNCHANGED <<process, call, approved, number, reported, made, disk, risky, consented>>

RecordLaunched(c) ==
  /\ Leave(c, "launched")
  /\ Audit(Record(c, "launched", FALSE))
  /\ UNCHANGED <<process, made, files, risky, consented, started, restarted, asAdmin>>

-----------------------------------------------------------------------------
(* run(): the number, then an elevated or an inline execution.             *)

(* Mutant: the number is not counted until the run is over. *)
MutNumberNotCounted(c) ==
  /\ Goto(c, "cwd", "spawn")
  /\ call[c].how = "run"
  /\ number' = [number EXCEPT ![c] = counter + 1]
  /\ UNCHANGED <<process, call, approved, reported, made, disk, history>>

TakeNumber(c) ==
  /\ Goto(c, "cwd", "spawn")
  /\ call[c].how = "run"
  /\ counter' = counter + 1
  /\ number' = [number EXCEPT ![c] = counter']
  /\ UNCHANGED <<admin, elevator, sessionAllow, call, approved, reported, made, disk, history>>

UsesElevator(c) == call[c].elevated /\ ~admin /\ elevator

(* The wrapper is started with the administrator's token and waited for,   *)
(* to its end or its timeout; its output goes to the files.                *)
RunElevated(c) ==
  /\ Goto(c, "spawn", "finish")
  /\ UsesElevator(c)
  /\ files' = [files EXCEPT ![number[c]] = Id(c)]
  /\ Starts(c, TRUE)
  /\ reported' = [reported EXCEPT ![c] = TRUE]
  /\ UNCHANGED <<process, call, approved, number, made, log, risky, consented>>

(* Mutant: an elevated run that timed out falls back too. *)
MutTimeoutFallsBack(c) ==
  /\ Goto(c, "spawn", "inline")
  /\ UsesElevator(c)
  /\ files' = [files EXCEPT ![number[c]] = Id(c)]
  /\ Starts(c, TRUE)
  /\ UNCHANGED <<process, call, approved, number, reported, made, log, risky, consented>>

(* The UAC prompt was declined or failed: the files are there, empty.      *)
ElevationFails(c) ==
  /\ Goto(c, "spawn", "inline")
  /\ UsesElevator(c)
  /\ files' = [files EXCEPT ![number[c]] = Id(c)]
  /\ UNCHANGED <<process, call, approved, number, reported, made, log, history>>

Inline(c, from, elevated) ==
  /\ Goto(c, from, "write")
  /\ Starts(c, admin) \/ UNCHANGED <<started, restarted, asAdmin>>  \* or an OSError
  /\ reported' = [reported EXCEPT ![c] = elevated]
  /\ UNCHANGED <<process, call, approved, number, made, disk, risky, consented>>

RunInline(c) ==
  /\ at[c] = "spawn" /\ ~UsesElevator(c)
  /\ Inline(c, "spawn", call[c].elevated /\ admin)

(* Mutant: the fallback reports what was asked for. *)
MutFallBackOverstates(c) == Inline(c, "inline", TRUE)

FallBackInline(c) == Inline(c, "inline", FALSE)

WriteOutput(c) ==
  /\ Goto(c, "write", "finish")
  /\ files' = [files EXCEPT ![number[c]] = Id(c)]
  /\ UNCHANGED <<process, call, approved, number, reported, made, log, history>>

(* Files that cannot be made, written or decoded: run() raises.            *)
Raise(c) ==
  /\ \/ Leave(c, "spawn")
     \/ Leave(c, "write")
     \/ Leave(c, "finish") /\ UsesElevator(c)
  /\ UNCHANGED <<process, made, disk, risky, consented, started, restarted, asAdmin>>

RecordExecuted(c) ==
  /\ Leave(c, "finish")
  /\ Audit(Record(c, "executed", reported[c]))
  /\ UNCHANGED <<process, made, files, risky, consented, started, restarted, asAdmin>>

-----------------------------------------------------------------------------
AllowForSession(command) ==
  /\ sessionAllow' = sessionAllow \union {command}
  /\ UNCHANGED <<admin, elevator, counter, frame, made, disk, history>>

(* The process ends and another is started on the same session directory,  *)
(* with a token of its own.                                                *)
Restart ==
  /\ admin' \in BOOLEAN /\ elevator' \in BOOLEAN /\ counter' = 0 /\ sessionAllow' = {}
  /\ at' = [c \in Callers |-> "idle"] /\ call' = [c \in Callers |-> NoCall]
  /\ approved' = [c \in Callers |-> FALSE] /\ number' = [c \in Callers |-> None]
  /\ reported' = [c \in Callers |-> FALSE]
  /\ UNCHANGED <<made, disk, history>>

Next ==
  \/ \E c \in Callers :
       \/ Begin(c) \/ NeedsNoApproval(c) \/ SessionRule(c) \/ AskApprover(c) \/ Approve(c)
       \/ Blocked(c) \/ Launch(c) \/ RecordLaunched(c) \/ TakeNumber(c)
       \/ RunElevated(c) \/ ElevationFails(c) \/ RunInline(c) \/ FallBackInline(c)
       \/ WriteOutput(c) \/ Raise(c) \/ RecordExecuted(c)
  \/ \E command \in Commands : AllowForSession(command)
  \/ Restart

Spec == Init /\ [][Next]_vars

-----------------------------------------------------------------------------
Places == {"idle", "gate", "asking", "cwd", "launched", "spawn", "inline", "write", "finish"}
LogRecords == [id : Ids, kind : {"blocked", "launched", "executed"}, elevated : BOOLEAN,
               approved : BOOLEAN, ref : Nat]

TypeOK ==
  /\ admin \in BOOLEAN /\ elevator \in BOOLEAN /\ counter \in Nat
  /\ sessionAllow \subseteq Commands
  /\ at \in [Callers -> Places] /\ call \in [Callers -> Calls \union {NoCall}]
  /\ approved \in [Callers -> BOOLEAN] /\ number \in [Callers -> Nat]
  /\ reported \in [Callers -> BOOLEAN]
  /\ made \in 0..MaxCalls /\ files \in [Ids -> Ids \union {None}] /\ log \subseteq LogRecords
  /\ risky \subseteq Ids /\ consented \subseteq Ids /\ started \subseteq Ids
  /\ restarted \subseteq Ids /\ asAdmin \subseteq Ids

(* No high-risk command starts, on any path, elevated or launched, without *)
(* the consent of the approver or of a session rule for that command.      *)
GatedStart == risky \intersect started \subseteq consented

(* The fallback from a failed elevation never runs a command a second time.*)
StartsOnce == restarted = {}

(* The log never overstates: of a command that ran, a record says          *)
(* "elevated" only if it had the administrator's token, "blocked" only of one that never    *)
(* started, "approved" only of one that was consented to, and no call has  *)
(* two records.                                                            *)
HonestLog ==
  /\ \A e \in log :
       /\ e.elevated /\ e.id \in started => e.id \in asAdmin
       /\ e.kind = "blocked" => e.id \notin started
       /\ e.approved => e.id \in consented
  /\ \A e, f \in log : e.id = f.id => e = f

(* Runs that overlap keep their outputs apart.                             *)
InRun(c) == at[c] \in {"spawn", "inline", "write", "finish"}
OwnFiles == \A b, c \in Callers : b # c /\ InRun(b) /\ InRun(c) => number[b] # number[c]

(* The inductive invariant.  Every call in progress has an id of its own,  *)
(* the log has nothing of it yet, and its command has started only if its  *)
(* caller is past that point; what the locals claim is already true.       *)
Active(c) == at[c] # "idle"
OwnCalls ==
  /\ \A c \in Callers : Active(c) <=> call[c] # NoCall
  /\ \A c \in Callers : Active(c) => Id(c) <= made
  /\ \A b, c \in Callers : b # c /\ Active(b) /\ Active(c) => Id(b) # Id(c)
NothingAhead ==
  /\ \A i \in started \union risky : i <= made
  /\ \A e \in log : e.id <= made
  /\ \A c \in Callers, e \in log : Active(c) => e.id # Id(c)
  /\ \A c \in Callers :
       at[c] \in {"gate", "asking", "cwd", "spawn", "inline"} => Id(c) \notin started
Gated ==
  \A c \in Callers :
    /\ Active(c) /\ Id(c) \in risky => call[c].cmd \in HighRisk
    /\ at[c] \in Places \ {"idle", "gate", "asking"} /\ call[c].cmd \in HighRisk
         => Id(c) \in consented
Claims ==
  \A c \in Callers :
    /\ approved[c] => Active(c) /\ Id(c) \in consented
    /\ reported[c] => at[c] \in {"write", "finish"}
                      /\ (Id(c) \in started => Id(c) \in asAdmin)
Numbered == \A c \in Callers : InRun(c) => number[c] <= counter
BrokerInv ==
  /\ TypeOK /\ OwnCalls /\ NothingAhead /\ Gated /\ Claims /\ Numbered
  /\ GatedStart /\ StartsOnce /\ HonestLog /\ OwnFiles

=============================================================================
