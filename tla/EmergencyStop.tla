---------------------------- MODULE EmergencyStop ----------------------------
(***************************************************************************)
(* The halt channel of safety/emergency_stop.py: an in-process flag per    *)
(* EmergencyStop object and one sentinel file that every process shares.   *)
(* The object of a process is called by all of its threads without a lock, *)
(* so each call is split where another thread can run: after an Event is   *)
(* set or cleared, and around each look at the file.                       *)
(***************************************************************************)
EXTENDS Integers

CONSTANTS
  Procs,        \* processes, each with one EmergencyStop on the same file
  Threads,      \* threads that call it
  ProcOf,       \* the process of each thread
  Controllers   \* threads that stop, clear, pause and resume (UI, CLI, MCP)

ASSUME EmergencyStopAssumption ==
  /\ ProcOf \in [Threads -> Procs]
  /\ Controllers \subseteq Threads

VARIABLES
  stopped,      \* _stopped, by process
  paused,       \* _paused, by process
  sentinel,     \* does the estop file exist
  pc,           \* where each thread is inside a call
  checking,     \* threads whose is_stopped() runs inside check()
  passed,       \* threads whose last query or check said "carry on"
  standing,     \* history: processes a stop() has taken effect in, no clear() since
  durable,      \* history: that stop() also wrote the file
  undisturbed,  \* history: running stop() calls no clear() has overlapped
  bound         \* history: threads whose last is_stopped() began under a standing stop

estopVars == <<stopped, paused, sentinel>>
historyVars == <<standing, durable, undisturbed, bound>>
vars == <<estopVars, pc, checking, passed, historyVars>>

Idle(t) == pc[t] = "idle"
Goto(t, label) == pc' = [pc EXCEPT ![t] = label]
Clearing == \E t \in Threads : pc[t] \in {"unpause", "unlink"}

Init ==
  /\ stopped = [p \in Procs |-> FALSE]
  /\ paused = [p \in Procs |-> FALSE]
  /\ sentinel \in BOOLEAN              \* a file may be left from an earlier run
  /\ pc = [t \in Threads |-> "idle"]
  /\ checking = {} /\ passed = {}
  /\ standing = {} /\ durable = FALSE /\ undisturbed = {} /\ bound = {}

-----------------------------------------------------------------------------
(* stop(): the flag first, then the file, whose OSError is swallowed.      *)

(* Mutant: a stop is left to the file. *)
MutStopNoFlag(t) ==
  /\ t \in Controllers /\ Idle(t)
  /\ Goto(t, "write")
  /\ standing' = IF Clearing THEN standing ELSE standing \union {ProcOf[t]}
  /\ undisturbed' = IF Clearing THEN undisturbed ELSE undisturbed \union {t}
  /\ UNCHANGED <<estopVars, checking, passed, durable, bound>>

StopFlag(t) ==
  /\ t \in Controllers /\ Idle(t)
  /\ stopped' = [stopped EXCEPT ![ProcOf[t]] = TRUE]
  /\ Goto(t, "write")
  /\ standing' = IF Clearing THEN standing ELSE standing \union {ProcOf[t]}
  /\ undisturbed' = IF Clearing THEN undisturbed ELSE undisturbed \union {t}
  /\ UNCHANGED <<paused, sentinel, checking, passed, durable, bound>>

StopFile(t) ==
  /\ pc[t] = "write"
  /\ \E written \in BOOLEAN :
       LET holds == written /\ t \in undisturbed
       IN  /\ sentinel' = (sentinel \/ written)
           /\ standing' = IF holds THEN Procs ELSE standing
           /\ durable' = (durable \/ holds)
  /\ undisturbed' = undisturbed \ {t}
  /\ Goto(t, "idle")
  /\ UNCHANGED <<stopped, paused, checking, passed, bound>>

(* clear(): the two flags, then the file, whose OSError is swallowed.      *)

ClearStopped(t) ==
  /\ t \in Controllers /\ Idle(t)
  /\ stopped' = [stopped EXCEPT ![ProcOf[t]] = FALSE]
  /\ Goto(t, "unpause")
  /\ standing' = {} /\ durable' = FALSE /\ undisturbed' = {} /\ bound' = {}
  /\ UNCHANGED <<paused, sentinel, checking, passed>>

ClearPaused(t) ==
  /\ pc[t] = "unpause"
  /\ paused' = [paused EXCEPT ![ProcOf[t]] = FALSE]
  /\ Goto(t, "unlink")
  /\ UNCHANGED <<stopped, sentinel, checking, passed, historyVars>>

ClearFile(t) ==
  /\ pc[t] = "unlink"
  /\ sentinel' \in {FALSE, sentinel}
  /\ Goto(t, "idle")
  /\ UNCHANGED <<stopped, paused, checking, passed, historyVars>>

Pause(t) ==
  /\ t \in Controllers /\ Idle(t)
  /\ paused' = [paused EXCEPT ![ProcOf[t]] = TRUE]
  /\ UNCHANGED <<stopped, sentinel, pc, checking, passed, historyVars>>

Resume(t) ==
  /\ t \in Controllers /\ Idle(t)
  /\ paused' = [paused EXCEPT ![ProcOf[t]] = FALSE]
  /\ UNCHANGED <<stopped, sentinel, pc, checking, passed, historyVars>>

-----------------------------------------------------------------------------
(* is_stopped(): the flag, then the file, then the latch.  check() calls   *)
(* it once, and again on each turn of its pause loop.                      *)

ReadFlag(t) ==
  /\ bound' = IF ProcOf[t] \in standing THEN bound \union {t} ELSE bound \ {t}
  /\ Goto(t, IF stopped[ProcOf[t]] THEN "idle" ELSE "probe")
  /\ UNCHANGED <<estopVars, standing, durable, undisturbed>>

IsStopped(t) ==
  /\ Idle(t)
  /\ ReadFlag(t)
  /\ checking' = checking \ {t}
  /\ passed' = passed \ {t}

Check(t) ==
  /\ Idle(t)
  /\ ReadFlag(t)
  /\ checking' = checking \union {t}
  /\ passed' = passed \ {t}

ProbeFile(t) ==
  /\ pc[t] = "probe"
  /\ Goto(t, CASE sentinel -> "latch"
               [] ~sentinel /\ t \in checking -> "pause"
               [] OTHER -> "idle")
  /\ passed' = IF sentinel \/ t \in checking THEN passed ELSE passed \union {t}
  /\ UNCHANGED <<estopVars, checking, historyVars>>

Latch(t) ==
  /\ pc[t] = "latch"
  /\ stopped' = [stopped EXCEPT ![ProcOf[t]] = TRUE]
  /\ Goto(t, "idle")
  /\ UNCHANGED <<paused, sentinel, checking, passed, historyVars>>

(* Mutant: a paused worker waits for the resume alone. *)
MutPauseDeaf(t) ==
  /\ pc[t] = "pause" /\ paused[ProcOf[t]]
  /\ UNCHANGED vars

PauseLoop(t) ==
  /\ pc[t] = "pause" /\ paused[ProcOf[t]]
  /\ ReadFlag(t)
  /\ UNCHANGED <<checking, passed>>

CheckPasses(t) ==
  /\ pc[t] = "pause" /\ ~paused[ProcOf[t]]
  /\ passed' = passed \union {t}
  /\ Goto(t, "idle")
  /\ UNCHANGED <<estopVars, checking, historyVars>>

(* A process is killed and started again: its object is new, the file is   *)
(* whatever it was.                                                        *)
Restart(p) ==
  LET gone == {t \in Threads : ProcOf[t] = p}
  IN  /\ stopped' = [stopped EXCEPT ![p] = FALSE]
      /\ paused' = [paused EXCEPT ![p] = FALSE]
      /\ pc' = [t \in Threads |-> IF t \in gone THEN "idle" ELSE pc[t]]
      /\ checking' = checking \ gone
      /\ passed' = passed \ gone
      /\ standing' = IF durable THEN standing ELSE standing \ {p}
      /\ undisturbed' = undisturbed \ gone
      /\ bound' = bound \ gone
      /\ UNCHANGED <<sentinel, durable>>

-----------------------------------------------------------------------------
InCall(t) ==
  \/ StopFile(t) \/ ClearPaused(t) \/ ClearFile(t)
  \/ ProbeFile(t) \/ Latch(t) \/ PauseLoop(t) \/ CheckPasses(t)

Next ==
  \/ \E t \in Threads :
       \/ StopFlag(t) \/ ClearStopped(t) \/ Pause(t) \/ Resume(t)
       \/ IsStopped(t) \/ Check(t)
       \/ StopFile(t) \/ ClearPaused(t) \/ ClearFile(t)
       \/ ProbeFile(t) \/ Latch(t) \/ PauseLoop(t) \/ CheckPasses(t)
  \/ \E p \in Procs : Restart(p)

Spec == Init /\ [][Next]_vars

(* The operating system runs a thread that is inside a call.  Nobody has   *)
(* to make a call, and a process need not be restarted.                    *)
FairSpec == Spec /\ \A t \in Threads : WF_vars(InCall(t))

-----------------------------------------------------------------------------
TypeOK ==
  /\ stopped \in [Procs -> BOOLEAN]
  /\ paused \in [Procs -> BOOLEAN]
  /\ sentinel \in BOOLEAN
  /\ pc \in [Threads -> {"idle", "write", "unpause", "unlink", "probe", "latch", "pause"}]
  /\ checking \subseteq Threads /\ passed \subseteq Threads
  /\ standing \subseteq Procs /\ durable \in BOOLEAN
  /\ undisturbed \subseteq Threads /\ bound \subseteq Threads

(* A stop() that no clear() overlapped or followed is obeyed: a check() or *)
(* is_stopped() whose look at the flag came after it never answers "carry  *)
(* on", in its own process and, once the file is written, in every process *)
(* and across a restart.                                                   *)
StopIsHeeded == \A t \in bound : Idle(t) => t \notin passed

(* A call returns once the pause ends for good or a stop stands for good:  *)
(* a stop reaches even a worker parked in check()'s pause loop.            *)
ParkedOnlyByPause ==
  \A t \in Threads :
    (<>[](~paused[ProcOf[t]]) \/ <>[](ProcOf[t] \in standing)) => []<>Idle(t)

(* What holds StopIsHeeded up: a standing stop is visible in the flag or   *)
(* in the file, and a call that began under one meets it on its way.       *)
NothingStandsInClear ==
  Clearing => standing = {} /\ ~durable /\ undisturbed = {} /\ bound = {}
StandingIsVisible == \A p \in standing : stopped[p] \/ sentinel
DurableIsEverywhere == durable => sentinel /\ standing = Procs
AnswerPending == \A t \in Threads : pc[t] \in {"probe", "latch", "pause"} => t \notin passed
BoundMeetsStop ==
  \A t \in bound : /\ ProcOf[t] \in standing
                   /\ t \notin passed
                   /\ pc[t] # "pause"
                   /\ pc[t] = "probe" => sentinel
HeededInv ==
  /\ TypeOK
  /\ NothingStandsInClear /\ StandingIsVisible /\ DurableIsEverywhere
  /\ AnswerPending /\ BoundMeetsStop

=============================================================================
