---------------------------- MODULE TaskContract ----------------------------
(***************************************************************************)
(* What a task's report promises its reader, whatever planner, desktop and *)
(* clock do: the steps before the last one all succeeded, a failed step is *)
(* the last one, the verdict fits the steps, "halted" is said only of a    *)
(* stop that was in force, "out of time" only of time that had run out,    *)
(* and nothing is added once the verdict is given.                         *)
(***************************************************************************)
EXTENDS Naturals

CONSTANT MaxActions

VARIABLES
  stopped,   \* the emergency stop is in force
  expired,   \* the task's wall-clock limit has been reached
  good,      \* steps that succeeded
  bad,       \* steps that failed
  verdict    \* how the task ended

vars == <<stopped, expired, good, bad, verdict>>

Running == verdict = "none"

Init ==
  /\ stopped \in BOOLEAN /\ expired = FALSE
  /\ good = 0 /\ bad = 0 /\ verdict = "none"

Environment ==
  /\ stopped' \in BOOLEAN
  /\ expired' \in BOOLEAN /\ (expired => expired')
  /\ UNCHANGED <<good, bad, verdict>>

StepSucceeds ==
  /\ Running /\ good < MaxActions
  /\ good' = good + 1
  /\ UNCHANGED <<stopped, expired, bad, verdict>>

EndsAfterSuccess ==
  /\ Running
  /\ \/ verdict' \in {"completed", "plannerFailed", "stalled"}
     \/ verdict' = "halted" /\ stopped
     \/ verdict' = "timeLimit" /\ expired
     \/ verdict' = "maxActions" /\ good = MaxActions
  /\ UNCHANGED <<stopped, expired, good, bad>>

EndsOnFailedStep ==
  /\ Running /\ good < MaxActions
  /\ bad' = 1
  /\ \/ verdict' = "stepFailed"
     \/ verdict' = "timeLimit" /\ expired
  /\ UNCHANGED <<stopped, expired, good>>

Next == Environment \/ StepSucceeds \/ EndsAfterSuccess \/ EndsOnFailedStep

Spec == Init /\ [][Next]_vars
=============================================================================
