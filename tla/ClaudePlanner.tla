---------------------------- MODULE ClaudePlanner ----------------------------
(***************************************************************************)
(* ClaudeCliPlanner of loop/claude_cli_planner.py: next_step and replan,   *)
(* called by the threads of several tasks.  Each call writes a prompt      *)
(* file, runs the claude program through the broker that the planners of   *)
(* one process share, reads the answer back from the broker's numbered     *)
(* output file, and makes a step of it or tells why there is none.         *)
(*                                                                         *)
(* Claude, the elements on the screen and the brokers of other processes,  *)
(* which number their files in the same directory from 1 as well, are the  *)
(* environment.                                                            *)
(***************************************************************************)
EXTENDS Naturals, Sequences

CONSTANTS
    Planners,    \* the planners of the tasks of this process
    Views,       \* the element lists an observation may have, as their ids
    Elements,    \* the ids Claude may name, some on no list
    Sparse,      \* vision_threshold
    MaxVision,   \* max_vision_steps
    MaxRuns,     \* bound: runs of claude by all the planners
    Nothing      \* no answer, no step

(* An answer as _plan sees it: nothing usable (no JSON object, an error, no
   action, or one that the schema refuses), the end, an action whose "type" is
   a list, a good action that needs no place or brings its own, or a click on
   an element.                                                              *)
Answers ==
    [says : {"garbage", "done", "infeasible", "list", "plain"}, id : {"none"}]
    \cup [says : {"element"}, id : Elements]

Garbage == [says |-> "garbage", id |-> "none"]
Steps == [what : {"plain", "element"}, id : Elements \cup {"none"}]

ASSUME PlannerAssumption ==
    /\ Sparse \in Nat /\ MaxVision \in Nat /\ MaxRuns \in Nat
    /\ Views \subseteq Seq(Elements)
    /\ Nothing \notin Answers \cup Steps

VARIABLES
    pc,          \* where each planner's call is
    view,        \* the observation it was given
    used,        \* vision_steps_used
    picture,     \* _vision_active
    number,      \* the number of its run of claude
    answer,      \* what it read back
    outcome,     \* last_outcome
    infeasible,  \* last_infeasible
    step,        \* what the call returned
    counter,     \* _counter of the broker
    stdout,      \* what the numbered files hold
    pictures,    \* history: runs of claude that could look at a picture
    said,        \* history: what Claude said to the question of the call
    foreign      \* history: another process wrote the file of the call

asking == <<view, used, picture>>
told == <<outcome, infeasible, step>>
files == <<counter, stdout>>
history == <<pictures, said, foreign>>
vars == <<pc, asking, number, answer, told, files, history>>

Numbers == 1 .. MaxRuns
Empty == Garbage
At(p, from, to) == pc[p] = from /\ pc' = [pc EXCEPT ![p] = to]

Init ==
    /\ pc = [p \in Planners |-> "idle"]
    /\ view = [p \in Planners |-> <<>>]
    /\ used = [p \in Planners |-> 0] /\ picture = [p \in Planners |-> FALSE]
    /\ number = [p \in Planners |-> 0] /\ answer = [p \in Planners |-> Nothing]
    /\ outcome = [p \in Planners |-> "done"] /\ infeasible = [p \in Planners |-> FALSE]
    /\ step = [p \in Planners |-> Nothing]
    /\ counter = 0 /\ stdout = [n \in Numbers |-> Empty]
    /\ pictures = [p \in Planners |-> 0] /\ said = [p \in Planners |-> Nothing]
    /\ foreign = [p \in Planners |-> FALSE]

-----------------------------------------------------------------------------
(* The question.  A picture goes with it when the list of elements is short
   or the last action drew, if there is one and the task may have another. *)

(* Mutant: what was drawn is looked at whatever it costs. *)
MutVisionPath(p, v, shot, drew) == shot /\ (drew \/ (used[p] < MaxVision /\ Len(v) < Sparse))
VisionPath(p, v, shot, drew) == used[p] < MaxVision /\ shot /\ (drew \/ Len(v) < Sparse)

Ask(p, v, shot, drew) ==
    /\ At(p, "idle", "ask")
    /\ view' = [view EXCEPT ![p] = v]
    /\ picture' = [picture EXCEPT ![p] = VisionPath(p, v, shot, drew)]
    /\ used' = [used EXCEPT ![p] = IF VisionPath(p, v, shot, drew) THEN @ + 1 ELSE @]
    /\ UNCHANGED <<number, answer, told, files, history>>

(* The prompt file cannot be made, the broker blocks the run or raises, or
   the answer cannot be decoded: no answer, and the loop is told so.       *)
Fails(p) ==
    /\ \E from \in {"ask", "run", "read"} : At(p, from, "back")
    /\ outcome' = [outcome EXCEPT ![p] = "error"]
    /\ stdout' = [n \in Numbers |-> IF n = number[p] THEN Empty ELSE stdout[n]]
    /\ UNCHANGED <<asking, number, answer, infeasible, step, counter, history>>

Start(p) ==
    /\ At(p, "ask", "run") /\ counter < MaxRuns
    /\ counter' = counter + 1 /\ number' = [number EXCEPT ![p] = counter']
    /\ pictures' = [pictures EXCEPT ![p] = IF picture[p] THEN @ + 1 ELSE @]
    /\ UNCHANGED <<asking, answer, told, stdout, said, foreign>>

Answered(p, a) ==
    /\ At(p, "run", "read")
    /\ said' = [said EXCEPT ![p] = a]
    /\ stdout' = [stdout EXCEPT ![number[p]] = a]
    /\ UNCHANGED <<asking, number, answer, told, counter, pictures, foreign>>

(* Mutant: the newest of the files is read. *)
MutRef(p) == counter
Ref(p) == number[p]
Tails(a) == {a, Garbage}

(* The call's own file, or when it cannot be opened the tail that the run
   returned, which of a long answer is no longer an answer.  What is in the
   file from then on is not followed: no call reads it again.              *)
Read(p, a) ==
    /\ At(p, "read", "parse")
    /\ answer' = [answer EXCEPT ![p] = a]
    /\ stdout' = [stdout EXCEPT ![number[p]] = Empty]
    /\ UNCHANGED <<asking, number, told, counter, pictures>>

ReadStdout(p) ==
    /\ pc[p] = "read" /\ \E a \in {stdout[Ref(p)]} \cup Tails(said[p]) : Read(p, a)
    /\ UNCHANGED <<said, foreign>>

(* A broker of another process has taken the same number and written since. *)
ReadForeign(p, a) ==
    /\ Read(p, a)
    /\ said' = [said EXCEPT ![p] = Nothing] /\ foreign' = [foreign EXCEPT ![p] = TRUE]

-----------------------------------------------------------------------------
(* _plan: what becomes of the answer. *)

(* _resolve_element finds the id on the list of this question. *)
Resolve(v, id) == \E i \in DOMAIN v : v[i] = id

Tell(p, o, inf, s) ==
    /\ At(p, "parse", "back")
    /\ outcome' = [outcome EXCEPT ![p] = o]
    /\ infeasible' = [infeasible EXCEPT ![p] = inf]
    /\ step' = [step EXCEPT ![p] = s]
    /\ answer' = [answer EXCEPT ![p] = Nothing]
    /\ UNCHANGED <<asking, number, files, history>>

Done(p) ==
    /\ answer[p].says \in {"done", "infeasible"}
    /\ Tell(p, "done", answer[p].says = "infeasible", Nothing)

Invalid(p) ==
    /\ \/ answer[p] = Garbage
       \/ answer[p].says = "element" /\ ~Resolve(view[p], answer[p].id)
    /\ Tell(p, "invalid", infeasible[p], Nothing)

Plain(p) ==
    /\ answer[p].says = "plain"
    /\ Tell(p, "step", infeasible[p], [what |-> "plain", id |-> "none"])

OnElement(p) ==
    /\ answer[p].says = "element" /\ Resolve(view[p], answer[p].id)
    /\ Tell(p, "step", infeasible[p], [what |-> "element", id |-> answer[p].id])

(* A list cannot be looked up: the error leaves the planner with what it said
   of an earlier call, and ends the task.                                   *)
Raise(p) ==
    /\ At(p, "parse", "raised") /\ answer[p].says = "list"
    /\ answer' = [answer EXCEPT ![p] = Nothing]
    /\ UNCHANGED <<asking, number, told, files, history>>

(* The loop takes what it was told, and may call again. *)
Return(p) ==
    /\ At(p, "back", "idle")
    /\ view' = [view EXCEPT ![p] = <<>>] /\ picture' = [picture EXCEPT ![p] = FALSE]
    /\ number' = [number EXCEPT ![p] = 0]
    /\ said' = [said EXCEPT ![p] = Nothing] /\ foreign' = [foreign EXCEPT ![p] = FALSE]
    /\ step' = [step EXCEPT ![p] = Nothing]
    /\ UNCHANGED <<used, answer, outcome, infeasible, files, pictures>>

Plan(p) == pc[p] = "parse" /\ (Done(p) \/ Invalid(p) \/ Plain(p) \/ OnElement(p) \/ Raise(p))

Next ==
    \E p \in Planners :
        \/ \E v \in Views, shot, drew \in BOOLEAN : Ask(p, v, shot, drew)
        \/ Fails(p) \/ Start(p) \/ ReadStdout(p) \/ Plan(p) \/ Return(p)
        \/ \E a \in Answers : Answered(p, a) \/ ReadForeign(p, a)

Spec == Init /\ [][Next]_vars

-----------------------------------------------------------------------------
(* What a planner keeps has its type. *)
TypeOK ==
    /\ pc \in [Planners -> {"idle", "ask", "run", "read", "parse", "back", "raised"}]
    /\ view \in [Planners -> Views \cup {<<>>}]
    /\ used \in [Planners -> Nat] /\ picture \in [Planners -> BOOLEAN]
    /\ number \in [Planners -> {0} \cup Numbers] /\ answer \in [Planners -> Answers \cup {Nothing}]
    /\ outcome \in [Planners -> {"done", "error", "invalid", "step"}]
    /\ infeasible \in [Planners -> BOOLEAN] /\ step \in [Planners -> Steps \cup {Nothing}]
    /\ counter \in {0} \cup Numbers /\ stdout \in [Numbers -> Answers]
    /\ pictures \in [Planners -> Nat] /\ said \in [Planners -> Answers \cup {Nothing}]
    /\ foreign \in [Planners -> BOOLEAN]

(* A task sends claude to look at no more pictures than it may, however often
   it is asked again, fails or has just drawn (vision_steps_used).           *)
VisionBounded == \A p \in Planners : pictures[p] <= MaxVision

(* The loop takes a task for done, or for refused, or does a step only when
   Claude said so to the question of this call: not by what is left of an
   earlier call, nor by the answer to another task.  Another process that
   writes over the numbered file is the exception.                           *)
AnswerIsOwn ==
    \A p \in Planners :
        pc[p] = "back" /\ ~foreign[p] =>
            /\ (outcome[p] = "done" => said[p] # Nothing /\
                   said[p].says = IF infeasible[p] THEN "infeasible" ELSE "done")
            /\ (outcome[p] = "step" => step[p].what = said[p].says /\ step[p].id = said[p].id)
            /\ (outcome[p] = "step" <=> step[p] # Nothing)

(* The inductive invariant.  A picture is counted before it is sent; the file
   of a run in progress is no other planner's, and holds what Claude said to
   it; and what is read back is that or nothing usable.                      *)
VisionCounted ==
    \A p \in Planners :
        /\ used[p] <= MaxVision /\ pictures[p] <= used[p]
        /\ (pc[p] = "ask" /\ picture[p] => pictures[p] < used[p])
OwnNumber ==
    \A p \in Planners :
        /\ number[p] <= counter
        /\ (pc[p] \in {"run", "read"} => number[p] # 0)
        /\ \A q \in Planners \ {p} : number[p] # 0 => number[p] # number[q]
OwnOutput ==
    \A p \in Planners :
        /\ (pc[p] = "read" => said[p] \in Answers /\ stdout[number[p]] = said[p])
        /\ (pc[p] = "parse" => answer[p] \in Answers)
        /\ (pc[p] = "parse" /\ ~foreign[p] => said[p] \in Answers /\ answer[p] \in Tails(said[p]))
NoStepYet == \A p \in Planners : pc[p] # "back" => step[p] = Nothing
PlannerInv ==
    /\ TypeOK /\ VisionCounted /\ OwnNumber /\ OwnOutput /\ NoStepYet /\ AnswerIsOwn
=============================================================================
