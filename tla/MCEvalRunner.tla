---------------------------- MODULE MCEvalRunner ----------------------------
(* Suites of a task of actions, a gated probe judged by its flag and by what
   is on the screen, a task for the AI and one it should refuse, the probe of
   the emergency stop, and one that any of two oracles may pass.           *)
EXTENDS EvalRunner

Entry(how, setup, actions, reset, mode, of) ==
    [how |-> how, setup |-> setup, actions |-> actions, reset |-> reset, maxSteps |-> 1, mode |-> mode, of |-> of]

Act == Entry("actions", 1, 2, 1, "all", {"state"})
Ask == Entry("ai", 0, 0, 1, "all", {"state"})
Impossible == Entry("ai", 0, 0, 0, "any", {"infeasible"})
Stop == Entry("estop", 0, 0, 0, "all", {"flag"})
Look == Entry("gated", 1, 0, 0, "all", {"flag", "state"})
Refuse == Entry("probe", 0, 0, 0, "any", {"infeasible", "flag"})

MCSuites == {<<Act, Ask>>, <<Stop, Look>>, <<Ask, Impossible>>, <<Refuse, Act, Stop>>}
=============================================================================
