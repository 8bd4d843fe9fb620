SPECIFICATION Spec
CONSTANTS
    Suites <- MCSuites
    Trials = 2
    Total = 2
    MaxActions = 2
    MaxReasks = 1
    MaxReplans = 1
INVARIANTS TypeOK ScoresAgree PassIsEarned AiCallsBounded StopEndsSuite
