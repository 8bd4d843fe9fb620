SPECIFICATION Spec
CONSTANTS
    Planners = {p1, p2}
    Views <- MCViews
    Elements = {"a", "c"}
    Sparse = 2
    MaxVision = 1
    MaxRuns = 3
    Nothing = Nothing
SYMMETRY Same
INVARIANTS VisionBounded AnswerIsOwn
CHECK_DEADLOCK FALSE
