SPECIFICATION Spec
CONSTANTS
  task1 = task1
  task2 = task2
  list = list
  delete = delete
  Callers = {task1, task2}
  Commands = {list, delete}
  HighRisk = {delete}
  NoCall = NoCall
  MaxCalls = 2
SYMMETRY Symmetry
INVARIANTS
  GatedStart
  StartsOnce
  HonestLog
  OwnFiles
CHECK_DEADLOCK FALSE
