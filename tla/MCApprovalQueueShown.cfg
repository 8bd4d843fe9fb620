SPECIFICATION Spec
CONSTANTS
  task1 = task1
  task2 = task2
  Workers = {task1, task2}
  Nobody = Nobody
  Timed = FALSE
  MaxRequests = 4
INVARIANT
  ApprovedAsShown
CHECK_DEADLOCK FALSE
