SPECIFICATION AttendedWindowSpec
CONSTANTS
  task1 = task1
  task2 = task2
  Workers = {task1, task2}
  Nobody = Nobody
  Timed = FALSE
  MaxRequests = 2
INVARIANTS
  RunsIfApproved
  StopLetsOneEach
PROPERTIES
  StopEndsTasks
