SPECIFICATION FairSpec
CONSTANTS
  task1 = task1
  task2 = task2
  Workers = {task1, task2}
  Nobody = Nobody
  Timed = TRUE
  MaxRequests = 3
INVARIANTS
  OneOpenRequest
  DenyByDefault
PROPERTIES
  ClickReleases
CHECK_DEADLOCK FALSE
