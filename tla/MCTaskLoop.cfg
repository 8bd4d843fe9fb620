SPECIFICATION FairSpec
CONSTANTS
  click = click
  type = type
  stroke = stroke
  NoAction = NoAction
  Kinds = {click, type, stroke}
  Retryable = {click}
  Draws = {stroke}
  MaxActions = 3
  MaxRetries = 1
  MaxReasks = 1
  StallGuard = TRUE
  StallLimit = 2
INVARIANTS
  UnsafeRunsOnce
  BoundedWork
  OneLateAction
  StopLetsOneThrough
PROPERTIES
  ReportContract
  Termination
