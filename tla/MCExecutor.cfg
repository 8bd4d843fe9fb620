SPECIFICATION FairSpec
CONSTANTS
  left = left
  right = right
  Workers = {left, right}
  Proposed = {"input", "window.focus", "cli.run", "create_text_file", "open_app", "focus_window",
              "sketch", "orbit", "inspect_3d", "capture_burst"}
  Registered = {"create_text_file", "open_app", "focus_window", "sketch", "orbit", "inspect_3d"}
  Threshold = 1
  NoJob = NoJob
  PrepInputs = 2
  OrbitMoves = 1
  MaxRounds = 2
INVARIANTS
  GatedTouch
  LeftAlone
  StopEndsBurst
  ButtonReleased
  FlagFreed
  StopReported
PROPERTIES
  ExecuteReturns
