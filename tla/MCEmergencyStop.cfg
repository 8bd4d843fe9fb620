SPECIFICATION FairSpec
CONSTANTS
  window = window
  mcp = mcp
  tkThread = tkThread
  worker = worker
  mcpThread = mcpThread
  Procs = {window, mcp}
  Threads = {tkThread, worker, mcpThread}
  Controllers = {tkThread, mcpThread}
  ProcOf <- MCProcOf
INVARIANTS
  StopIsHeeded
PROPERTIES
  ParkedOnlyByPause
CHECK_DEADLOCK FALSE
