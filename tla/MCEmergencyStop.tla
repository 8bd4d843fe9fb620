--------------------------- MODULE MCEmergencyStop ---------------------------
(* The control window's process, with its Tk thread and one worker, and a  *)
(* second process on the same artifacts: the estop / clear-stop command or *)
(* the MCP server, whose one thread both controls and checks.              *)
EXTENDS EmergencyStop, TLC

CONSTANTS window, mcp, tkThread, worker, mcpThread

MCProcOf == tkThread :> window @@ worker :> window @@ mcpThread :> mcp
=============================================================================
