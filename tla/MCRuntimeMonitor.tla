-------------------------- MODULE MCRuntimeMonitor --------------------------
(* Two tasks, one after the other.                                         *)
EXTENDS RuntimeMonitor
CONSTANTS data, model
MCPlan == <<data, model>>
=============================================================================
