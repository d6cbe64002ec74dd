--------------------------- MODULE MCToolExecution ---------------------------
(* ToolExecution for TLC: one process beside the shell, one call.           *)
EXTENDS ToolExecution

CONSTANTS p1, k1

===============================================================================
