------------------------ MODULE MCBackgroundProcesses ------------------------
(* BackgroundProcesses for TLC.                                             *)
EXTENDS BackgroundProcesses

CONSTANTS a1, a2, p1

===============================================================================
