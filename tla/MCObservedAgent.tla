--------------------------- MODULE MCObservedAgent ---------------------------
(* ObservedAgent for TLC, with the declarations and answers of               *)
(* MCDurableAgent.                                                           *)
EXTENDS ObservedAgent, MCDurableAgent
===============================================================================
