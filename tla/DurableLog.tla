------------------------------ MODULE DurableLog ------------------------------
(***************************************************************************)
(* What docs/session-design.md:569 promises of a session file: it is a log *)
(* of whole transactions that only grows, and once an append has resolved  *)
(* its transaction stays in the log.  A process that dies after it handed  *)
(* over the whole line leaves a transaction nobody was told of.  A caller  *)
(* that appends behind a line it could not write whole damages the log:    *)
(* what a reader finds from then on is open.                               *)
(***************************************************************************)
EXTENDS Sequences

CONSTANT Txn      (* the transactions callers append                       *)

VARIABLES
  log,            (* the transactions a reader of the file finds           *)
  accepted,       (* the log as of the last append that resolved           *)
  damaged

Init == log = << >> /\ accepted = << >> /\ damaged = FALSE

Accept(t) == log' = Append(log, t) /\ accepted' = log' /\ UNCHANGED damaged

Leave(t) == log' = Append(log, t) /\ UNCHANGED <<accepted, damaged>>

Damage == damaged' = TRUE

Next == Damage \/ \E t \in Txn : Accept(t) \/ Leave(t)

Spec == Init /\ [][Next]_<<log, accepted, damaged>>

===============================================================================
