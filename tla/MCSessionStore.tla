---------------------------- MODULE MCSessionStore ----------------------------
(* Small instances of SessionStore for TLC.                                  *)
EXTENDS SessionStore, TLC

CONSTANTS t1, t2, t3, h1, h2

(* The second transaction has two facts: lines and facts count differently. *)
OneOrTwoFacts == [t \in Txn |-> IF t = t2 THEN 2 ELSE 1]

(* The handles are alike, and so are the transactions of one fact.          *)
Alike == Permutations(Handle) \cup Permutations({t1, t3})
===============================================================================
