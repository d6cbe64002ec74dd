---------------------------- MODULE MCReducerLog ----------------------------
(* ReducerLog for TLC.  Identities are compared for equality only, so logs  *)
(* that use them in another order differ by a renaming.                     *)
EXTENDS ReducerLog

CONSTANTS MaxId, read, c1, c2

Ids == 1..MaxId

(* What an answer may call.  The reducer does not look at the arguments.    *)
ACall(id) == [id |-> id, name |-> read, args |-> "object"]
OneCall == {<< >>, <<ACall(c1)>>}
TwoCalls == {<< >>, <<ACall(c1)>>, <<ACall(c1), ACall(c2)>>, <<ACall(c1), ACall(c1)>>}

Least(S) == {i \in S : \A j \in S : i <= j}

(* Bound: only logs of one run with one prompt, without usage facts.        *)
OneRun ==
  /\ s.usage = 0
  /\ Cardinality({i \in Id : s.operations[i] # None}) <= 1
  /\ \A i \in Id : s.operations[i] # None => s.operations[i].kind = "run"
  /\ Cardinality({i \in Id : s.entries[i] # None
                              /\ s.entries[i].type = "user"}) <= 1

(* Bound: any log of seven identities, and longer ones of one run.          *)
Small == Cardinality({i \in Id : s.use[i] # "free"}) <= 7 \/ OneRun

=============================================================================
