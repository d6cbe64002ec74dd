--------------------------- MODULE SessionProtocol ---------------------------
(***************************************************************************)
(* What a session file promises to whoever reads it, whatever wrote it:    *)
(* one operation at a time, each begun once and ended once; one attempt of *)
(* it open at a time, a new step only when the last one is closed and its  *)
(* started tools are answered; and an aborted operation ends with nothing  *)
(* open.  Of messages, calls, contexts and usage nothing is said.          *)
(***************************************************************************)
CONSTANTS Id, None

VARIABLES
  current,      (* the operation that is not finished                       *)
  open,         (* its attempt that may still be answered                   *)
  pending,      (* its tools that were started and are not answered         *)
  aborting,     (* its abort was requested                                  *)
  outcome       (* per operation: None, unfinished, or how it ended         *)

vars == <<current, open, pending, aborting, outcome>>

Ending == {"completed", "aborted", "failed"}

Init ==
  /\ current = None /\ open = None /\ pending = {} /\ aborting = FALSE
  /\ outcome = [i \in Id |-> None]

Begin(op) ==
  /\ current = None /\ outcome[op] = None
  /\ current' = op
  /\ outcome' = [outcome EXCEPT ![op] = "unfinished"]
  /\ UNCHANGED <<open, pending, aborting>>

(* A new step, or, while an attempt is open, another attempt in its place.  *)
Attempt(a) ==
  /\ current # None /\ a # open
  /\ open = None => pending = {}
  /\ open' = a
  /\ UNCHANGED <<current, pending, aborting, outcome>>

CloseAttempt ==
  /\ open # None
  /\ open' = None
  /\ UNCHANGED <<current, pending, aborting, outcome>>

StartTool(t) ==
  /\ current # None /\ t \notin pending
  /\ pending' = pending \cup {t}
  /\ UNCHANGED <<current, open, aborting, outcome>>

AnswerTool(t) ==
  /\ t \in pending
  /\ pending' = pending \ {t}
  /\ UNCHANGED <<current, open, aborting, outcome>>

RequestAbort ==
  /\ current # None /\ ~aborting
  /\ aborting' = TRUE
  /\ UNCHANGED <<current, open, pending, outcome>>

(* A failure may leave anything behind; it is forgotten with the operation. *)
End(how) ==
  /\ current # None
  /\ how = "completed" => pending = {}
  /\ how = "aborted" => aborting /\ open = None /\ pending = {}
  /\ outcome' = [outcome EXCEPT ![current] = how]
  /\ current' = None /\ open' = None /\ pending' = {} /\ aborting' = FALSE

Next ==
  \/ \E i \in Id : Begin(i) \/ Attempt(i) \/ StartTool(i) \/ AnswerTool(i)
  \/ CloseAttempt \/ RequestAbort
  \/ \E how \in Ending : End(how)

Spec == Init /\ [][Next]_vars

===============================================================================
