----------------------------- MODULE ReducerLog -----------------------------
(***************************************************************************)
(* Every session file the reducer accepts: a log is extended one fact at a *)
(* time by any fact that SessionReducer accepts, whoever wrote it.  A line *)
(* of several facts is several steps here; what a line in the middle of    *)
(* its facts satisfies, the state after the line satisfies too.            *)
(***************************************************************************)
EXTENDS SessionReducer

CONSTANTS
  Offered(_),   (* of the identities not used yet, those a log may use next *)
  CallLists     (* the tool calls an assistant message may carry            *)

ASSUME OfferedAssumption == \A S \in SUBSET Id : Offered(S) \subseteq S
ASSUME CallListsAssumption == CallLists \subseteq Seq(Call)
ASSUME OutcomeAssumption == None \notin Outcome

VARIABLES
  s,            (* the reduced state                                        *)
  outcome       (* history: the outcome each operation finished with        *)

vars == <<s, outcome>>

Fresh == Offered({i \in Id : s.use[i] = "free"})
FreshAfter(i) == Offered({j \in Id : s.use[j] = "free"} \ {i})

Accept(f) ==
  /\ Accepts(s, f)
  /\ s' = Apply(s, f)

AddUser ==
  \E i \in Fresh : Accept([type |-> "user", id |-> i])

AddAssistant ==
  \E i \in Fresh, a \in Id, stop \in Stop, calls \in CallLists, text \in BOOLEAN :
    /\ s.attempts[a] # None
    /\ Accept([type |-> "assistant", id |-> i, step |-> s.attempts[a].step,
               attempt |-> a, stop |-> stop, calls |-> calls, text |-> text])

AddSynthetic ==
  \E i \in Fresh, e \in {j \in Id : s.entries[j] # None} :
  \E n \in DOMAIN s.entries[e].calls :
    Accept([type |-> "synthetic", id |-> i, step |-> s.entries[e].step,
            assistant |-> e, index |-> n,
            call |-> s.entries[e].calls[n].id,
            name |-> s.entries[e].calls[n].name])

AddResult ==
  \E t \in Id :
    /\ s.tools[t] # None
    /\ Accept([type |-> "result", id |-> s.tools[t].result,
               step |-> s.tools[t].step, started |-> t,
               call |-> s.tools[t].call])

AddCompaction ==
  \E through \in Id :
    /\ ~Idle(s) /\ s.operation.kind = "compaction"
    /\ s.entries[through] # None
    /\ Accept([type |-> "compaction", id |-> s.operations[s.operation.id].result,
               op |-> s.operation.id, through |-> through,
               retained |-> Retained(s, through)])

AddRunStarted ==
  \E op \in Fresh, input \in Id :
    Accept([type |-> "runStarted", op |-> op, input |-> input])

AddCompactionStarted ==
  \E op \in Fresh, input \in Id : \E result \in FreshAfter(op) :
    /\ s.entries[input] # None
    /\ Accept([type |-> "compactionStarted", op |-> op, input |-> input,
               result |-> result, source |-> Source(s, input)])

AddStepAttempt ==
  \E op \in {i \in Id : s.operations[i] # None}, context \in Id,
     config \in ConfigurationSnapshot, number \in 1..2,
     step \in Fresh \cup {i \in Id : AttemptsOfStep(s, i) # {}} :
  \E attempt \in FreshAfter(step) :
    Accept([type |-> "stepAttempt", op |-> op, step |-> step,
            attempt |-> attempt, kind |-> s.operations[op].kind,
            number |-> number, context |-> context, config |-> config])

AddStepFailed ==
  \E a \in Id :
    /\ s.attempts[a] # None
    /\ Accept([type |-> "stepFailed", op |-> s.attempts[a].op,
               step |-> s.attempts[a].step, attempt |-> a])

AddToolStarted ==
  \E i \in Fresh, e \in {j \in Id : s.entries[j] # None},
     replay \in {"safe", "never"}, key \in ReplayKey, env \in Environment :
  \E n \in DOMAIN s.entries[e].calls, result \in FreshAfter(i) :
    Accept([type |-> "toolStarted", id |-> i, op |-> s.entries[e].op,
            step |-> s.entries[e].step, assistant |-> e, index |-> n,
            call |-> s.entries[e].calls[n].id,
            name |-> s.entries[e].calls[n].name,
            args |-> s.entries[e].calls[n].args,
            replay |-> replay, key |-> key, env |-> env,
            result |-> result])

AddAbortRequested ==
  \E op \in Id :
    /\ s.operations[op] # None
    /\ Accept([type |-> "abortRequested", op |-> op,
               kind |-> s.operations[op].kind, phase |-> "model",
               call |-> None])

AddOperationFinished ==
  \E op \in Id, final \in Id \cup {None}, how \in Outcome :
    /\ s.operations[op] # None
    /\ Accept([type |-> "operationFinished", op |-> op,
               kind |-> s.operations[op].kind, outcome |-> how,
               final |-> final])
    /\ outcome' = [outcome EXCEPT ![op] = how]

AddUsage ==
  \E op \in Id, owner \in Id, amount \in 1..MaxUsage :
    Accept([type |-> "usage", op |-> op, owner |-> owner, amount |-> amount])

Init == s = InitialState /\ outcome = [i \in Id |-> None]

Next ==
  \/ AddUser /\ UNCHANGED outcome
  \/ AddAssistant /\ UNCHANGED outcome
  \/ AddSynthetic /\ UNCHANGED outcome
  \/ AddResult /\ UNCHANGED outcome
  \/ AddCompaction /\ UNCHANGED outcome
  \/ AddRunStarted /\ UNCHANGED outcome
  \/ AddCompactionStarted /\ UNCHANGED outcome
  \/ AddStepAttempt /\ UNCHANGED outcome
  \/ AddStepFailed /\ UNCHANGED outcome
  \/ AddToolStarted /\ UNCHANGED outcome
  \/ AddAbortRequested /\ UNCHANGED outcome
  \/ AddOperationFinished
  \/ AddUsage /\ UNCHANGED outcome

Spec == Init /\ [][Next]_vars

-----------------------------------------------------------------------------
(* Properties *)

TypeOK ==
  /\ s \in State
  /\ outcome \in [Id -> Outcome \cup {None}]

(* At most one operation is unfinished, and it is the one the public state  *)
(* calls current: the register `operation` and the map `operations` agree.  *)
OneUnfinished ==
  \A op \in Id : Unfinished(s, op) <=> ~Idle(s) /\ s.operation.id = op

(* What one part of the state names, another part holds: the kind and the   *)
(* current attempt of the current operation, the entry a compaction will    *)
(* become, and the step and attempt an answer with calls came from.         *)
References ==
  /\ ~Idle(s) =>
       /\ s.operations[s.operation.id].kind = s.operation.kind
       /\ s.operation.step # None =>
            /\ s.attempts[s.operation.step.attempt] # None
            /\ s.attempts[s.operation.step.attempt].op = s.operation.id
  /\ \A op \in Id :
       s.operations[op] # None /\ s.operations[op].kind = "compaction"
         => s.operations[op].result # None
  /\ \A i \in Id :
       s.entries[i] # None /\ s.entries[i].calls # << >>
         => {s.entries[i].op, s.entries[i].step, s.entries[i].attempt} \subseteq Id

(* An attempt of the unfinished operation that is still open is the attempt *)
(* of its current step, and that step says `attempting`.  So no provider    *)
(* answer can settle a superseded attempt or a step that was left behind.   *)
OpenAttemptIsCurrent ==
  \A a \in Id :
    s.attempts[a] # None /\ ~s.attempts[a].closed
      /\ Unfinished(s, s.attempts[a].op)
      => /\ s.operation.step = [attempt |-> a, status |-> "attempting"]
         /\ s.attempts[a].step = s.operations[s.attempts[a].op].latest

(* A started tool waits for exactly its provisioned result: while pending,  *)
(* that identity is reserved for it; once completed, the identity is a tool *)
(* message of the same operation and step that answers the same call.  And  *)
(* a call of an assistant message is started at most once.                  *)
IntentMatchesResult ==
  \A t \in Id : s.tools[t] # None =>
    LET tool == s.tools[t]
        entry == s.entries[tool.result]
    IN  /\ tool.status = "pending" => s.use[tool.result] = "toolResult"
        /\ tool.status = "completed" =>
             entry # None /\ entry.type = "tool" /\ entry.op = tool.op
               /\ entry.step = tool.step /\ entry.call = tool.call
        /\ \A u \in Id \ {t} : s.tools[u] # None =>
             <<tool.assistant, tool.index>> # <<s.tools[u].assistant, s.tools[u].index>>

Finishing(op, how) == outcome[op] = None /\ outcome'[op] = how

(* A run that completes has answered every tool call in the transcript.     *)
CompletedRunAnswered ==
  [][\A op \in Id : Finishing(op, "completed")
                      /\ s'.operations[op].kind = "run"
       => s'.unanswered = {}]_vars

(* Nothing settles, fails or reopens an attempt of a finished operation.    *)
FinishedIsFinal ==
  [][\A a \in Id :
       s.attempts[a] # None /\ ~Unfinished(s, s.attempts[a].op)
         => s'.attempts[a] = s.attempts[a]
            /\ ~Unfinished(s', s'.attempts[a].op)]_vars

(* The protocol a reader of the file may rely on, whoever wrote it.         *)
Protocol == INSTANCE SessionProtocol WITH
  current <- IF Idle(s) THEN None ELSE s.operation.id,
  open <- IF ~Idle(s) /\ Attempting(s) THEN s.operation.step.attempt ELSE None,
  pending <- IF Idle(s) THEN {} ELSE PendingTools(s),
  aborting <- ~Idle(s) /\ s.operation.abort,
  outcome <- [i \in Id |-> IF Unfinished(s, i) THEN "unfinished" ELSE outcome[i]]

(* The reducer accepts nothing that the protocol does not allow.            *)
ImplementsProtocol == Protocol!Spec

(* docs/session-design.md:226: only a process crash with an open attempt is *)
(* retryable: a step one of whose attempts has settled gets no other.       *)
SettledNotRetried ==
  \A a, b \in Id :
    s.attempts[a] # None /\ s.attempts[b] # None /\ a # b
      /\ s.attempts[a].step = s.attempts[b].step
      /\ s.attempts[a].settled # None
      => s.attempts[b].attempt < s.attempts[a].attempt

=============================================================================
