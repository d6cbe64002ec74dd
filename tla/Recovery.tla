------------------------------- MODULE Recovery -------------------------------
(***************************************************************************)
(* The recovery planner (rust/src/session/recovery.rs): the next action    *)
(* for an unfinished operation, from the reduced session and what the      *)
(* current process declares.  It is a pure function; the agent that        *)
(* resumes a session calls it again after every action.                    *)
(*                                                                         *)
(* `now` is the current process: its configuration (`config`), its         *)
(* environment identity (`env`), and the replay policy and replay key of   *)
(* every tool it declares.                                                 *)
(***************************************************************************)
EXTENDS SessionReducer

(* A tool is declared if the configuration has a definition for it.         *)
Declared(config, name) == config.tools[name] # None

-----------------------------------------------------------------------------
(* The transcript, as positions in the messages of the session *)

Callers(s) ==
  {n \in DOMAIN s.transcript :
     /\ s.entries[s.transcript[n]].type = "assistant"
     /\ s.entries[s.transcript[n]].calls # << >>}

LastCaller(s) == CHOOSE n \in Callers(s) : \A m \in Callers(s) : m <= n

(* `assistant`: the identity is the entry the current step settled on, the  *)
(* calls are those of the last assistant message that has any.              *)
HasCalls(s) ==
  /\ s.operation.kind = "run"
  /\ s.operation.step # None
  /\ s.attempts[s.operation.step.attempt].settled # None
  /\ Callers(s) # {}

SettledEntry(s) == s.attempts[s.operation.step.attempt].settled
LastCalls(s) == s.entries[s.transcript[LastCaller(s)]].calls

(* The call IDs of the tool messages directly after the last caller.        *)
AnsweredIds(s) ==
  {s.entries[s.transcript[n]].call :
     n \in {m \in DOMAIN s.transcript :
              /\ m > LastCaller(s)
              /\ \A k \in (LastCaller(s) + 1)..m :
                   s.entries[s.transcript[k]].type = "tool"}}

(* `processed_calls` *)
Processed(s, k) ==
  \/ LastCalls(s)[k].id \in AnsweredIds(s)
  \/ \E t \in ToolsOf(s, s.operation.id) :
       /\ s.tools[t].assistant = SettledEntry(s)
       /\ s.tools[t].call = LastCalls(s)[k].id
       /\ s.tools[t].status = "completed"

StartedFor(s, k) ==
  {t \in ToolsOf(s, s.operation.id) :
     s.tools[t].assistant = SettledEntry(s) /\ s.tools[t].index = k}

Unprocessed(s) == {k \in DOMAIN LastCalls(s) : ~Processed(s, k)}

(* Of those, a call whose tool has completed is passed over.                *)
Open(s) ==
  {k \in Unprocessed(s) :
     \A t \in StartedFor(s, k) : s.tools[t].status = "pending"}

-----------------------------------------------------------------------------
(* The actions *)

Blocked(reason) == [type |-> "blocked", reason |-> reason]
CloseAttempt == [type |-> "closeAttempt"]
Finish(outcome, final) ==
  [type |-> "finish", outcome |-> outcome, final |-> final]
StartStep(number, step, context) ==
  [type |-> "startStep", number |-> number, step |-> step, context |-> context]
Replay(t) == [type |-> "startTool", mode |-> "replay", tool |-> t]
Start(k) == [type |-> "startTool", mode |-> "start", index |-> k]

(* Synthetic results: that of a started tool answers in its provisioned     *)
(* entry, that of a call that was never started gets an entry of its own.   *)
Interrupted(t) == [tool |-> t]
NotStarted(k) == [index |-> k]
AppendSynthetic(results) == [type |-> "appendSynthetic", results |-> results]

(* The n-th smallest of a set of numbers.                                   *)
Nth(S, n) == CHOOSE k \in S : Cardinality({j \in S : j < k}) = n - 1

(* Results are written in the order of the calls.                           *)
InOrder(S, Result(_)) == [n \in 1..Cardinality(S) |-> Result(Nth(S, n))]

-----------------------------------------------------------------------------
(* The plan *)

(* After an abort: close the attempt, then answer every open call, then     *)
(* finish.                                                                  *)
AbortResult(s, k) ==
  IF StartedFor(s, k) = {}
    THEN NotStarted(k)
    ELSE Interrupted(CHOOSE t \in StartedFor(s, k) : TRUE)

PlanAbort(s) ==
  IF Attempting(s) THEN CloseAttempt
  ELSE IF HasCalls(s) /\ Open(s) # {}
    THEN AppendSynthetic(InOrder(Open(s), LAMBDA k : AbortResult(s, k)))
  ELSE Finish("aborted", None)

(* A step that was still waiting for the provider.                          *)
PlanAttempting(s, now) ==
  LET a == s.attempts[s.operation.step.attempt]
  IN  IF a.attempt = 2 THEN Blocked("attempts_exhausted")
      ELSE IF a.config # now.config THEN Blocked("configuration_changed")
      ELSE StartStep(2, a.step, a.context)

PlanTruncated(s) ==
  IF Unprocessed(s) = {}
    THEN Finish("failed", None)
    ELSE AppendSynthetic(InOrder(Unprocessed(s), NotStarted))

(* A bug: the environment is not compared.                                  *)
PlanStartedElsewhere(s, now, t) ==
  LET tool == s.tools[t]
      persisted == s.attempts[s.operation.step.attempt].config.tools[tool.name]
  IN  IF \/ ~Declared(now.config, tool.name)
         \/ persisted # now.config.tools[tool.name]
        THEN Blocked("configuration_changed")
      ELSE IF tool.replay = "never" THEN AppendSynthetic(<<Interrupted(t)>>)
      ELSE IF now.replay[tool.name] = "safe" /\ now.key[tool.name] = tool.key
        THEN Replay(t)
      ELSE Blocked("replay_declaration_changed")

(* A bug: the replay policy is not looked at.                               *)
PlanStartedAlways(s, now, t) ==
  IF s.tools[t].env # now.env
    THEN Blocked("environment_changed")
    ELSE Replay(t)

(* A tool that was started and has no result: only a safe one is replayed,  *)
(* and only by the implementation that started it.                          *)
PlanStarted(s, now, t) ==
  LET tool == s.tools[t]
      persisted == s.attempts[s.operation.step.attempt].config.tools[tool.name]
  IN  IF tool.env # now.env THEN Blocked("environment_changed")
      ELSE IF \/ ~Declared(now.config, tool.name)
              \/ persisted # now.config.tools[tool.name]
        THEN Blocked("configuration_changed")
      ELSE IF tool.replay = "never" THEN AppendSynthetic(<<Interrupted(t)>>)
      ELSE IF /\ now.replay[tool.name] = "safe"
              /\ now.key[tool.name] = tool.key
        THEN Replay(t)
      ELSE Blocked("replay_declaration_changed")

PlanUnstarted(s, now, k) ==
  LET name == LastCalls(s)[k].name
      persisted == s.attempts[s.operation.step.attempt].config.tools[name]
  IN  IF persisted # None /\ persisted # now.config.tools[name]
        THEN Blocked("configuration_changed")
      ELSE IF \/ ~Declared(now.config, name)            (* unknownTool      *)
              \/ LastCalls(s)[k].args = "text"          (* invalidArguments *)
        THEN AppendSynthetic(<<NotStarted(k)>>)
      ELSE Start(k)

(* The first open call, in order; without one, the next step of the run.    *)
PlanCalls(s, now) ==
  IF Open(s) # {}
    THEN LET k == CHOOSE j \in Open(s) : \A l \in Open(s) : j <= l
         IN  IF StartedFor(s, k) # {}
               THEN PlanStarted(s, now, CHOOSE t \in StartedFor(s, k) : TRUE)
               ELSE PlanUnstarted(s, now, k)
    ELSE IF PendingTools(s) = {} /\ s.through # None
      THEN StartStep(1, None, s.through)
      ELSE Blocked("configuration_changed")

PlanSettled(s, now) ==
  IF s.operation.kind = "compaction"
    THEN Finish("completed", s.operations[s.operation.id].result)
  ELSE IF ~HasCalls(s) THEN Finish("completed", SettledEntry(s))
  ELSE IF s.entries[SettledEntry(s)].stop = "length" THEN PlanTruncated(s)
  ELSE PlanCalls(s, now)

(* `plan_recovery`, for an operation that is not idle.                      *)
Plan(s, now) ==
  IF s.operation.abort THEN PlanAbort(s)
  ELSE IF s.operation.step = None THEN StartStep(1, None, s.operation.input)
  ELSE IF s.operation.step.status = "failed" THEN Finish("failed", None)
  ELSE IF Attempting(s) THEN PlanAttempting(s, now)
  ELSE PlanSettled(s, now)

===============================================================================
