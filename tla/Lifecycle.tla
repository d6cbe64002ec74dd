------------------------------- MODULE Lifecycle -------------------------------
(***************************************************************************)
(* What a process tells its observers (rust/src/lifecycle.rs) and the      *)
(* spans the telemetry sink makes of it (rust/src/telemetry.rs).  No       *)
(* variables: each operator takes the state of the lifecycle and returns   *)
(* it, with the events it published, as [life |-> ..., events |-> ...].    *)
(*                                                                         *)
(* Timestamps, names and contents are left out.  The session is attached   *)
(* before anything is committed (main.rs:232), so session_id is always     *)
(* there; the spans of startup and of the MCP connections are not modelled. *)
(***************************************************************************)
EXTENDS Integers, SequencesExt

CONSTANTS Id, None

(* What is known of an operation, a model attempt and a tool that are open. *)
LiveOperation == [kind: {"run", "compaction"}, recovery: BOOLEAN]
LiveModel == [op: Id, kind: {"run", "compaction"}]
LiveTool == [op: Id]

(* lifecycle.rs `State`, by identity; an answer is kept with its operation. *)
Life ==
  [operations: [Id -> LiveOperation \cup {None}],
   models: [Id -> LiveModel \cup {None}],
   tools: [Id -> LiveTool \cup {None}],
   operationUsage: [Id -> Nat],
   answers: [Id -> Id \cup {None}]]

NoLife ==
  [operations |-> [i \in Id |-> None],
   models |-> [i \in Id |-> None],
   tools |-> [i \in Id |-> None],
   operationUsage |-> [i \in Id |-> 0],
   answers |-> [i \in Id |-> None]]

Quiet(life) == [life |-> life, events |-> << >>]

Publish(told, event) == [told EXCEPT !.events = Append(@, event)]

Recovery(life, op) ==
  life.operations[op] # None /\ life.operations[op].recovery

-----------------------------------------------------------------------------
(* Observations *)

(* A bug: what an earlier process began is not taken over.                  *)
RecoveredUntold(life, op, kind) == Quiet(life)

(* A bug: it is taken for an operation of this process.                     *)
RecoveredAsOwn(life, op, kind) ==
  Publish(Quiet([life EXCEPT !.operations[op] = [kind |-> kind, recovery |-> FALSE],
                             !.operationUsage[op] = 0]),
          [type |-> "operation.recovered", id |-> op])

(* `recovery.attached`: an operation that an earlier process started.       *)
Recovered(life, op, kind) ==
  Publish(Quiet([life EXCEPT !.operations[op] = [kind |-> kind, recovery |-> TRUE],
                             !.operationUsage[op] = 0]),
          [type |-> "operation.recovered", id |-> op])

(* `tool.started`, before the tool is executed.                             *)
ToolStarting(life, tool, op) ==
  Publish(Quiet([life EXCEPT !.tools[tool] = [op |-> op]]),
          [type |-> "tool.started", id |-> tool, op |-> op])

-----------------------------------------------------------------------------
(* Committed facts *)

(* A bug: the attempt stays open.                                           *)
CompleteModelKept(told, attempt, outcome) ==
  IF told.life.models[attempt] = None THEN told
  ELSE Publish(told, [type |-> "model.completed", id |-> attempt, outcome |-> outcome])

CompleteModel(told, attempt, outcome) ==
  IF told.life.models[attempt] = None THEN told
  ELSE Publish([told EXCEPT !.life.models[attempt] = None],
               [type |-> "model.completed", id |-> attempt, outcome |-> outcome])

(* A tool that no observation started (recovery only writes its result) is  *)
(* not reported.                                                            *)
CompleteTool(told, tool) ==
  IF told.life.tools[tool] = None THEN told
  ELSE Publish([told EXCEPT !.life.tools[tool] = None],
               [type |-> "tool.completed", id |-> tool, outcome |-> "written"])

OperationStarted(told, op, kind) ==
  Publish([told EXCEPT
             !.life.operations[op] = [kind |-> kind, recovery |-> FALSE],
             !.life.operationUsage[op] = 0],
          [type |-> "operation.started", id |-> op])

ModelStarted(told, f) ==
  Publish([told EXCEPT !.life.models[f.attempt] = [op |-> f.op, kind |-> f.kind]],
          [type |-> "model.started", id |-> f.attempt, op |-> f.op])

(* A bug: the attempt is completed before its operation is looked up.       *)
ModelAnsweredLate(told, f) ==
  LET done == CompleteModel(told, f.attempt, "succeeded")
  IN  IF done.life.models[f.attempt] = None THEN done
      ELSE [done EXCEPT !.life.answers[f.id] = f.op]

(* The answer of a known attempt is kept for the end of the operation.      *)
ModelAnswered(told, f) ==
  LET model == told.life.models[f.attempt]
      kept == IF model = None THEN told
              ELSE [told EXCEPT !.life.answers[f.id] = model.op]
  IN  CompleteModel(kept, f.attempt, "succeeded")

(* An attempt of an earlier process is reconciled, not completed.           *)
ModelFailed(told, f) ==
  IF told.life.models[f.attempt] = None /\ Recovery(told.life, f.op)
    THEN Publish(told, [type |-> "model.reconciled", id |-> f.attempt])
    ELSE CompleteModel(told, f.attempt, "failed")

(* A compaction entry names no attempt: any attempt of its operation that   *)
(* is open here is the one that succeeded.                                  *)
Summarised(told, f) ==
  LET attempts == {a \in Id : told.life.models[a] # None
                     /\ told.life.models[a].op = f.op
                     /\ told.life.models[a].kind = "compaction"}
  IN  IF attempts = {} THEN told
      ELSE CompleteModel(told, CHOOSE a \in attempts : TRUE, "succeeded")

Outcome(outcome) ==
  CASE outcome = "completed" -> "succeeded"
    [] outcome = "aborted"   -> "cancelled"
    [] OTHER                 -> "failed"

(* The answer is reported if this process heard it.                         *)
OperationCompleted(told, f) ==
  LET life == told.life
  IN  IF life.operations[f.op] = None THEN told
      ELSE Publish(
             [told EXCEPT !.life.operations[f.op] = None,
                          !.life.operationUsage[f.op] = 0,
                          !.life.answers = [i \in Id |->
                             IF @[i] = f.op THEN None ELSE @[i]]],
             [type |-> "operation.completed", id |-> f.op,
              outcome |-> Outcome(f.outcome), usage |-> life.operationUsage[f.op],
              recovery |-> life.operations[f.op].recovery,
              answer |-> f.final # None /\ life.answers[f.final] # None])

(* apply_fact and apply_record.                                             *)
ApplyFact(told, f) ==
  CASE f.type = "runStarted"        -> OperationStarted(told, f.op, "run")
    [] f.type = "compactionStarted" -> OperationStarted(told, f.op, "compaction")
    [] f.type = "stepAttempt"       -> ModelStarted(told, f)
    [] f.type = "assistant"         -> ModelAnswered(told, f)
    [] f.type = "stepFailed"        -> ModelFailed(told, f)
    [] f.type = "compaction"        -> Summarised(told, f)
    [] f.type = "result"            -> CompleteTool(told, f.started)
    [] f.type = "operationFinished" -> OperationCompleted(told, f)
    [] f.type = "toolStarted"       ->
         Publish(told, [type |-> "tool.admitted", id |-> f.id, op |-> f.op])
    [] f.type = "abortRequested"    ->
         Publish(told, [type |-> "cancel.requested", id |-> f.op, op |-> f.op])
    [] OTHER                        -> told

(* The usage of a line is added up before its facts are applied.            *)
Charged(life, facts) ==
  LET total[n \in 0..Len(facts)] ==
        IF n = 0 THEN life.operationUsage
        ELSE IF facts[n].type = "usage"
        THEN [total[n - 1] EXCEPT ![facts[n].op] = @ + facts[n].amount]
        ELSE total[n - 1]
  IN  [life EXCEPT !.operationUsage = total[Len(facts)]]

(* apply_committed: what one line makes known.                              *)
Committed(life, facts) ==
  LET after[n \in 0..Len(facts)] ==
        IF n = 0 THEN {Quiet(Charged(life, facts))}
        ELSE {ApplyFact(told, facts[n]) : told \in after[n - 1]}
  IN  CHOOSE told \in after[Len(facts)] : TRUE

(* A bug: what is still open is said to have failed.                        *)
ClosedAsFailed(told) ==
  LET Unknown(type, held) ==
        {[type |-> type, id |-> i, outcome |-> "failed"] :
           i \in {j \in Id : held[j] # None}}
  IN  [life |-> [told.life EXCEPT !.models = [i \in Id |-> None],
                                  !.tools = [i \in Id |-> None]],
       events |-> told.events
                    \o SetToSeq(Unknown("model.completed", told.life.models))
                    \o SetToSeq(Unknown("tool.completed", told.life.tools))]

(* `close`: a model or tool that is still open ended with an unknown effect; *)
(* operations are not reported.                                             *)
Closed(told) ==
  LET Unknown(type, held) ==
        {[type |-> type, id |-> i, outcome |-> "effect_unknown"] :
           i \in {j \in Id : held[j] # None}}
  IN  [life |-> [told.life EXCEPT !.models = [i \in Id |-> None],
                                  !.tools = [i \in Id |-> None]],
       events |-> told.events
                    \o SetToSeq(Unknown("model.completed", told.life.models))
                    \o SetToSeq(Unknown("tool.completed", told.life.tools))]

-----------------------------------------------------------------------------
(* Telemetry: a span per operation, model attempt and executed tool, as     *)
(* [op, end] with end = None while it is open.  A tool's span is named by   *)
(* the identity of its execution; a process executes a started tool once.   *)

Ends == {"succeeded", "cancelled", "failed", "written", "effect_unknown"}
Span == [op: Id, end: Ends \cup {None}]
Spans ==
  [operations: [Id -> Span \cup {None}], models: [Id -> Span \cup {None}],
   tools: [Id -> Span \cup {None}]]

NoSpans ==
  [operations |-> [i \in Id |-> None], models |-> [i \in Id |-> None],
   tools |-> [i \in Id |-> None]]

IsOpen(span) == span # None /\ span.end = None

(* A span of a model or tool needs the span of its operation as a parent.   *)
Begin(kind, spans, event) ==
  IF IsOpen(spans.operations[event.op])
    THEN [spans EXCEPT ![kind][event.id] = [op |-> event.op, end |-> None]]
    ELSE spans

End(kind, spans, event) ==
  IF IsOpen(spans[kind][event.id])
    THEN [spans EXCEPT ![kind][event.id].end = event.outcome]
    ELSE spans

(* `record`                                                                 *)
Record(spans, event) ==
  CASE event.type \in {"operation.started", "operation.recovered"} ->
         [spans EXCEPT !.operations[event.id] = [op |-> event.id, end |-> None]]
    [] event.type = "operation.completed" -> End("operations", spans, event)
    [] event.type = "model.started"       -> Begin("models", spans, event)
    [] event.type = "model.completed"     -> End("models", spans, event)
    [] event.type = "tool.started"        -> Begin("tools", spans, event)
    [] event.type = "tool.completed"      -> End("tools", spans, event)
    [] OTHER                              -> spans

RecordAll(spans, events) ==
  LET after[n \in 0..Len(events)] ==
        IF n = 0 THEN {spans}
        ELSE {Record(before, events[n]) : before \in after[n - 1]}
  IN  CHOOSE last \in after[Len(events)] : TRUE

(* `finish_dangling`, when the sink is closed after the lifecycle.          *)
FinishDangling(spans) ==
  [kind \in DOMAIN spans |->
     [i \in Id |-> IF IsOpen(spans[kind][i])
                     THEN [spans[kind][i] EXCEPT !.end = "effect_unknown"]
                     ELSE spans[kind][i]]]

===============================================================================
