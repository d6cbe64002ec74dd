----------------------------- MODULE SessionFacts -----------------------------
(***************************************************************************)
(* The facts a writer puts in a session file (rust/src/session/facts.rs),  *)
(* with the fields that SessionReducer reads.                              *)
(***************************************************************************)

UserMessage(i) == [type |-> "user", id |-> i]

RunStarted(op, input) == [type |-> "runStarted", op |-> op, input |-> input]

CompactionStarted(op, input, result, source) ==
  [type |-> "compactionStarted", op |-> op, input |-> input,
   result |-> result, source |-> source]

CompactionEntry(i, op, through, retained) ==
  [type |-> "compaction", id |-> i, op |-> op, through |-> through,
   retained |-> retained]

StepAttempt(op, step, attempt, kind, number, context, config) ==
  [type |-> "stepAttempt", op |-> op, step |-> step, attempt |-> attempt,
   kind |-> kind, number |-> number, context |-> context, config |-> config]

AssistantMessage(i, step, attempt, answer) ==
  [type |-> "assistant", id |-> i, step |-> step, attempt |-> attempt,
   stop |-> answer.stop, calls |-> answer.calls, text |-> answer.text]

StepFailed(op, step, attempt) ==
  [type |-> "stepFailed", op |-> op, step |-> step, attempt |-> attempt]

UsageFact(op, owner, amount) ==
  [type |-> "usage", op |-> op, owner |-> owner, amount |-> amount]

ToolStarted(i, op, step, assistant, index, call, replay, key, env, result) ==
  [type |-> "toolStarted", id |-> i, op |-> op, step |-> step,
   assistant |-> assistant, index |-> index, call |-> call.id,
   name |-> call.name, args |-> call.args, replay |-> replay, key |-> key,
   env |-> env, result |-> result]

ToolResult(i, step, started, call) ==
  [type |-> "result", id |-> i, step |-> step, started |-> started,
   call |-> call]

SyntheticToolResult(i, step, assistant, index, call) ==
  [type |-> "synthetic", id |-> i, step |-> step, assistant |-> assistant,
   index |-> index, call |-> call.id, name |-> call.name]

AbortRequested(op, kind, phase, call) ==
  [type |-> "abortRequested", op |-> op, kind |-> kind, phase |-> phase,
   call |-> call]

OperationFinished(op, kind, outcome, final) ==
  [type |-> "operationFinished", op |-> op, kind |-> kind,
   outcome |-> outcome, final |-> final]

===============================================================================
