--------------------------- MODULE SessionReducer ---------------------------
(***************************************************************************)
(* The pure reducer of a session file (rust/src/session/reducer.rs): what  *)
(* a fact must satisfy to be accepted (Can...) and the state it leads to   *)
(* (Do...).  A session file is a header and one transaction per line; the  *)
(* reducer folds the facts of a line over a copy of the state and keeps    *)
(* the copy only if every fact was accepted.                               *)
(*                                                                         *)
(* Abstractions.  The syntactic checks (exact keys, digests that are well  *)
(* formed, UUID syntax, JSON) are left out: the facts here are records of  *)
(* the right shape.  A record's own identity is left out unless another    *)
(* fact can name it; a digest is the value it is computed from.  The       *)
(* transcript check of a line is applied to each message as it is pushed,  *)
(* which rejects the same lines: a transcript with an illegal prefix is    *)
(* illegal.                                                                *)
(***************************************************************************)
EXTENDS Naturals, Sequences, FiniteSets, SequencesExt

CONSTANTS
  Id,           (* UUIDv7 identities of entries, operations, steps, ...     *)
  CallId,       (* tool-call IDs chosen by the provider                     *)
  ToolName,     (* tool names a model may call                              *)
  Model,        (* everything in a configuration that is not a tool         *)
  Definition,   (* model-facing tool definitions, as their digests          *)
  Environment,  (* environment identities                                   *)
  ReplayKey,    (* identities of trusted tool implementations               *)
  MaxUsage,     (* the largest usage total, 2^53 - 1 in the code            *)
  None          (* an absent optional value                                 *)

ASSUME MaxUsageAssumption == MaxUsage \in Nat

-----------------------------------------------------------------------------
(* Data *)

Outcome == {"completed", "aborted", "failed"}
Stop == {"stop", "toolUse", "length"}
Reason == {"invalidArguments", "unknownTool", "truncated", "aborted"}

(* What the arguments of a call are: an object its tool accepts, an object  *)
(* that does not deserialize into the tool's arguments, or no JSON object.  *)
Arguments == {"object", "illTyped", "text"}

Call == [id: CallId, name: ToolName, args: Arguments]

ConfigurationSnapshot ==
  [model: Model, tools: [ToolName -> Definition \cup {None}]]

Entry ==
  [type: {"user", "assistant", "tool", "compaction"},
   op: Id \cup {None}, step: Id \cup {None}, attempt: Id \cup {None},
   stop: Stop \cup {"none"}, calls: Seq(Call), text: BOOLEAN,
   call: CallId \cup {None}]

StepState == [attempt: Id, status: {"attempting", "settled", "failed"}]

OperationState ==
  [kind: {"run", "compaction"}, id: Id, input: Id,
   step: StepState \cup {None}, abort: BOOLEAN]

OperationInfo ==
  [kind: {"run", "compaction"}, finished: BOOLEAN,
   result: Id \cup {None}, latest: Id \cup {None}]

(* copyClosed is `closed` in the copy of the attempt that the step list     *)
(* holds; the two are updated at different places.                          *)
AttemptInfo ==
  [op: Id, step: Id, attempt: 1..2, kind: {"run", "compaction"},
   context: Id, config: ConfigurationSnapshot, closed: BOOLEAN,
   failed: BOOLEAN, settled: Id \cup {None}, copyClosed: BOOLEAN]

ToolCallState ==
  [op: Id, step: Id, assistant: Id, index: Nat, call: CallId,
   name: ToolName, args: Arguments, replay: {"safe", "never"}, key: ReplayKey,
   env: Environment, result: Id, status: {"pending", "completed"}]

Use == {"free", "used", "identity", "toolResult", "compactionResult"}

State ==
  [use: [Id -> Use],                          (* ids and reserved_ids       *)
   entries: [Id -> Entry \cup {None}],
   order: Seq(Id),                            (* entry_order                *)
   transcript: Seq(Id),                       (* the message entries        *)
   context: Seq(Id),                          (* active_context             *)
   through: Id \cup {None},                   (* ..._through_entry_id       *)
   unanswered: SUBSET CallId,                 (* calls without a result     *)
   operation: OperationState \cup {None},     (* None is Idle               *)
   operations: [Id -> OperationInfo \cup {None}],
   attempts: [Id -> AttemptInfo \cup {None}],
   tools: [Id -> ToolCallState \cup {None}],
   pairs: SUBSET (Id \X Nat),                 (* tool_pairs                 *)
   usage: Nat]

(* An absent value is none of the values it stands in for.                  *)
ASSUME NoneAssumption ==
  /\ None \notin Id /\ None \notin CallId /\ None \notin Definition
  /\ None \notin Entry /\ None \notin AttemptInfo /\ None \notin ToolCallState
  /\ None \notin StepState /\ None \notin OperationState
  /\ None \notin OperationInfo

InitialState ==
  [use |-> [i \in Id |-> "free"],
   entries |-> [i \in Id |-> None],
   order |-> << >>, transcript |-> << >>, context |-> << >>, through |-> None,
   unanswered |-> {},
   operation |-> None,
   operations |-> [i \in Id |-> None],
   attempts |-> [i \in Id |-> None],
   tools |-> [i \in Id |-> None],
   pairs |-> {}, usage |-> 0]

-----------------------------------------------------------------------------
(* Helpers *)

Free(s, i) == s.use[i] = "free"
Idle(s) == s.operation = None
CurrentIs(s, kind, op) ==
  ~Idle(s) /\ s.operation.kind = kind /\ s.operation.id = op

(* `operation`: facts may only name an operation that has not finished.     *)
Unfinished(s, op) == s.operations[op] # None /\ ~s.operations[op].finished

(* A bug: the attempts of every step.                                       *)
AttemptsOfAnyStep(s, step) == {a \in Id : s.attempts[a] # None}

AttemptsOfStep(s, step) ==
  {a \in Id : s.attempts[a] # None /\ s.attempts[a].step = step}

ToolsOf(s, op) == {t \in Id : s.tools[t] # None /\ s.tools[t].op = op}

PendingTools(s) ==
  {t \in ToolsOf(s, s.operation.id) : s.tools[t].status = "pending"}

Attempting(s) ==
  s.operation.step # None /\ s.operation.step.status = "attempting"

Position(s, i) == CHOOSE k \in DOMAIN s.order : s.order[k] = i

(* How many messages there are through entry i.                             *)
Through(s, i) ==
  Cardinality({k \in DOMAIN s.transcript :
                 Position(s, s.transcript[k]) <= Position(s, i)})

(* The durable source messages through entry i (`source_digest`).           *)
Source(s, i) == SubSeq(s.transcript, 1, Through(s, i))

(* `validate_transcript`: a tool message answers an open call of the        *)
(* assistant message before it; nothing else may come between.              *)
Legal(entry, unanswered) ==
  IF entry.type = "tool" THEN entry.call \in unanswered ELSE unanswered = {}

(* A bug: open calls are kept by tool name.                                 *)
UnansweredByName(entry, unanswered) ==
  IF entry.type = "tool"
    THEN unanswered \ {entry.call}
    ELSE {entry.calls[k].name : k \in DOMAIN entry.calls}

Unanswered(entry, unanswered) ==
  IF entry.type = "tool"
    THEN unanswered \ {entry.call}
    ELSE {entry.calls[k].id : k \in DOMAIN entry.calls}

(* The calls left open after each message, none before the first.           *)
ValidTranscript(s, ids) ==
  LET open[n \in 0..Len(ids)] ==
        IF n = 0 THEN {} ELSE Unanswered(s.entries[ids[n]], open[n - 1])
  IN  \A n \in 1..Len(ids) : Legal(s.entries[ids[n]], open[n - 1])

(* What every message entry does once its own checks have passed.           *)
Push(s, i, entry) ==
  [s EXCEPT !.use[i] = "used", !.entries[i] = entry,
            !.order = Append(@, i), !.transcript = Append(@, i),
            !.context = Append(@, i), !.through = i,
            !.unanswered = Unanswered(entry, @)]

WithStatus(operation, attempt, status) ==
  IF operation.step # None /\ operation.step.attempt = attempt
    THEN [operation EXCEPT !.step.status = status]
    ELSE operation

-----------------------------------------------------------------------------
(* Message entries (`apply_message_entry`) *)

UserEntry(f) ==
  [type |-> "user", op |-> None, step |-> None, attempt |-> None,
   stop |-> "none", calls |-> << >>, text |-> TRUE, call |-> None]

CanUser(s, f) == Free(s, f.id) /\ Legal(UserEntry(f), s.unanswered)
DoUser(s, f) == Push(s, f.id, UserEntry(f))

AssistantEntry(s, f) ==
  [type |-> "assistant", op |-> s.attempts[f.attempt].op, step |-> f.step,
   attempt |-> f.attempt, stop |-> f.stop, calls |-> f.calls,
   text |-> f.text, call |-> None]

(* A bug: a stopped answer may have calls.                                  *)
CanAssistantStopWithCalls(s, f) ==
  /\ Free(s, f.id)
  /\ f.stop = "toolUse" => f.calls # << >>
  /\ \A j, k \in DOMAIN f.calls : f.calls[j].id = f.calls[k].id => j = k
  /\ s.attempts[f.attempt] # None
  /\ ~s.attempts[f.attempt].closed
  /\ CurrentIs(s, "run", s.attempts[f.attempt].op)
  /\ Legal(AssistantEntry(s, f), s.unanswered)

CanAssistant(s, f) ==
  /\ Free(s, f.id)
  /\ f.stop = "toolUse" => f.calls # << >>
  /\ f.stop = "stop" => f.calls = << >>
  /\ \A j, k \in DOMAIN f.calls : f.calls[j].id = f.calls[k].id => j = k
  /\ s.attempts[f.attempt] # None
  /\ s.attempts[f.attempt].step = f.step
  /\ ~s.attempts[f.attempt].closed
  /\ s.attempts[f.attempt].kind = "run"
  /\ CurrentIs(s, "run", s.attempts[f.attempt].op)
  /\ Legal(AssistantEntry(s, f), s.unanswered)

(* A bug: the attempt stays open when it is settled.                        *)
DoAssistantLeavesOpen(s, f) ==
  [Push(s, f.id, AssistantEntry(s, f)) EXCEPT
     !.attempts[f.attempt].settled = f.id,
     !.operation = WithStatus(@, f.attempt, "settled")]

DoAssistant(s, f) ==
  [Push(s, f.id, AssistantEntry(s, f)) EXCEPT
     !.attempts[f.attempt] =
        [@ EXCEPT !.closed = TRUE, !.copyClosed = TRUE, !.settled = f.id],
     !.operation = WithStatus(@, f.attempt, "settled")]

ToolEntry(op, step, call) ==
  [type |-> "tool", op |-> op, step |-> step, attempt |-> None,
   stop |-> "none", calls |-> << >>, text |-> TRUE, call |-> call]

(* The call that a fact names by assistant entry, index, call ID and name.  *)
NamesCall(s, f) ==
  /\ s.entries[f.assistant] # None
  /\ s.entries[f.assistant].step = f.step
  /\ f.index \in DOMAIN s.entries[f.assistant].calls
  /\ s.entries[f.assistant].calls[f.index].id = f.call
  /\ s.entries[f.assistant].calls[f.index].name = f.name
  /\ <<f.assistant, f.index>> \notin s.pairs

CanSynthetic(s, f) ==
  /\ Free(s, f.id)
  /\ ~Idle(s) /\ s.operation.kind = "run"
  /\ NamesCall(s, f)
  /\ s.entries[f.assistant].op = s.operation.id
  /\ Legal(ToolEntry(s.operation.id, f.step, f.call), s.unanswered)

DoSynthetic(s, f) ==
  [Push(s, f.id, ToolEntry(s.operation.id, f.step, f.call)) EXCEPT
     !.pairs = @ \cup {<<f.assistant, f.index>>}]

CanResult(s, f) ==
  /\ s.use[f.id] = "toolResult"
  /\ s.tools[f.started] # None
  /\ s.tools[f.started].step = f.step
  /\ s.tools[f.started].result = f.id
  /\ s.tools[f.started].call = f.call
  /\ s.tools[f.started].status = "pending"
  /\ Legal(ToolEntry(s.tools[f.started].op, f.step, f.call), s.unanswered)

DoResult(s, f) ==
  [Push(s, f.id, ToolEntry(s.tools[f.started].op, f.step, f.call)) EXCEPT
     !.tools[f.started].status = "completed"]

-----------------------------------------------------------------------------
(* The compaction entry (`apply_compaction_entry`) *)

(* A bug: the last summarised message is retained too.                      *)
RetainedOneMore(s, through) ==
  SubSeq(s.transcript, Through(s, through), Through(s, s.operation.input))

(* The source messages after `through`, up to the operation's input.        *)
Retained(s, through) ==
  SubSeq(s.transcript, Through(s, through) + 1, Through(s, s.operation.input))

CanCompaction(s, f) ==
  /\ s.use[f.id] = "compactionResult"
  /\ Unfinished(s, f.op)
  /\ CurrentIs(s, "compaction", f.op)
  /\ s.operations[f.op].result = f.id
  /\ s.entries[f.through] # None
  /\ Position(s, f.through) <= Position(s, s.operation.input)
  /\ f.retained = Retained(s, f.through)
  /\ ValidTranscript(s, f.retained)
  /\ s.operation.step # None
  /\ ~s.attempts[s.operation.step.attempt].closed
  /\ s.attempts[s.operation.step.attempt].kind = "compaction"

(* A bug: the summary is left out of the active context.                    *)
DoCompactionWithoutSummary(s, f) ==
  [s EXCEPT
     !.use[f.id] = "used",
     !.entries[f.id] =
        [type |-> "compaction", op |-> f.op,
         step |-> s.attempts[s.operation.step.attempt].step,
         attempt |-> s.operation.step.attempt, stop |-> "none",
         calls |-> << >>, text |-> TRUE, call |-> None],
     !.order = Append(@, f.id),
     !.context = f.retained,
     !.through = s.operation.input,
     !.attempts[s.operation.step.attempt] =
        [@ EXCEPT !.closed = TRUE, !.settled = f.id],
     !.operation.step.status = "settled"]

DoCompaction(s, f) ==
  [s EXCEPT
     !.use[f.id] = "used",
     !.entries[f.id] =
        [type |-> "compaction", op |-> f.op,
         step |-> s.attempts[s.operation.step.attempt].step,
         attempt |-> s.operation.step.attempt, stop |-> "none",
         calls |-> << >>, text |-> TRUE, call |-> None],
     !.order = Append(@, f.id),
     !.context = <<f.id>> \o f.retained,
     !.through = s.operation.input,
     !.attempts[s.operation.step.attempt] =
        [@ EXCEPT !.closed = TRUE, !.settled = f.id],
     !.operation.step.status = "settled"]

-----------------------------------------------------------------------------
(* Records (`apply_record`) *)

CanRunStarted(s, f) ==
  /\ Idle(s)
  /\ Free(s, f.op)
  /\ s.entries[f.input] # None
  /\ s.entries[f.input].type = "user"

DoRunStarted(s, f) ==
  [s EXCEPT
     !.use[f.op] = "identity",
     !.operations[f.op] = [kind |-> "run", finished |-> FALSE,
                           result |-> None, latest |-> None],
     !.operation = [kind |-> "run", id |-> f.op, input |-> f.input,
                    step |-> None, abort |-> FALSE]]

CanCompactionStarted(s, f) ==
  /\ Idle(s)
  /\ Free(s, f.op) /\ Free(s, f.result) /\ f.op # f.result
  /\ s.entries[f.input] # None
  /\ f.source = Source(s, f.input)

DoCompactionStarted(s, f) ==
  [s EXCEPT
     !.use[f.op] = "identity", !.use[f.result] = "compactionResult",
     !.operations[f.op] = [kind |-> "compaction", finished |-> FALSE,
                           result |-> f.result, latest |-> None],
     !.operation = [kind |-> "compaction", id |-> f.op, input |-> f.input,
                    step |-> None, abort |-> FALSE]]

(* A bug: a new step does not wait for the results of the last one.         *)
MayStartStepPending(s, f) ==
  /\ Free(s, f.step) /\ f.step # f.attempt
  /\ s.through = f.context
  /\ s.operation.step # None =>
       /\ s.operation.step.status = "settled"
       /\ f.kind = "run"
       /\ s.attempts[s.operation.step.attempt].settled # None
       /\ s.entries[s.attempts[s.operation.step.attempt].settled].stop
            = "toolUse"

(* A further step of a run needs the step before it settled with tool calls *)
(* and none of the started tools pending.                                   *)
MayStartStep(s, f) ==
  /\ Free(s, f.step) /\ f.step # f.attempt
  /\ s.through = f.context
  /\ s.operation.step # None =>
       /\ s.operation.step.status = "settled"
       /\ f.kind = "run"
       /\ s.attempts[s.operation.step.attempt].settled # None
       /\ s.entries[s.attempts[s.operation.step.attempt].settled].stop
            = "toolUse"
       /\ PendingTools(s) = {}

(* A second attempt repeats the first, the step's only one, still open in   *)
(* the step's own copy of it.                                               *)
MayRetryStep(s, f) ==
  \E p \in Id :
    /\ AttemptsOfStep(s, f.step) = {p}
    /\ s.attempts[p].attempt = 1
    /\ ~s.attempts[p].copyClosed
    /\ s.attempts[p].kind = f.kind
    /\ s.attempts[p].op = f.op
    /\ s.attempts[p].context = f.context
    /\ s.attempts[p].config = f.config

CanStepAttempt(s, f) ==
  /\ Unfinished(s, f.op)
  /\ Free(s, f.attempt)
  /\ f.kind = s.operations[f.op].kind
  /\ s.entries[f.context] # None
  /\ \/ f.number = 1 /\ MayStartStep(s, f)
     \/ f.number = 2 /\ MayRetryStep(s, f)

DoStepAttempt(s, f) ==
  [s EXCEPT
     !.use[f.attempt] = "identity",
     !.use[f.step] = "identity",
     !.attempts =
        [a \in Id |->
           IF a = f.attempt
             THEN [op |-> f.op, step |-> f.step, attempt |-> f.number,
                   kind |-> f.kind, context |-> f.context,
                   config |-> f.config, closed |-> FALSE, failed |-> FALSE,
                   settled |-> None, copyClosed |-> FALSE]
             ELSE IF a \in AttemptsOfStep(s, f.step)
               THEN [@[a] EXCEPT !.closed = TRUE]
               ELSE @[a]],
     !.operations[f.op].latest = f.step,
     !.operation.step = [attempt |-> f.attempt, status |-> "attempting"]]

CanStepFailed(s, f) ==
  /\ Unfinished(s, f.op)
  /\ s.attempts[f.attempt] # None
  /\ s.attempts[f.attempt].op = f.op
  /\ s.attempts[f.attempt].step = f.step
  /\ ~s.attempts[f.attempt].closed

DoStepFailed(s, f) ==
  [s EXCEPT
     !.attempts[f.attempt] =
        [@ EXCEPT !.closed = TRUE, !.copyClosed = TRUE, !.failed = TRUE],
     !.operation = WithStatus(@, f.attempt, "failed")]

CanToolStarted(s, f) ==
  /\ Free(s, f.id) /\ Free(s, f.result) /\ f.id # f.result
  /\ Unfinished(s, f.op)
  /\ CurrentIs(s, "run", f.op)
  /\ NamesCall(s, f)
  /\ s.entries[f.assistant].stop = "toolUse"
  /\ s.entries[f.assistant].op = f.op
  /\ s.attempts[s.entries[f.assistant].attempt].config.tools[f.name] # None

(* A bug: the identity of the result is not reserved.                       *)
DoToolStartedUnreserved(s, f) ==
  [s EXCEPT
     !.use[f.id] = "used",
     !.pairs = @ \cup {<<f.assistant, f.index>>},
     !.tools[f.id] =
        [op |-> f.op, step |-> f.step, assistant |-> f.assistant,
         index |-> f.index, call |-> f.call, name |-> f.name,
         args |-> f.args, replay |-> f.replay, key |-> f.key,
         env |-> f.env, result |-> f.result, status |-> "pending"]]

DoToolStarted(s, f) ==
  [s EXCEPT
     !.use[f.id] = "used", !.use[f.result] = "toolResult",
     !.pairs = @ \cup {<<f.assistant, f.index>>},
     !.tools[f.id] =
        [op |-> f.op, step |-> f.step, assistant |-> f.assistant,
         index |-> f.index, call |-> f.call, name |-> f.name,
         args |-> f.args, replay |-> f.replay, key |-> f.key,
         env |-> f.env, result |-> f.result, status |-> "pending"]]

CanAbortRequested(s, f) ==
  /\ Unfinished(s, f.op)
  /\ f.kind = s.operations[f.op].kind
  /\ (f.phase = "tool") = (f.call # None)
  /\ ~Idle(s) /\ s.operation.id = f.op
  /\ ~s.operation.abort

DoAbortRequested(s, f) == [s EXCEPT !.operation.abort = TRUE]

(* `validate_completed_operation` *)
MayComplete(s, f) ==
  LET e == s.entries[f.final]
      found == s.operations[f.op]
  IN  /\ f.final # None
      /\ e # None
      /\ e.op = f.op
      /\ e.attempt # None
      /\ s.attempts[e.attempt].step = found.latest
      /\ s.attempts[e.attempt].settled = f.final
      /\ \/ /\ found.kind = "run"
            /\ e.stop = "stop"
            /\ s.attempts[e.attempt].closed
            /\ ~s.attempts[e.attempt].failed
            /\ e.text
            /\ PendingTools(s) = {}
         \/ /\ found.kind = "compaction"
            /\ e.type = "compaction"
            /\ found.result = f.final

CanOperationFinished(s, f) ==
  /\ Unfinished(s, f.op)
  /\ f.kind = s.operations[f.op].kind
  /\ ~Idle(s) /\ s.operation.id = f.op
  /\ \/ f.outcome = "completed" /\ MayComplete(s, f)
     \/ /\ f.outcome = "aborted"
        /\ f.final = None
        /\ s.operation.abort
        /\ PendingTools(s) = {}
        /\ ~Attempting(s)
     \/ f.outcome = "failed" /\ f.final = None

(* A bug: only the public state forgets the operation.                      *)
DoOperationFinishedPublicOnly(s, f) == [s EXCEPT !.operation = None]

DoOperationFinished(s, f) ==
  [s EXCEPT !.operations[f.op].finished = TRUE, !.operation = None]

(* `apply_usage`: the owner is an attempt or a tool of the operation, which *)
(* may have finished.                                                       *)
CanUsage(s, f) ==
  /\ s.operations[f.op] # None
  /\ \/ s.attempts[f.owner] # None /\ s.attempts[f.owner].op = f.op
     \/ s.tools[f.owner] # None /\ s.tools[f.owner].op = f.op
  /\ s.usage + f.amount <= MaxUsage

DoUsage(s, f) == [s EXCEPT !.usage = @ + f.amount]

-----------------------------------------------------------------------------
(* One fact, and one line (`apply_fact`, the loop of `reduce_session`) *)

Accepts(s, f) ==
  CASE f.type = "user"              -> CanUser(s, f)
    [] f.type = "assistant"         -> CanAssistant(s, f)
    [] f.type = "synthetic"         -> CanSynthetic(s, f)
    [] f.type = "result"            -> CanResult(s, f)
    [] f.type = "compaction"        -> CanCompaction(s, f)
    [] f.type = "runStarted"        -> CanRunStarted(s, f)
    [] f.type = "compactionStarted" -> CanCompactionStarted(s, f)
    [] f.type = "stepAttempt"       -> CanStepAttempt(s, f)
    [] f.type = "stepFailed"        -> CanStepFailed(s, f)
    [] f.type = "toolStarted"       -> CanToolStarted(s, f)
    [] f.type = "abortRequested"    -> CanAbortRequested(s, f)
    [] f.type = "operationFinished" -> CanOperationFinished(s, f)
    [] f.type = "usage"             -> CanUsage(s, f)

Apply(s, f) ==
  CASE f.type = "user"              -> DoUser(s, f)
    [] f.type = "assistant"         -> DoAssistant(s, f)
    [] f.type = "synthetic"         -> DoSynthetic(s, f)
    [] f.type = "result"            -> DoResult(s, f)
    [] f.type = "compaction"        -> DoCompaction(s, f)
    [] f.type = "runStarted"        -> DoRunStarted(s, f)
    [] f.type = "compactionStarted" -> DoCompactionStarted(s, f)
    [] f.type = "stepAttempt"       -> DoStepAttempt(s, f)
    [] f.type = "stepFailed"        -> DoStepFailed(s, f)
    [] f.type = "toolStarted"       -> DoToolStarted(s, f)
    [] f.type = "abortRequested"    -> DoAbortRequested(s, f)
    [] f.type = "operationFinished" -> DoOperationFinished(s, f)
    [] f.type = "usage"             -> DoUsage(s, f)

(* The states a line leads to: one, or none if some fact of it is refused.  *)
ReduceLine(s, facts) ==
  LET after[n \in 0..Len(facts)] ==
        IF n = 0
          THEN {s}
          ELSE {Apply(p[1], p[2]) :
                  p \in {q \in after[n - 1] \X {facts[n]} :
                           Accepts(q[1], q[2])}}
  IN  after[Len(facts)]

=============================================================================
