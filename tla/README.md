# A verification project for tiny-agent (Rust)

tiny-agent is a terminal coding agent. It keeps a conversation with a model
provider in a *session file*, runs the tools the model calls, compacts the
conversation when it grows, and, after a crash, resumes from the file alone.
The repository has four implementations of one design
(`src/docs/session-design.md`); this project models the Rust one
(`src/rust/src`). Its core is a durability protocol: what is written to the
file before and after every effect, what a reader of the file accepts, and
what a restarted process does with an unfinished operation.

## 1. Inventory

| part | state | operations | what makes it correct |
|---|---|---|---|
| **Session reducer** `session/reducer.rs` | the reduced session: entries, active context, operation, attempts, tools, reserved identities, usage | one `apply_*` per fact; a line is a transaction | two copies of the operation and of each attempt agree; an open attempt is current; intents and results pair up; what ended stays ended |
| **Session facts** `session/facts.rs` | none | a constructor per fact | the facts are those the reducer reads |
| **Session store** `session/mod.rs` | the bytes, the reduced state, the file's cursor, clones of the handle, the registry of writers | create, open (cuts a torn tail), append, close, drop, four conditional appends | a transaction is all or nothing; what was acknowledged stays; one handle writes; the conditional appends decide under the lock |
| **Recovery planner** `session/recovery.rs` | none | `plan_recovery` | the plan follows from the file and the process's declarations; never a blind replay |
| **Durable run** `lib.rs` 725–895 | `messages`, the current operation, step, attempt | admit, request, settle, finish, next step | every request has an open attempt in the file; the next step waits for all results |
| **Durable tools** `lib.rs` 897–1196 | started tool, cancel flag | intent, second look at the abort, effect, result | no effect without an intent, at most one effect of a tool that must not be replayed |
| **Compaction** `lib.rs` 1725–2048 | the split of the transcript | start, admit, summarise, settle, finish | the context is a summary and a suffix, nothing lost in between |
| **Abort coordination** `lib.rs` 392–464, 632–662; `terminal.rs` 338–392 | `AbortCoordination`, condition variable, cancel flag | request, wait, publish, cancel | an abort reaches the file once and ends the operation; no thread waits for ever |
| **Recovery loop** `lib.rs` 1198–1504 | none beside the file | one action per plan | ends; the process takes a prompt only when the file is idle |
| **Command line, terminal** `main.rs`, `terminal.rs` | the prompt loop | prompt, `/compact`, Esc, exit | an error ends the process |
| **Bash tool** `lib.rs` 2655–2792 | the child and its group, two pipes and their readers, deadline | spawn, watch, kill, read to the end, reap | all output up to the cap is returned; nothing of a stopped command goes on; it returns |
| **Background processes** `lib.rs` 2356–2634 | metadata files, table of children | start, list, status, logs, stop, close at exit | what is said to have ended has; only the command itself is signalled; an ordinary exit leaves nothing running |
| **MCP client** `mcp.rs` | command queue, closed flag, thread, connection | start-up with a timeout, call, cancel, close | every call gets one answer that is true; close returns with the thread ended |
| **Lifecycle, telemetry** `lifecycle.rs`, `telemetry.rs` | open operations, model attempts and tools; spans | events from committed facts and observations; close | starts and ends pair up; what is reported is what the file says |
| File tools `lib.rs` 2793–2958 | none | read, limit, edit | ranges and byte limits |
| TypeScript, Go and Python ports; evaluation; book | | | not modelled |

**How they interact.** The terminal thread starts a worker thread per prompt.
Both hold the session: the worker appends, the terminal thread appends one
`abortRequested` and then sets the cancel flag. Every append is reduced under
one mutex before it is written. After a crash another process reads the file,
reduces it, and alternates `plan_recovery` and one append or effect until the
file is idle. What the process declares then (tools, policies, environment,
model) may differ from what it declared before.

**What is hard here.** Two threads that look at the abort state at different
times; crashes between intent, effect and result; a restart with other
declarations; two copies of one fact in the reducer, and of the conversation
beside the file; transactions that the reducer may refuse, which ends the
process. `PROJECT.json` lists each hazard at its line.

## 2. The modules

| module | models | state and actions |
|---|---|---|
| `SessionReducer` | `reducer.rs` | no variables. `State` is `InternalState`; per fact `CanX(s, f)` (the checks) and `DoX(s, f)` (the assignments); `ReduceLine` folds a line |
| `ReducerLog` | every file the reducer accepts | `s`, the reduced state; one action per fact, with any fact over the identities in use. `outcome` is a history |
| `SessionProtocol` | what a file promises its reader | the current operation, its open attempt, its pending tools, whether it is being aborted, and how operations ended. `ReducerLog` implements it |
| `SessionFacts` | `facts.rs` | the constructors |
| `Recovery` | `recovery.rs` | `Plan(s, now)`, one operator per branch |
| `DurableAgent` | `lib.rs`, the conditional appends of `session/mod.rs`, the Esc loop of `terminal.rs` | below |
| `Lifecycle` | `lifecycle.rs`, the span bookkeeping of `telemetry.rs` | no variables: what one line, or one observation, makes known, and the spans that result |
| `ObservedAgent` | `DurableAgent` with its observers | `life`, `spans`, `published`, `heard`; a step of the agent is heard in the same step, as the code calls the observers under the lock of the store (`session/mod.rs:588`), unless the process dies between the line and its observers (`Unheard`: then it can only die) |
| `SessionStore` | `session/mod.rs` | the bytes of the file, per handle its `StoreInner`, its clones and those being dropped, the registry; `AppendCommits`, `AppendFails`, `CrashInAppend` split an append by how much of the line reached the file; a handle whose append failed may append again. `spoiled` is a history: a whole line was written behind a torn one |
| `DurableLog` | what the design promises of a session file | a log of transactions that only grows, until a caller damages it. `SessionStore` implements it |
| `BashTool` | `run_bash`, `spawn_reader`, `kill_group` | the shell, the processes it leaves, the pipes, the two readers, each of which may stop at a read that fails, and the watch loop `at` |
| `McpClient` | `mcp.rs` | the loader, the thread, the queue, the callers, `close`, and the server |
| `ToolExecution` | `execute_durable_tool` around either of the two | the worker, the cancel flag both tools share, the result that is recorded |
| `BackgroundProcesses` | the `bg` tool and `close_background_processes` | the process table of the system, the metadata files, and per agent its children and where its call is; each answer of `ps` may be missing |
| `SessionReducerProofs` | | lemmas of the reducer: each fact keeps `Sound` (types, one unfinished operation, references) and `Ledger` (which attempt, answer, call and result belong to what) |
| `SessionLineProofs` | | each fact keeps `Good` (the transcript and its calls); then the same for a whole line, what lines of some facts leave alone, and what a fact opens and closes for an observer |
| `ReducerLogProofs` | | the theorems of `ReducerLog` and its refinement of `SessionProtocol` |
| `DurableAgentProofs` | | the theorems of `DurableAgent` and their two inductive invariants: what the worker relies on at each place, and which calls are open there |
| `ObservedAgentProofs` | | the theorems of `ObservedAgent` and its inductive invariant: what the lifecycle and the spans hold is what is open in the file |
| `SessionStoreProofs`, `ToolExecutionProofs`, `BackgroundProofs` | | the proofs of the module each is named after |
| `MC*` | | the small instances for TLC |

Which composes which: `ReducerLog`, `Recovery` and `DurableAgent` are built on
`SessionReducer`; `DurableAgent` appends what `SessionFacts` constructs and
recovers by what `Recovery` plans; `ObservedAgent` extends it by `Lifecycle`;
`ToolExecution` refines what `DurableAgent` takes for one step between
`Execute` and `AppendResult`; `SessionStore` refines the atomic append that
`DurableAgent` assumes.

`DurableAgent` has the file as `s` (what it reduces to), the worker as `pc` and
`job` (its local variables), the conversation it will send as `messages` (as
the entries they came from), the abort machinery as `cancel`, `coordination`
and `user` (where the terminal thread is), and the declarations of the current
process as `now`. `committed` is the line of the last append: what the observers
hear. An action is the code between two points at which the other thread or a
crash can tell the difference:

| action | code |
|---|---|
| `TakePrompt`, `AutoCompact`, `StartRun` | the prompt loop, `auto_compact`, `run_durable_model` |
| `AdmitStep`, `CallModel`, `ModelError`, `AbortClose`, `SettleStep`, `FinishRun` | `run_durable_operation`; `ModelError` reads the abort state and `AbortClose` appends, because the code takes the lock twice |
| `PreExecutionResult`, `StartTool`, `CheckStarted`, `Execute`, `ToolReturns`, `ToolAbort`, `AppendResult`, `ToolAborted`, `NextStep` | `run_durable_tools`, `execute_durable_tool` |
| `StartCompaction` … `FinishCompaction` | `compact`, `run_compaction_attempt` and the conditional appends of the store |
| `RecoveryDone` … `RecoverFinish` | one per action of the planner |
| `Esc`, `Request`, `Cancel` | `Terminal::run`, `AbortHandle::request`, then the flag |
| `Crash`, `Quit`, `Restart` | the process |

*A refused append.* `CommitOr(facts, Then, Else)` is `append_locked`: if the
reducer refuses the line nothing is written and the caller's error path
follows. In most places that error reaches `main`, which ends the process
(`Exit`); in an automatic compaction `auto_compact` drops it and the prompt is
sent.

*Abstractions.* Texts, digests and record identities that nobody names are left
out; a digest is the value it was computed from. A tool's effect is a counter.
The provider answers with any member of `Answers`. The token threshold of
`auto_compact` is a choice. UUIDv7 identities are taken in ascending order; they
are 128 bits, so there are finitely many and the n-th free one is well defined.
`SessionStore` has a line as its text and its line feed; a torn write leaves
nothing, a part of the text, or all of it. `BashTool` counts bytes; that a
cancelled command returns an empty text (`lib.rs:2695`), and what
`limit_output` cuts afterwards, are left out. The start time by which `bg` tells
processes apart is the number of their life, and `known` says whether `ps` gave
it; a process that may not be signalled (`kill(pid, 0)` fails) is one `ps` is
silent about. A failed attempt whose error code is `aborted` is published by the
code as cancelled; the fact of the model has no code, and `Lifecycle` says
failed. How a tool ended (succeeded, failed, cancelled: `lifecycle.rs:480-493`) is
one outcome there, `written`.

*Operators called "A bug"* are not used by any specification: each is the form a
definition would have with one plausible mistake in it, kept as a record of
what the properties would notice (`mutants` in `PROJECT.json`).

## 3. What the runs check

**The reducer**, over every file it accepts, whoever wrote it:

* `reducer_log` — all logs of seven identities (a prompt, a run with a retried
  step and an answer; a prompt and a compaction with its summary and an abort;
  and whatever another writer might add after it), and, up to ten identities,
  all logs of one run with one prompt, answers with up to two calls (two with
  the same ID among them) and no usage facts: two started tools with their
  results fit, as does a tool, its result and a final answer. Safety of the
  attempts (`OneUnfinished`, `OpenAttemptIsCurrent`, `FinishedIsFinal`), of the
  tools (`IntentMatchesResult`), of the conversation (`CompletedRunAnswered`),
  and `ImplementsProtocol`: the map sends the reduced
  state to the current operation, open attempt, pending tools, abort and
  outcomes, and every accepted fact is a step of `SessionProtocol` or none.

  The logs stop when the identities are used up, hence `CHECK_DEADLOCK FALSE`.
  `Offered <- Least` lets a log use free identities in order: the reducer only
  compares them, so any other log is a renaming.

**The agent and its observers** (`ObservedAgent`; a deadlock would be an error
and is checked):

* `agent_tools` — one prompt, two tool calls (one replayable), one Esc at any
  point, two crashes, and five declarations a restarted process may have
  (model, environment, replay key, missing tool). Two crashes reach a crash
  during recovery from a crash, and a process that dies after a line, with or
  without its observers having heard of it. `NeverReplayOnce`, `EffectNeedsIntent`,
  `ReplayMatches`, `NoIntentAfterAbort`, `FinishedAnswered`, `JobIsCurrent`; of
  the observers, `SpansFollowFile` and `EndIsPublished`: the end of an operation
  is published in the step that writes it and at no other, if the process lives.
* `agent_compaction` — three prompts, each of which may be `/compact` or be
  preceded by an automatic one, with `Keep = 1` message kept instead of 6: two
  compactions in one file, the second over the summary of the first. `MaxUsage = 3`
  lets three answers or summaries be charged and refuses a fourth. What the
  context is (`ContextIsTail`, `NothingLeftOut`), what is charged and reported
  (`ChargedOnce`, `UsageReported`), what is sent (`SentIsContext`), and that the
  waiting terminal is released (`WaiterReleased`, liveness).
* `agent_answers` — every shape of an answer, two Escs and a crash. `RefusedOnly`
  says when the worker tries to write what the reducer refuses: an answer no
  session can hold, a step after a last or cut-off answer, a call that recovery
  starts although the old configuration did not declare it, a second abort
  request, and usage at its limit: `MaxUsage = 2`, so that a third answer of the
  run is refused with its usage (`reducer.rs:1988`). The cases of `UsageFull` for
  a summary, and for a prompt after one, need a compaction, which this run has
  not. `AnswerReported`, `EndsAreTrue`; liveness `AbortEnds`, `RecoveryEnds`.

`Reserve` is a bound: a prompt, an answer with calls, or a crash only comes
while that many identities are left, so no action runs out of them.

**The store**: `session_store` — three transactions of one or two facts, two
handles with two clones each, two crashes, each at any byte that matters, and no
write that fails once the file has seven units (`MaxUnits`: room for the header,
three lines and a torn one, or for fewer lines and more torn ones). `SoleWriter`,
`MemoryIsFile`, and `ImplementsLog`: the log a reader finds in the bytes is that
of `DurableLog`, with a reopened torn file, a failed append, and a crash that
leaves the whole line, among the steps. Nothing is assumed of callers: they may
append again after a failed append, as `auto_compact` does (`lib.rs:1731`). What is
torn then stays torn, and the first *whole* line behind it spoils the file
(`spoiled`); from then on `MemoryIsFile` and `DurableLog` promise nothing, and
`torn_write` shows what is lost. The handles, and the two transactions of one
fact, are interchangeable (`SYMMETRY Alike`). `CHECK_DEADLOCK FALSE`: when two clones are
dropped at once each sees the other's reference, the path stays registered,
and nothing can be opened again (the hazard at `mod.rs:541`).

**The tools**: `tool_execution` — bash with one process beside the shell (it may
leave the group, keep or close each pipe), two bytes written, chunks of two and
a cap of one, so that a chunk is cut in the middle, and reads that may fail; or
one MCP call with start-up, cancel, timeout and close at any time. `NothingLost`,
`NothingLeftRunning`, `AnswerTruth`, `RecordedTruth`; liveness `Returns`,
`CallAnswered`, `CloseReturns`. `CHECK_DEADLOCK FALSE`: a tool that has returned
and a client that is closed have nothing left to do.

**Background processes**: `background` — two agents in one directory, one process
number and three lives of it, so that a number is used again by a foreign
program and by another command; every agent may end, crash, or stop between
any two system calls, and `ps` may give no answer to any question. Then a command
that runs is reported as exited or stale, is not stopped, and is left running by
an ordinary exit (`lib.rs:2400`, `2432`, `2532`): `EndedIsEnded` excepts a report made
without an answer, now or when the command was started (`blind`), and
`CloseLeavesNone` a command whose start time `ps` never gave (`known`) or that it
was silent about when close looked (`unseen`). `SignalsOwn` has no such exception.
`CHECK_DEADLOCK FALSE`: the agents end.

Disagreements with the repository's own words (`expect: violation`):

* `settled_retry` — attempt 2 of a compaction step is accepted after attempt 1
  settled, because `apply_compaction_entry` does not update the second copy of
  the attempt. The worker never writes such a file.
* `sent_is_context` — after an aborted tool the same process sends a
  conversation without the results the file holds.
* `esc_drops_prompt` — Esc late in an automatic compaction is lost.
* `final_answer` — a crash between the final answer of a run that used a tool
  and its terminal record: the planner starts another step, the reducer
  refuses, and the session cannot be resumed.
* `torn_write` — an append that fails in the middle of its line leaves the part
  in the file; `auto_compact` drops the error and the prompt appends behind it:
  the file does not reduce any more, and with it acknowledged transactions are
  lost.

Read in the code and not checked by a run:

* What `RequestWritten` in `RefusedOnly` stands for, and `agent_answers` reaches:
  the worker reads that the file has no abort request (`lib.rs:779`, `lib.rs:1131`), a second
  Esc writes one, and the worker's transaction, which holds its own, is refused:
  the prompt ends with an error and the run stays unfinished, where README.md:82 has Esc
  abort it. One Esc cannot do it, because the flag that sends the worker there is
  set after the request; but an Esc between an automatic compaction and the run
  finds no operation and sets the flag without a request. The compaction writes
  its request under the lock (`append_abort_if_active`) and is not exposed.
* The reducer lets a *failed* run close with unanswered calls
  (`SessionProtocol`'s `End` allows it); the planner compares the definition of a
  started tool, not the whole configuration digest, before a replay
  (`ReplayMatches` states what it does ensure); an abort request makes recovery
  finish a compaction as `aborted` although its summary is in the context.
* `docs/lang-behavior-matrix.md:18` has the output cap of bash kill the group;
  `spawn_reader` only drops what is over it.
* The matrix has a timeout and a cancel end the tool. Once the shell itself has
  ended, `run_bash` looks at neither while a `cmd &` holds the pipe open: that
  is `HeldOpen`, the exception in `Returns`.
* Output that was cut off carries the note of the cut and not that of a timeout.
* The results recovery writes for interrupted tools publish no `tool.completed`.
* README.md:132 publishes an event once its line is accepted. A process that dies between
  the write (`session/mod.rs:584`) and the observers (`589`) leaves an end that no process
  ever publishes: the restarted one finds the file idle.
* A `ps` that is missing or fails: see `background` above. No document says what `bg`
  does without it.
* A read of the output of bash that fails ends the stream like its end, and no note
  says so (`lib.rs:2777`).

## 4. Fairness

`ObservedFairSpec` (and `FairSpec`) has weak fairness of the worker and of the
terminal thread as wholes. Each is one thread and at every point has one thing
to do. The worker is released from a request by its timeout; the terminal
thread blocks on the condition variable only, and then `Terminal` is not
enabled. A process that dies between a line and its observers does die: the model
has it in two steps, and the second is fair. Nothing else is assumed of crashes, nor
of prompts, Esc or restarts. One
assumption is about the environment: a started tool returns. `ToolExecution`
says when it does: bash returns unless a process it did not kill holds a pipe
open (`Returns`), and an MCP call returns whatever the server does
(`CallAnswered`). `RecoveryEnds` stops at the next request of the provider,
since the number of steps a provider asks for is not bounded by the code.

`ToolExecution` has weak fairness of the worker, of the watch loop, the two
readers and the clock of bash, and of the threads of the client. Nothing is
assumed of the command, of reads that fail, of the server, of Esc, or of a connection being made:
the deadline and the timeouts are actions that become possible, and fairness
says that time passes.

## 5. What is proved

`ReducerLogProofs` proves for all identities, calls, tools, configurations,
usage limits and logs of any length:

* `TypeCorrect`, `OneUnfinishedAlways`, `ReferencesAlways`
* `OpenAttemptIsCurrentAlways`, `IntentMatchesResultAlways`, the action properties
  `FinishedIsFinalAlways` and `CompletedRunAnsweredAlways`
* `ProtocolImplemented`: `Spec => ImplementsProtocol`, the refinement of
  `SessionProtocol`

*The argument* is the inductive invariant of `Invariance`, in three layers of
lemmas about one fact. `Sound` (`SessionReducerProofs`): `TypeOK` is not
inductive, because that an update keeps the state typed needs that the things it
looks up are there, for instance that the operation a fact names is the
current one and that its current attempt exists. Those are `OneUnfinished` and
`References`; none of the three is inductive without the others. The facts fall
in two groups: those that leave the registers and the identity of every attempt
alone, for which one lemma does all the work, and those that start or finish an
operation or an attempt (`...Agrees`).

`Ledger` (the same module): the thirteen facts are reduced to ten effects and
the end of an operation (`Effect`): what the reducer checked and what it changed,
without how. The delicate part is the retry: the reducer decides it on a copy of the
attempt in the step list, which a compaction entry and a superseded attempt leave
open (`CopyLags`). That this never reopens anything needs that a compaction has one
step only (`OneCompactionStep`) and that an operation without a step has no attempts
(`StepNamed`). `AnswerIsLast` says that the answer of the latest step is the
current one and that nothing is open after a last answer, from which a completed run
has answered every call. `ToolPaired` says that a result identity belongs to one
tool. In the refinement every effect is one action of the protocol or none;
that a new step follows no pending tool is the case that needs all of it.

`Good` (`SessionLineProofs`) adds what the calls of the conversation need. The reducer
checks the transcript by a fold, the calls that are still open after each message;
about the fold itself nothing can be proved by induction over a sequence, so the
invariant names its value: `TranscriptSide` says that the calls the transcript
leaves open are exactly `unanswered`, and that each message is legal after those
before it. It needs `CallSide` (the calls of an answer
differ, a tool names the call it was started for, and a call is unanswered exactly
when nothing has answered it). `CompletedRunAnswered`, and everything the agent's
proofs say of calls, rest on the two. `SettledSide` and `OrderSide` are there
for `DurableAgent`: a settled attempt is closed and has its own answer, and each
entry is in the file once, the messages in its order.

*Assumptions.* `MaxUsageAssumption`; `NoneAssumption` (an absent value is none of
the values it stands in for); `OfferedAssumption`; `CallListsAssumption`;
`OutcomeAssumption` (an absent outcome is none of the outcomes).

`DurableAgentProofs`, for any identities, calls, declarations, answers, processes
and number of crashes:

* `TypeAlways` (types only); `JobAlwaysCurrent`, `NeverReplayedTwice`, `AlwaysChargedOnce`,
  `ContextAlwaysTail`
* the action properties `EffectsNeedIntents`, `ReplaysMatch`, `NoIntentsAfterAbort`

*The argument.* `Invariance`: the invariant `IInv` has a part for the file and one
for each thing the worker relies on between two of its steps.

| part | says |
|---|---|
| `FileInv` | the session is `Good`; the context is the last summary and a suffix (`TailSide`); each kept answer is charged (`Charged`) |
| `OperationFits`, `ContextFits` | the operation the worker has in `job` is the current one, while it is anywhere in it |
| `AttemptFits` | at the provider, its attempt is the open one of the current step |
| `AnswerFits` | among the tools, the answer it works through is the one of the current step, and `index` is in it |
| `ToolFits` | the tool it started is in the file; before it executes, the tool is pending, and was not executed before unless it may be replayed here |
| `EffectsFit` | what was executed was started, and once if it must not be replayed |
| `UserFits` | nobody presses Esc while a session is recovered or the process is down |
| `CompactedFits` | what the last compaction cut is an entry |

Every append goes through the same few lemmas: a line is a sequence of facts, each
of which keeps `Good`, and `Keeps` says what a line leaves alone that has no fact of
certain types (`LineKept`: no tool fact, no new tool; no `assistant` or `compaction`
fact, the same charges; only facts that name no step, the same operation, step
and attempts). So what the worker knew before Esc wrote its request it still
knows after it. Then there is one lemma per action, `…Keeps` where it goes on
working and `…Rests` where it ends in a place without a job. Recovery is the
case that needs the planner: `PlanFits` says of each action `Plan` can return
that the operation, step, attempt, tool and entries it names are in the
session, which is why the first append of a recovered process is accepted.

*Assumptions*: those above; `SetupsAssumption` and `AnswersAssumption` (declarations
and answers are of their types); `BoundsAssumption` (identities are finitely many
numbers; the bounds are numbers).

In the same module, from the same assumptions:

* `FinishedAlwaysAnswered`: `Spec => FinishedAnswered`
* `NothingIsLeftOut`: `Spec => []NothingLeftOut`

*The argument.* `CallInvariance`: `IInv` with `JInv`, which says what is open.
`IInv` alone does not give either property: the worker finishes a run when its own
count (`job.index`) has passed the last call of the answer in its memory, and
recovery when the planner finds no open call in the transcript; a compaction keeps
what its own sequence said, and the reducer cuts the file at the entry that the
started fact names.

| part | says |
|---|---|
| `OpenSide` (of `SessionLineProofs`) | an open call belongs to the answer that settled the current step, and that answer is the last that asked |
| `CallsFit` | before a new step and before the end of a run no call is open; among the tools, those before `index` are not, and the started tool is of the call at `index` |
| `AdmitFits` | a compaction asks the provider only for a summary it does not have |
| `CutFits` | while a compaction has no summary, what the reducer would keep after `compacted` is the context without the messages sent to be summarised |

`OpenSide` is a fact of the file, so it is kept by the same lemmas on lines as the
rest (`KeepsOpen`): whatever lines Esc puts between two of the worker's, no call
that was answered opens again and none is asked for by another answer. However an
operation ends, its step is not settled, or the worker has gone through the calls
of its answer, or results for the calls that are left are in the same line as its
end (`SkippedSides`, by induction over the calls of the answer).

`ObservedAgentProofs`, for `ObservedSpec` and the same constants:

* `SpansAlwaysFollow`, `EndsAlwaysTrue` (of model attempts and of tools; how an
  operation ended is in `EndIsPublished`)
* the action properties `EndAlwaysPublished`, `UsageAlwaysReported`,
  `AnswerAlwaysReported`

*The argument.* The agent does not read its observers, so `IInv` and `JInv` hold of
`ObservedSpec` too. The observers go through a line fact by fact, with its first and
last facts told apart, so the argument has three levels. One fact: `Follows` says
what it opens and closes in the session, `Hears1` what the lifecycle publishes and
holds after it, and `Seen` that what is held, with the spans, is what is open. One
line: the folds of `Lifecycle` name their values step by step (`CommitFold`,
`ChargeFold`, `RecordFold`, by `SetInduction`), and `LineTold` is what a line does to
all three. `FitsFile` says which facts may stand where in a line, and a lemma per action
(`…Placed`) shows that it appends such a line or none: that is where the places of
the worker come in, since an attempt that closes without the lifecycle having heard
that it opened would leave a span. One step: `OInv` (`ObservedInvariance`). A line that
nobody hears, because the process dies first, leaves no lifecycle to be wrong; what
the invariant says of a running process is said of one that has heard the last line.

| part | says |
|---|---|
| `PInv` | an attempt is open only where the worker or recovery is at it |
| `OpenFits` | an open attempt belongs to an unfinished operation and has no answer |
| `Sees` | the operation, the attempts and the tools held are open in the file, the spans are open exactly for what is held, and a span that ended did so as the file says |
| `ModelsAt`, `AllAt`, `ToolsAt` | where the lifecycle holds attempts; a process that does not recover has heard every open attempt; a tool is held while it executes |
| `EndsAreTrue` | of a process that has ended, all that is left to say |

`SpansFollowFile` also needs `JInv`, for the tool the worker is at, and `AnswerInv` (a
tool names the operation of the answer it was started for). The usage and the answer
that are reported need `RInv`: the lifecycle knows every open attempt and every answer
of an operation this process started (`Knows`), and has counted its answers
(`UsageKnown`). That a line charges as much as the lifecycle counts is not read off the
reducer's arithmetic: `Charged` holds before the line and after it, so the charge is
the difference, and it is of the operation whose attempt the line settles.

*Assumptions*: those of `DurableAgentProofs`, and `ObserversAssumption` (an absent
value is none of the records the observers keep).

`SessionStoreProofs`, for any number of handles, clones, transactions, facts in
them, and crashes, and callers that may append again after an append that failed:

* `TypeCorrect`, `SoleWriterAlways`
* `MemoryIsFileAlways`; `LogIsImplemented`, the refinement of `DurableLog`;
  `AckedIsKeptAlways`: `Spec => [](spoiled \/ AckedIsKept)`, what was acknowledged is
  kept unless a whole line was written behind a torn one. The run `torn_write` shows
  that the exception is reached and that what it excepts is lost.

*The argument.* `StoreInv` adds to the types and to `SoleWriter` that a handle
that lives has its path in the registry: without it an open could not tell that
there is a writer. `FileInv` has two parts. The file is always a stub without a
first line, or a sequence of whole lines and torn parts, if any, behind it (`Shaped`); and an open handle has in
memory exactly what a reader finds before the torn parts, and its cursor at the end
of the file (`Follows`). It holds until the file is spoiled (`ShapedUnlessSpoiled`,
with `spoiled` never going back). An append at that cursor cannot tear what is
there, a repair cuts at the last line feed, and both leave what a reader finds
either alone or one transaction longer (`LogStep`).

`ToolExecutionProofs`, for any number of processes beside the shell, of calls,
any cap, chunk size and output:

* `TypeCorrect`, `NothingLostAlways` and `NothingLeftRunningAlways` (a stream one of
  whose reads failed is excepted), `AnswerTruthAlways`, `RecordedTruthAlways`

*The argument.* `Counts`: at any time a reader has kept what was written and is
not in the pipe any more, cut at the cap; unless a read failed, it has sent only
at the end of a pipe
that nobody can open again, because only the running shell forks. `Stages`: what
is known of the shell, its group and the readers at each place of the watch
loop. `Served` and `Told`: a command of the queue is a waiting call, once, and a
call without an answer of the thread has not reached the server unless it is
the one being served. `WorkerInv` carries a truth about the tool from its
return to the record: it cannot be undone by Esc, by what the command left
behind, or by the server.

`BackgroundProofs`, for any number of agents, process numbers and lives:

* `TypeCorrect`, `EndedIsEndedAlways`, `SignalsOwnAlways`, and the action property
  `CloseLeavesNoneAlways`, whatever `ps` answers, with the exceptions of section 3

*The argument.* A number stays taken until the agent that has the child reaps
it (`Holds`), so what such an agent signals is the life it started; what the
metadata calls ended has ended, and no other number has had that life
(`Files`); every command that runs and is in the metadata is in the table of
the agent that started it (`TableOf`), and while the agent closes, still on its
list, being stopped, or one that `ps` was silent about (`ClosingOf`).

*Assumptions* of these three: caps and bounds are numbers, and the values that
stand for an absent one, for bash and for the close command are none of the
others.

Only model-checked. `SentIsContext` is an invariant of one run, and does not hold
of every instance (`sent_is_context`), so there is nothing to prove. For
`RefusedOnly` each line of the worker must be shown to be accepted, not only to do
what it should where it is. Out of the prover's
reach: liveness (`Returns`, `CallAnswered`, `CloseReturns`, `WaiterReleased`,
`AbortEnds`, `RecoveryEnds`), which depends on fairness, and what the folds of
`SessionReducer` (`ReduceLine`, `ValidTranscript`) compute for every input.

## 6. Not modelled

Left out of the modelled parts: Ctrl-C (it requests an abort, waits for the
worker and exits), an I/O error of an append inside a run (`SessionStore` has
it, `DurableAgent` does not), the failure of an abort request, reading the
arguments back in a replay, two processes on one file. A terminal that leaves by an
I/O error (`terminal.rs:378`) while its worker is in a `bg` call, so that
`close_background_processes` runs beside that call (`main.rs:173`): in
`BackgroundProcesses` an agent closes after its call is over, and the two locks of
`refresh_bg_meta` are one step, as nothing else of the agent runs. MCP tools are never
replayed; in `DurableAgent` they are tools with policy `never`. Of telemetry
the spans of start-up and of MCP connections; of `mcp.rs` the parsing of the
configuration and of the schemas.

Not modelled at all: the file tools (pure functions over text and single calls
of the file system), the loop without a session (nothing is persisted), the
provider's HTTP, the terminal's line editing and rendering, the other three
ports, the evaluation suite. `PROJECT.json` names them with the reason.

## 7. Plan

Done: the reducer, its logs and their protocol; the agent with its recovery,
compaction and abort; its observers; the store down to bytes; the tools that
run beside the worker; the proofs of section 5.

Left, in order of importance: that every line of the worker is
accepted (`RefusedOnly`); the append error of `SessionStore` as a fault of
`DurableAgent`; the pure algorithms of the file tools and
of the compaction cut against reference definitions.
