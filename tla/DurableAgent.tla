----------------------------- MODULE DurableAgent -----------------------------
(***************************************************************************)
(* One agent process with a session file (rust/src/lib.rs,                 *)
(* rust/src/session/mod.rs): the worker thread that runs a prompt, its     *)
(* tools and compactions, the terminal thread that turns Esc into an abort *)
(* request, crashes, and the recovery that a restarted process runs before *)
(* it takes another prompt.                                                *)
(*                                                                         *)
(* Every transaction is one append under the session's lock: the candidate *)
(* line is reduced, written, and only then becomes the session's state, so *)
(* the file and the reduced state are one variable, `s`.  A crash in the   *)
(* middle of a write leaves a torn line that the next open cuts off: it    *)
(* falls before or after the append.  An action is what the worker does    *)
(* from one observable point to the next; reads of the abort state and the *)
(* appends that depend on them are separate actions where the code takes   *)
(* the lock twice and the terminal thread may come between.                *)
(*                                                                         *)
(* An error that reaches `main` ends the process (a crash for the file).   *)
(***************************************************************************)
EXTENDS Recovery, SessionFacts

CONSTANTS
  Setups,     (* what a process may declare: [config, env, replay, key, mcp] *)
  Answers,    (* what the provider may answer: [stop, calls, text]           *)
  Keep,       (* messages a compaction keeps at least; 6 in the code         *)
  Reserve,    (* bound: free identities a prompt, call or crash must leave   *)
  Prompts, Escs, Crashes          (* bounds: how often each may happen       *)

ASSUME SetupsAssumption ==
  \A now \in Setups :
    /\ now.config \in ConfigurationSnapshot /\ now.env \in Environment
    /\ now.replay \in [ToolName -> {"safe", "never"}]
    /\ now.key \in [ToolName -> ReplayKey] /\ now.mcp \subseteq ToolName
ASSUME AnswersAssumption ==
  \A answer \in Answers :
    /\ answer.stop \in Stop /\ answer.calls \in Seq(Call) /\ answer.text \in BOOLEAN
    /\ answer.stop = "stop" => answer.calls = << >>       (* `parse_model_body` *)
ASSUME BoundsAssumption ==
  /\ Id \subseteq Nat /\ IsFiniteSet(Id)
  /\ {Keep, Reserve} \subseteq Nat \ {0}
  /\ {Prompts, Escs, Crashes} \subseteq Nat

VARIABLES
  s,             (* the session: what the file reduces to                    *)
  committed,     (* history: its last line, as the observers were given it   *)
  compacted,     (* the last entry the latest compactionStarted compacts     *)
  pc, job,       (* the worker: where it is, and what it works on            *)
  messages,      (* the messages it will send, as the entries they came from *)
  cancel,        (* the flag Esc sets last                                   *)
  coordination,  (* AbortCoordination                                        *)
  user,          (* the terminal thread: idle, request, waiting, cancel      *)
  now,           (* what this process declares                               *)
  effects,       (* history: how often each started tool was executed        *)
  pressed,       (* history: Esc was pressed while auto-compacting           *)
  left           (* how many prompts, Escs and crashes may still come        *)

session == <<s, committed>>
file == <<session, compacted>>
abort == <<cancel, coordination, user>>
history == <<effects, pressed>>
vars == <<file, pc, job, messages, abort, now, history, left>>

NoJob ==
  [op |-> None, context |-> None, step |-> None, number |-> 1,
   attempt |-> None, answer |-> None, assistant |-> None, index |-> 1,
   last |-> None, tool |-> None, summary |-> "none", flag |-> FALSE,
   auto |-> FALSE, direct |-> FALSE, recovering |-> FALSE]

TypeOK ==
  /\ s \in State
  /\ compacted \in Id \cup {None}
  /\ pc \in {"idle", "prompt", "compact", "admit", "summarize", "summaryError",
             "settle", "finishCompaction", "start", "step", "model",
             "modelError", "abortClose", "answered", "finishRun", "tools",
             "started", "execute", "executing", "toolAbort", "toolResult",
             "toolAborted", "recover", "down"}
  /\ messages \in Seq(Id)
  /\ cancel \in BOOLEAN
  /\ coordination \in {"Waiting", "DurableReady", "NonDurable"}
  /\ user \in {"idle", "request", "waiting", "cancel"}
  /\ now \in Setups
  /\ effects \in [Id -> Nat]

-----------------------------------------------------------------------------
(* Identities and appends *)

FreeIds == {i \in Id : Free(s, i)}
Room(n) == Cardinality(FreeIds) >= n

(* The identities a transaction allocates: those of UUIDv7 ascend.          *)
New(n) == Nth(FreeIds, n)

(* The process ends; the file is what is left of it.                        *)
Exit ==
  /\ pc' = "down" /\ job' = NoJob /\ messages' = << >>
  /\ cancel' = FALSE /\ coordination' = "Waiting" /\ user' = "idle"

(* `append_locked`: a transaction must not be empty, and the candidate file *)
(* must reduce.                                                             *)
CommitOr(facts, Then, Else) ==
  LET states == IF facts = << >> THEN {} ELSE ReduceLine(s, facts)
  IN  \/ s' \in states /\ committed' = facts /\ Then
      \/ states = {} /\ UNCHANGED session /\ Else

Commit(facts, Then) == CommitOr(facts, Then, Exit)

Goto(label) == pc' = label
Set(j) == job' = j

(* An operation returns Ok: to the prompt, to the run it was compacting     *)
(* for, or to the recovery loop.                                            *)
Return ==
  IF job.recovering
    THEN Goto("recover") /\ Set([NoJob EXCEPT !.recovering = TRUE])
    ELSE Goto("idle") /\ Set(NoJob)

Finished(outcome, final) ==
  OperationFinished(job.op, s.operation.kind, outcome, final)

(* The `aborted` results of the calls from index k on.                      *)
Skipped(k) ==
  [n \in 1..(Len(job.answer.calls) - k + 1) |->
     SyntheticToolResult(New(n), job.step, job.assistant, k + n - 1,
                         job.answer.calls[k + n - 1])]

-----------------------------------------------------------------------------
(* Taking a prompt (main.rs, `run_agent_loop`, `auto_compact`) *)

TakePrompt ==
  /\ pc = "idle" /\ user = "idle"
  /\ left.prompts > 0 /\ Room(Reserve)
  /\ \E label \in {"prompt", "compact"} : Goto(label)
  /\ Set(NoJob)
  /\ cancel' = FALSE /\ coordination' = "Waiting"
  /\ pressed' = FALSE
  /\ left' = [left EXCEPT !.prompts = @ - 1]
  /\ UNCHANGED <<file, messages, user, now, effects>>

(* The token threshold of auto_compact is a choice here.                    *)
AutoCompact ==
  /\ pc = "prompt"
  /\ \/ Goto("start") /\ UNCHANGED job
     \/ Goto("compact") /\ Set([job EXCEPT !.auto = TRUE])
  /\ UNCHANGED <<file, messages, abort, now, history, left>>

(* A bug: the waiting terminal thread is not notified.                      *)
PublishSilently(state) == coordination' = state /\ user' = user

Publish(state) ==
  /\ coordination' = state
  /\ user' = IF user = "waiting" THEN "request" ELSE user

(* `run_durable_model`: the user message and the run in one transaction.    *)
StartRun ==
  /\ pc = "start" /\ Room(2)
  /\ cancel' = FALSE
  /\ Commit(<<UserMessage(New(1)), RunStarted(New(2), New(1))>>,
       /\ Publish("DurableReady")
       /\ messages' = Append(messages, New(1))
       /\ Goto("step")
       /\ Set([NoJob EXCEPT !.op = New(2), !.context = New(1)]))
  /\ UNCHANGED <<compacted, now, history, left>>

-----------------------------------------------------------------------------
(* The model loop (`run_durable_operation`) *)

(* A bug: the worker goes on with the attempt of the step before.           *)
AdmitStepStaleAttempt ==
  /\ pc = "step" /\ Room(2)
  /\ LET step == IF job.step = None THEN New(2) ELSE job.step
     IN  Commit(<<StepAttempt(job.op, step, New(1), "run", job.number,
                               job.context, now.config)>>,
           /\ Goto(IF cancel THEN "modelError" ELSE "model")
           /\ Set([job EXCEPT !.step = step])
           /\ UNCHANGED <<messages, abort>>)
  /\ UNCHANGED <<compacted, now, history, left>>

(* A request first looks at the cancel flag.                                *)
AdmitStep ==
  /\ pc = "step" /\ Room(2)
  /\ LET step == IF job.step = None THEN New(2) ELSE job.step
     IN  Commit(<<StepAttempt(job.op, step, New(1), "run", job.number,
                               job.context, now.config)>>,
           /\ Goto(IF cancel THEN "modelError" ELSE "model")
           /\ Set([job EXCEPT !.step = step, !.attempt = New(1)])
           /\ UNCHANGED <<messages, abort>>)
  /\ UNCHANGED <<compacted, now, history, left>>

(* The provider answers, or the request fails: an error, a timeout, or the  *)
(* cancel flag, if it is set before the answer is taken.                    *)
CallModel ==
  /\ pc = "model"
  /\ \/ \E answer \in Answers :
          /\ answer.calls # << >> => Room(Reserve)
          /\ Goto("answered") /\ Set([job EXCEPT !.answer = answer])
     \/ Goto("modelError") /\ UNCHANGED job
  /\ UNCHANGED <<file, messages, abort, now, history, left>>

(* The cancel flag tells an abort from a failure; what the file says of the *)
(* abort is read before the closing transaction is built.                   *)
ModelError ==
  /\ pc = "modelError"
  /\ \/ /\ cancel
        /\ Goto("abortClose") /\ Set([job EXCEPT !.flag = s.operation.abort])
        /\ UNCHANGED <<session, messages, abort>>
     \/ /\ ~cancel
        /\ Commit(<<StepFailed(job.op, job.step, job.attempt),
                     Finished("failed", None)>>, Exit)
  /\ UNCHANGED <<compacted, now, history, left>>

AbortClose ==
  /\ pc = "abortClose"
  /\ Commit((IF job.flag
                THEN << >>
                ELSE <<AbortRequested(job.op, "run", "model", None)>>)
             \o <<StepFailed(job.op, job.step, job.attempt),
                  Finished("aborted", None)>>,
       Return /\ UNCHANGED <<messages, abort>>)
  /\ UNCHANGED <<compacted, now, history, left>>

(* A bug: the answer is appended without its usage.                         *)
SettleStepUncharged ==
  /\ pc = "answered" /\ Room(1)
  /\ Commit(<<AssistantMessage(New(1), job.step, job.attempt, job.answer)>>,
       /\ messages' = Append(messages, New(1))
       /\ Goto(IF job.answer.calls = << >> THEN "finishRun" ELSE "tools")
       /\ Set([job EXCEPT !.assistant = New(1), !.index = 1])
       /\ UNCHANGED abort)
  /\ UNCHANGED <<compacted, now, history, left>>

SettleStep ==
  /\ pc = "answered" /\ Room(1)
  /\ Commit(<<AssistantMessage(New(1), job.step, job.attempt, job.answer),
               UsageFact(job.op, job.attempt, 1)>>,
       /\ messages' = Append(messages, New(1))
       /\ Goto(IF job.answer.calls = << >> THEN "finishRun" ELSE "tools")
       /\ Set([job EXCEPT !.assistant = New(1), !.index = 1])
       /\ UNCHANGED abort)
  /\ UNCHANGED <<compacted, now, history, left>>

(* An answer without calls ends the run: completed if it stopped with text, *)
(* failed if it is empty or was cut off.                                    *)
FinishRun ==
  /\ pc = "finishRun"
  /\ IF job.answer.stop = "stop" /\ job.answer.text
       THEN Commit(<<Finished("completed", job.assistant)>>,
              Return /\ UNCHANGED <<messages, abort>>)
       ELSE Commit(<<Finished("failed", None)>>, Exit)
  /\ UNCHANGED <<compacted, now, history, left>>

-----------------------------------------------------------------------------
(* The tools of an answer, in order (`run_durable_tools`) *)

ToolCall == job.answer.calls[job.index]

NotExecuted ==
  \/ job.answer.stop = "length"
  \/ ~Declared(now.config, ToolCall.name)
  \/ ToolCall.args = "text"
  \/ ToolCall.args = "illTyped" /\ ToolCall.name \notin now.mcp

Answered(result) ==
  [job EXCEPT !.index = @ + 1, !.last = result, !.tool = None]

(* A bug: the step's context is not moved on to the last result.            *)
NextStepStaleContext ==
  /\ pc = "tools" /\ job.index > Len(job.answer.calls)
  /\ Goto("step")
  /\ Set([job EXCEPT !.step = None, !.number = 1, !.attempt = None,
                     !.answer = None, !.assistant = None, !.last = None])
  /\ UNCHANGED <<file, messages, abort, now, history, left>>

NextStep ==
  /\ pc = "tools" /\ job.index > Len(job.answer.calls)
  /\ Goto("step")
  /\ Set([job EXCEPT !.context = job.last, !.step = None, !.number = 1,
                     !.attempt = None, !.answer = None, !.assistant = None,
                     !.last = None])
  /\ UNCHANGED <<file, messages, abort, now, history, left>>

PreExecutionResult ==
  /\ pc = "tools" /\ job.index <= Len(job.answer.calls) /\ Room(1)
  /\ NotExecuted
  /\ Commit(<<SyntheticToolResult(New(1), job.step, job.assistant, job.index,
                                   ToolCall)>>,
       /\ messages' = Append(messages, New(1))
       /\ Set(Answered(New(1)))
       /\ UNCHANGED <<pc, abort>>)
  /\ UNCHANGED <<compacted, now, history, left>>

(* A bug: the abort state is not read before the intent.                    *)
StartToolAnyway ==
  /\ pc = "tools" /\ job.index <= Len(job.answer.calls) /\ Room(2)
  /\ ~NotExecuted
  /\ Commit(<<ToolStarted(New(1), job.op, job.step, job.assistant, job.index,
                          ToolCall, now.replay[ToolCall.name],
                          now.key[ToolCall.name], now.env, New(2))>>,
       /\ Goto("started") /\ Set([job EXCEPT !.tool = New(1)])
       /\ UNCHANGED <<messages, abort>>)
  /\ UNCHANGED <<compacted, now, history, left>>

(* A bug: the intent is not appended.                                       *)
StartToolWithoutIntent ==
  /\ pc = "tools" /\ job.index <= Len(job.answer.calls) /\ Room(2)
  /\ ~NotExecuted
  /\ Goto("started") /\ Set([job EXCEPT !.tool = New(1)])
  /\ UNCHANGED <<session, messages, abort, compacted, now, history, left>>

(* The intent of a tool is appended unless the file says abort; otherwise   *)
(* this call and the ones after it are skipped.                             *)
StartTool ==
  /\ pc = "tools" /\ job.index <= Len(job.answer.calls)
  /\ Room(2) /\ Room(Len(job.answer.calls) - job.index + 1)
  /\ ~NotExecuted
  /\ IF s.operation.abort
       THEN Commit(Skipped(job.index) \o <<Finished("aborted", None)>>,
              Return /\ UNCHANGED <<messages, abort>>)
       ELSE Commit(<<ToolStarted(New(1), job.op, job.step, job.assistant,
                        job.index, ToolCall, now.replay[ToolCall.name],
                        now.key[ToolCall.name], now.env, New(2))>>,
              /\ Goto("started") /\ Set([job EXCEPT !.tool = New(1)])
              /\ UNCHANGED <<messages, abort>>)
  /\ UNCHANGED <<compacted, now, history, left>>

Result(t) ==
  ToolResult(s.tools[t].result, s.tools[t].step, t, s.tools[t].call)

(* The abort state is read once more between the intent and the effect.     *)
CheckStarted ==
  /\ pc = "started" /\ Room(Len(job.answer.calls) - job.index)
  /\ IF s.operation.abort
       THEN Commit(<<Result(job.tool)>> \o Skipped(job.index + 1)
                      \o <<Finished("aborted", None)>>,
              Return /\ UNCHANGED <<messages, abort>>)
       ELSE Goto("execute") /\ UNCHANGED <<session, job, messages, abort>>
  /\ UNCHANGED <<compacted, now, history, left>>

(* `execute_durable_tool`.  A tool looks at the cancel flag before it has   *)
(* an effect.                                                               *)
Execute ==
  /\ pc = "execute"
  /\ Goto("executing")
  /\ effects' = IF cancel THEN effects ELSE [effects EXCEPT ![job.tool] = @ + 1]
  /\ UNCHANGED <<file, job, messages, abort, now, pressed, left>>

(* The tool returns.  If it was cancelled and the file does not say abort   *)
(* yet, the abort is appended first.                                        *)
ToolReturns ==
  /\ pc = "executing"
  /\ Set([job EXCEPT !.flag = cancel])
  /\ Goto(IF cancel /\ ~s.operation.abort THEN "toolAbort" ELSE "toolResult")
  /\ UNCHANGED <<file, messages, abort, now, history, left>>

ToolAbort ==
  /\ pc = "toolAbort"
  /\ Commit(<<AbortRequested(job.op, "run", "tool", s.tools[job.tool].call)>>,
       Goto("toolResult") /\ UNCHANGED <<job, messages, abort>>)
  /\ UNCHANGED <<compacted, now, history, left>>

(* In recovery the loop goes on from the result; in a run the result is a   *)
(* message to send, unless the tool was aborted.                            *)
AppendResult ==
  /\ pc = "toolResult"
  /\ Commit(<<Result(job.tool)>>,
       /\ UNCHANGED abort
       /\ \/ job.direct /\ Return /\ UNCHANGED messages
          \/ /\ ~job.direct /\ job.flag
             /\ Goto("toolAborted") /\ UNCHANGED <<job, messages>>
          \/ /\ ~job.direct /\ ~job.flag
             /\ Goto("tools")
             /\ Set(Answered(s.tools[job.tool].result))
             /\ messages' = Append(messages, s.tools[job.tool].result))
  /\ UNCHANGED <<compacted, now, history, left>>

(* A bug: the calls after an aborted one get no result.                     *)
ToolAbortedUnanswered ==
  /\ pc = "toolAborted"
  /\ Commit(<<Finished("aborted", None)>>,
       Return /\ UNCHANGED <<messages, abort>>)
  /\ UNCHANGED <<compacted, now, history, left>>

ToolAborted ==
  /\ pc = "toolAborted" /\ Room(Len(job.answer.calls) - job.index)
  /\ Commit(Skipped(job.index + 1) \o <<Finished("aborted", None)>>,
       Return /\ UNCHANGED <<messages, abort>>)
  /\ UNCHANGED <<compacted, now, history, left>>

-----------------------------------------------------------------------------
(* Compaction (`compact`, `run_compaction_attempt`) *)

(* How many messages of the active context are summarised: all but the last *)
(* Keep, back to a user message.                                            *)
Cut ==
  LET n == Len(s.context)
      cuts == {k \in 0..(IF n > Keep THEN n - Keep ELSE 0) :
                 k = 0 \/ s.entries[s.context[k + 1]].type = "user"}
  IN  CHOOSE k \in cuts : \A j \in cuts : j <= k

Kept == Len(s.context) - Cut
NothingToCompact == Cut = 0 \/ Len(s.transcript) <= Kept

(* The ways a compaction returns.  auto_compact sends the prompt unless the *)
(* compaction was aborted, and drops every error of it; an error of the     *)
(* command ends the process.                                                *)
CompactionOk ==
  /\ IF job.auto THEN Goto("start") /\ Set(NoJob) ELSE Return
  /\ UNCHANGED abort
CompactionAborted == Return /\ UNCHANGED abort
CompactionErr(Then) == IF job.auto THEN Goto("start") /\ Set(NoJob) /\ Then ELSE Exit
CompactionRefused == CompactionErr(UNCHANGED <<messages, abort>>)

(* A bug: the messages to send are not projected again.                     *)
ReprojectNothing == messages' = messages

(* `reproject_idle_session` *)
Reproject == messages' = IF s'.operation = None THEN s'.context ELSE messages

CompactionFailed == CompactionErr(UNCHANGED abort /\ Reproject)

StartCompaction ==
  /\ pc = "compact"
  /\ IF ~Idle(s) THEN UNCHANGED file /\ CompactionRefused
     ELSE \/ /\ NothingToCompact
             /\ Publish("NonDurable")
             /\ IF job.auto THEN Goto("start") /\ Set(NoJob) ELSE Return
             /\ UNCHANGED <<file, messages, cancel>>
          \/ /\ ~NothingToCompact /\ Room(2)
             /\ cancel' = FALSE
             /\ CommitOr(<<CompactionStarted(New(1), s.through, New(2),
                                            Source(s, s.through))>>,
                  /\ Publish("DurableReady")
                  /\ Goto("admit")
                  /\ Set([job EXCEPT !.op = New(1), !.context = s.through])
                  /\ compacted' = s.transcript[Len(s.transcript) - Kept]
                  /\ UNCHANGED messages,
                  /\ CompactionErr(UNCHANGED messages /\ Publish("NonDurable"))
                  /\ UNCHANGED compacted)
  /\ UNCHANGED <<now, history, left>>

(* `admit_compaction_attempt` *)
AdmitCompaction ==
  /\ pc = "admit" /\ Room(2)
  /\ LET step == IF job.step = None THEN New(2) ELSE job.step
     IN  \/ /\ ~s.operation.abort
            /\ CommitOr(<<StepAttempt(job.op, step, New(1), "compaction",
                                      job.number, job.context, now.config)>>,
                 /\ Goto(IF cancel THEN "summaryError" ELSE "summarize")
                 /\ Set([job EXCEPT !.step = step, !.attempt = New(1)])
                 /\ UNCHANGED <<messages, abort>>,
                 CompactionRefused)
         \/ /\ s.operation.abort /\ s.operation.step = None
            /\ CommitOr(<<Finished("aborted", None)>>,
                 CompactionAborted /\ UNCHANGED messages,
                 CompactionRefused)
         \/ /\ s.operation.abort /\ s.operation.step # None
            /\ CompactionAborted /\ UNCHANGED <<session, messages>>
  /\ UNCHANGED <<compacted, now, history, left>>

(* The provider's summary may be missing or invalid.                        *)
Summarize ==
  /\ pc = "summarize"
  /\ \/ \E summary \in {"summary", "invalid"} :
          Goto("settle") /\ Set([job EXCEPT !.summary = summary])
     \/ Goto("summaryError") /\ UNCHANGED job
  /\ UNCHANGED <<file, messages, abort, now, history, left>>

SummaryError ==
  /\ pc = "summaryError"
  /\ LET settle == /\ Goto("settle") /\ Set([job EXCEPT !.summary = "error"])
                   /\ UNCHANGED <<messages, abort>>
     IN  IF cancel /\ ~s.operation.abort
           THEN CommitOr(<<AbortRequested(job.op, "compaction", "compact", None)>>,
                         settle, CompactionRefused)
           ELSE UNCHANGED session /\ settle
  /\ UNCHANGED <<compacted, now, history, left>>

(* `settle_compaction_attempt`: the abort state decides under the lock.     *)
SettleCompaction ==
  /\ pc = "settle"
  /\ \/ /\ s.operation.abort
        /\ CommitOr(<<StepFailed(job.op, job.step, job.attempt),
                      Finished("aborted", None)>>,
             CompactionAborted /\ Reproject, CompactionRefused)
     \/ /\ ~s.operation.abort /\ job.summary = "summary"
        /\ CommitOr(<<UsageFact(job.op, job.attempt, 1),
                      CompactionEntry(s.operations[job.op].result, job.op,
                                      compacted, Retained(s, compacted))>>,
             /\ Goto("finishCompaction")
             /\ UNCHANGED <<job, messages, abort>>,
             CompactionRefused)
     \/ /\ ~s.operation.abort /\ job.summary # "summary"
        /\ CommitOr(<<StepFailed(job.op, job.step, job.attempt),
                      Finished("failed", None)>>,
             CompactionFailed, CompactionRefused)
  /\ UNCHANGED <<compacted, now, history, left>>

(* `finish_compaction` does not look at the abort state.                    *)
FinishCompaction ==
  /\ pc = "finishCompaction"
  /\ CommitOr(<<Finished("completed", s.operations[job.op].result)>>,
       CompactionOk /\ Reproject, CompactionRefused)
  /\ UNCHANGED <<compacted, now, history, left>>

-----------------------------------------------------------------------------
(* Recovery (`resume_session`, `recover_session`), before the first prompt: *)
(* no terminal thread is running.                                           *)

Recovering == [NoJob EXCEPT !.recovering = TRUE, !.op = s.operation.id]
RecoveryPlan == Plan(s, now)
CurrentStep == s.attempts[s.operation.step.attempt].step

Recovers(type) ==
  pc = "recover" /\ ~Idle(s) /\ RecoveryPlan.type = type

RecoveryDone ==
  /\ pc = "recover" /\ Idle(s)
  /\ messages' = s.context
  /\ Goto("idle") /\ Set(NoJob)
  /\ UNCHANGED <<file, abort, now, history, left>>

RecoveryBlocked ==
  /\ Recovers("blocked")
  /\ Exit
  /\ UNCHANGED <<file, now, history, left>>

Again == UNCHANGED <<pc, job, messages, abort>>

(* A bug: the attempt's end is not written.                                 *)
RecoverCloseAttemptUnwritten ==
  /\ Recovers("closeAttempt")
  /\ Again
  /\ UNCHANGED <<file, now, history, left>>

RecoverCloseAttempt ==
  /\ Recovers("closeAttempt")
  /\ Commit(<<StepFailed(s.operation.id, CurrentStep, s.operation.step.attempt)>>,
            Again)
  /\ UNCHANGED <<compacted, now, history, left>>

RecoverSynthetic ==
  /\ Recovers("appendSynthetic")
  /\ LET results == RecoveryPlan.results
         Fact(n) ==
           IF "tool" \in DOMAIN results[n]
             THEN Result(results[n].tool)
             ELSE SyntheticToolResult(New(n), CurrentStep, SettledEntry(s),
                    results[n].index, LastCalls(s)[results[n].index])
     IN  /\ Room(Len(results))
         /\ Commit([n \in DOMAIN results |-> Fact(n)], Again)
  /\ UNCHANGED <<compacted, now, history, left>>

RecoverReplay ==
  /\ Recovers("startTool") /\ RecoveryPlan.mode = "replay"
  /\ Goto("execute")
  /\ Set([Recovering EXCEPT !.tool = RecoveryPlan.tool, !.direct = TRUE])
  /\ UNCHANGED <<file, messages, abort, now, history, left>>

(* The arguments are read back as those of a built-in tool, whatever tool it *)
(* is: an error if they are not.                                            *)
RecoverStart ==
  /\ Recovers("startTool") /\ RecoveryPlan.mode = "start" /\ Room(2)
  /\ LET k == RecoveryPlan.index
         call == LastCalls(s)[k]
     IN  \/ call.args = "illTyped" /\ UNCHANGED session /\ Exit
         \/ /\ call.args # "illTyped"
            /\ Commit(<<ToolStarted(New(1), s.operation.id, CurrentStep,
                          SettledEntry(s), k, call, now.replay[call.name],
                          now.key[call.name], now.env, New(2))>>,
                 /\ Goto("execute")
                 /\ Set([Recovering EXCEPT !.tool = New(1), !.direct = TRUE])
                 /\ UNCHANGED <<messages, abort>>)
  /\ UNCHANGED <<compacted, now, history, left>>

(* A run goes on from the file's active context.                            *)
RecoverStep ==
  /\ Recovers("startStep")
  /\ Goto(IF s.operation.kind = "run" THEN "step" ELSE "admit")
  /\ Set([Recovering EXCEPT !.context = RecoveryPlan.context,
            !.step = RecoveryPlan.step, !.number = RecoveryPlan.number])
  /\ messages' = IF s.operation.kind = "run" THEN s.context ELSE messages
  /\ UNCHANGED <<file, abort, now, history, left>>

RecoverFinish ==
  /\ Recovers("finish")
  /\ Commit(<<OperationFinished(s.operation.id, s.operation.kind,
                RecoveryPlan.outcome, RecoveryPlan.final)>>, Again)
  /\ UNCHANGED <<compacted, now, history, left>>

-----------------------------------------------------------------------------
(* The terminal thread (`Terminal::run`, `AbortHandle::request`) *)

Compacting == pc \in {"admit", "summarize", "summaryError", "settle",
                     "finishCompaction"}

Esc ==
  /\ pc \notin {"idle", "down"} /\ ~job.recovering
  /\ user = "idle" /\ left.escs > 0
  /\ user' = "request"
  /\ pressed' = (pressed \/ (job.auto /\ Compacting))
  /\ left' = [left EXCEPT !.escs = @ - 1]
  /\ UNCHANGED <<file, pc, job, messages, cancel, coordination, now, effects>>

(* The tool whose call the request names, the pending one called first.     *)
RequestedCall ==
  IF s.operation.kind = "run" /\ PendingTools(s) # {}
    THEN s.tools[CHOOSE t \in PendingTools(s) :
                   \A u \in PendingTools(s) :
                     s.tools[t].index <= s.tools[u].index].call
    ELSE None

Phase ==
  IF s.operation.kind = "compaction" THEN "compact"
  ELSE IF PendingTools(s) = {} THEN "model" ELSE "tool"

Request ==
  /\ user = "request"
  /\ \/ /\ ~Idle(s)
        /\ IF s.operation.abort
             THEN UNCHANGED session
             ELSE LET fact == AbortRequested(s.operation.id,
                                s.operation.kind, Phase, RequestedCall)
                  IN  s' \in ReduceLine(s, <<fact>>) /\ committed' = <<fact>>
        /\ user' = "cancel"
     \/ /\ Idle(s) /\ coordination # "Waiting"
        /\ user' = "cancel" /\ UNCHANGED session
     \/ /\ Idle(s) /\ coordination = "Waiting"
        /\ user' = "waiting" /\ UNCHANGED session
  /\ UNCHANGED <<compacted, pc, job, messages, cancel, coordination, now,
                history, left>>

Cancel ==
  /\ user = "cancel"
  /\ cancel' = TRUE /\ user' = "idle"
  /\ UNCHANGED <<file, pc, job, messages, coordination, now, history, left>>

-----------------------------------------------------------------------------
(* The process *)

Crash ==
  /\ pc # "down"
  /\ left.crashes > 0 /\ Room(Reserve)
  /\ left' = [left EXCEPT !.crashes = @ - 1]
  /\ Exit
  /\ UNCHANGED <<file, now, history>>

Quit ==
  /\ pc = "idle" /\ user = "idle"
  /\ Exit
  /\ UNCHANGED <<file, now, history, left>>

(* The session is resumed by a process with any declarations.               *)
Restart ==
  /\ pc = "down"
  /\ \E setup \in Setups : now' = setup
  /\ Goto("recover") /\ Set([NoJob EXCEPT !.recovering = TRUE])
  /\ UNCHANGED <<file, messages, abort, history, left>>

Init ==
  /\ s = InitialState /\ committed = << >> /\ compacted = None
  /\ pc = "idle" /\ job = NoJob /\ messages = << >>
  /\ cancel = FALSE /\ coordination = "Waiting" /\ user = "idle"
  /\ now \in Setups
  /\ effects = [i \in Id |-> 0] /\ pressed = FALSE
  /\ left = [prompts |-> Prompts, escs |-> Escs, crashes |-> Crashes]

Run ==
  \/ AutoCompact \/ StartRun
  \/ AdmitStep \/ CallModel \/ ModelError \/ AbortClose \/ SettleStep \/ FinishRun

Tools ==
  \/ NextStep \/ PreExecutionResult \/ StartTool \/ CheckStarted
  \/ Execute \/ ToolReturns \/ ToolAbort \/ AppendResult \/ ToolAborted

Compact ==
  \/ StartCompaction \/ AdmitCompaction \/ Summarize \/ SummaryError
  \/ SettleCompaction \/ FinishCompaction

Recover ==
  \/ RecoveryDone \/ RecoveryBlocked \/ RecoverCloseAttempt \/ RecoverSynthetic
  \/ RecoverReplay \/ RecoverStart \/ RecoverStep \/ RecoverFinish

Worker == Run \/ Tools \/ Compact \/ Recover

Terminal == Request \/ Cancel

Next ==
  \/ TakePrompt \/ Worker \/ Esc \/ Terminal \/ Crash \/ Quit \/ Restart

Spec == Init /\ [][Next]_vars

(* The worker and the terminal thread go on as long as the process runs: a  *)
(* request of the provider has a timeout, and nothing else blocks them but  *)
(* the condition variable.  That a started tool returns is an assumption    *)
(* about the tool.  Prompts, Esc, crashes and restarts need not come.       *)
FairSpec == Spec /\ WF_vars(Worker) /\ WF_vars(Terminal)

-----------------------------------------------------------------------------
(* Safety *)

(* While the worker waits for the provider, the attempt it will settle is   *)
(* the open attempt of the current operation, whatever Esc has written.     *)
JobIsCurrent ==
  pc \in {"model", "modelError", "abortClose", "answered",
          "summarize", "summaryError", "settle"} =>
    /\ ~Idle(s) /\ s.operation.id = job.op
    /\ s.operation.step = [attempt |-> job.attempt, status |-> "attempting"]

(* A tool that must not be replayed is executed at most once, over any      *)
(* number of crashes and restarts.                                          *)
NeverReplayOnce ==
  \A t \in Id :
    s.tools[t] # None /\ s.tools[t].replay = "never" => effects[t] <= 1

(* An effect only happens between the durable intent and its result.        *)
EffectNeedsIntent ==
  [][\A t \in Id : effects'[t] # effects[t] =>
       s.tools[t] # None /\ s.tools[t].status = "pending"
         /\ s.tools[t].call \in s.unanswered]_vars

(* A tool is executed again only where it was started: same environment,    *)
(* same definition, and both declarations safe under the same replay key.   *)
ReplayMatches ==
  [][\A t \in Id : effects'[t] > effects[t] /\ effects[t] > 0 =>
       LET tool == s.tools[t]
           config == s.attempts[s.entries[tool.assistant].attempt].config
       IN  /\ tool.replay = "safe" /\ now.replay[tool.name] = "safe"
           /\ tool.key = now.key[tool.name] /\ tool.env = now.env
           /\ config.tools[tool.name] = now.config.tools[tool.name]]_vars

(* Once an abort request is in the file, no tool of the operation starts.   *)
NoIntentAfterAbort ==
  [][\A t \in Id : s.tools[t] = None /\ s'.tools[t] # None
       => ~s.operation.abort]_vars

(* Every call has its result when its operation finishes, however it does.  *)
FinishedAnswered ==
  [][~Idle(s) /\ s'.operation = None => s'.unanswered = {}]_vars

(* The active context is the latest summary and then a suffix of the        *)
(* transcript, or, before any compaction, all of it.                        *)
ContextIsTail ==
  LET summaries == {n \in DOMAIN s.order :
                      s.entries[s.order[n]].type = "compaction"}
  IN  IF summaries = {}
        THEN s.context = s.order
        ELSE /\ s.context[1] = s.order[CHOOSE n \in summaries :
                                         \A m \in summaries : m <= n]
             /\ IsSuffix(SubSeq(s.context, 2, Len(s.context)), s.transcript)

(* What a compaction will keep, found in the file by the last entry it      *)
(* summarised, are the messages it did not send to be summarised: none is   *)
(* left out and none is there twice.                                        *)
NothingLeftOut ==
  pc = "settle" => Retained(s, compacted) = SubSeq(s.context, Cut + 1, Len(s.context))

(* Each answer of the provider that the session keeps is charged once.      *)
ChargedOnce ==
  s.usage = Cardinality({a \in Id : s.attempts[a] # None
                                     /\ s.attempts[a].settled # None})

(* What the provider is sent is the active context of the session.          *)
SentIsContext == pc = "model" => messages = s.context

(* The worker ends the process, or the automatic compaction, without an     *)
(* append: the reducer refused its transaction, or recovery could not build *)
(* it.                                                                      *)
Refuses ==
  /\ s' = s /\ left' = left
  /\ \/ pc # "idle" /\ pc' = "down"
     \/ Compacting /\ pc' = "start"
     \/ pc = "compact" /\ ~NothingToCompact /\ pc' = "start"
  /\ ~(pc = "recover" /\ RecoveryPlan.type = "blocked")

Settled ==
  ~Idle(s) /\ s.operation.step # None /\ s.operation.step.status = "settled"

(* The provider gave an answer the session cannot hold.                     *)
UnholdableAnswer ==
  /\ pc = "answered"
  /\ \/ job.answer.stop = "toolUse" /\ job.answer.calls = << >>
     \/ \E j, k \in DOMAIN job.answer.calls :
          j # k /\ job.answer.calls[j].id = job.answer.calls[k].id

(* No step may follow an answer that had no calls or was cut off.           *)
AfterLastAnswer ==
  /\ pc \in {"step", "recover"} /\ Settled
  /\ s.entries[SettledEntry(s)].stop \in {"stop", "length"}

(* Recovery starts a call that the configuration the provider answered did  *)
(* not declare, or one whose arguments it cannot read back.                 *)
Undeclared(k) ==
  s.attempts[s.operation.step.attempt].config.tools[LastCalls(s)[k].name] = None

StartsForeignCall ==
  /\ Recovers("startTool") /\ RecoveryPlan.mode = "start"
  /\ \/ Undeclared(RecoveryPlan.index)
     \/ LastCalls(s)[RecoveryPlan.index].args = "illTyped"

(* The terminal thread has written the abort request since the worker saw   *)
(* that there was none: the worker's own is the second.                     *)
RequestWritten ==
  /\ s.operation.abort
  /\ pc = "toolAbort" \/ (pc = "abortClose" /\ ~job.flag)

(* The usage of the session is at its limit: an answer or a summary is not  *)
(* kept, and after the summary no prompt is until the process is restarted. *)
UsageFull ==
  /\ s.usage >= MaxUsage
  /\ pc \in {"answered", "settle"} \/ (pc = "start" /\ ~Idle(s))

(* What the worker tries to append is refused in these cases only.          *)
RefusedOnly ==
  [][Refuses =>
       \/ UnholdableAnswer \/ AfterLastAnswer \/ StartsForeignCall
       \/ RequestWritten \/ UsageFull]_vars

-----------------------------------------------------------------------------
(* Claims of the documentation that the code does not keep *)

(* README.md:86: a prompt is not sent when Esc is pressed during the        *)
(* automatic compaction before it.                                          *)
EscDropsPrompt ==
  [][pressed => ~(Idle(s) /\ s'.operation # None /\ s'.operation.kind = "run")]_vars

(* docs/session-design.md:476: a run whose final answer is in the file is   *)
(* completed by recovery, which therefore never fails on one.               *)
FinalAnswerRecovers ==
  [][Settled /\ job.recovering /\ s.unanswered = {}
       /\ s.entries[SettledEntry(s)].stop = "stop"
       /\ s.entries[SettledEntry(s)].text
     => ~Refuses]_vars

-----------------------------------------------------------------------------
(* Liveness *)

(* An operation with an abort request in the file ends, or its process.     *)
AbortEnds ==
  (~Idle(s) /\ s.operation.abort) ~> (Idle(s) \/ pc = "down")

(* The terminal thread does not wait for ever for an operation to start.    *)
WaiterReleased == (user = "waiting") ~> (user # "waiting")

(* A restarted process gets to its prompt, asks the provider again or ends: *)
(* the planner's actions never go round in a circle.                        *)
RecoveryEnds ==
  (pc = "recover") ~> (pc \in {"idle", "model", "summarize", "down"})

===============================================================================
