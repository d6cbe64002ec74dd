------------------------ MODULE SessionReducerProofs ------------------------
(***************************************************************************)
(* Proofs about one fact of the reducer, for every choice of the constants *)
(* of SessionReducer: a fact that is accepted in a sound state leads to a  *)
(* sound state, and keeps its books.  Nothing here depends on who appends  *)
(* the fact or on how many are in a line, so the log (ReducerLog) and the  *)
(* agent (DurableAgent) both use it.                                       *)
(*                                                                         *)
(* Well-typedness is not inductive by itself: an attempt is only closed in *)
(* a well-typed way if the current step names one, and a step is only      *)
(* admitted for the current operation if an unfinished one is current.     *)
(***************************************************************************)
EXTENDS SessionReducer, FiniteSetTheorems, SequenceTheorems, TLAPS

(* The map of operations and the public register agree on which operation   *)
(* is unfinished.                                                           *)
OneCurrent(s) ==
  \A op \in Id : Unfinished(s, op) <=> ~Idle(s) /\ s.operation.id = op

(* What one part of the state names another part holds.                     *)
Linked(s) ==
  /\ ~Idle(s) =>
       /\ s.operations[s.operation.id].kind = s.operation.kind
       /\ s.operation.step # None =>
            /\ s.attempts[s.operation.step.attempt] # None
            /\ s.attempts[s.operation.step.attempt].op = s.operation.id
  /\ \A op \in Id :
       s.operations[op] # None /\ s.operations[op].kind = "compaction"
         => s.operations[op].result # None
  /\ \A i \in Id :
       s.entries[i] # None /\ s.entries[i].calls # << >>
         => {s.entries[i].op, s.entries[i].step, s.entries[i].attempt} \subseteq Id

Sound(s) == s \in State /\ OneCurrent(s) /\ Linked(s)

-----------------------------------------------------------------------------
(* The facts, by what they name in the state that accepts them *)

(* From s, the reducer accepts f and then has s1; and so for each type.     *)
Reduces(s, s1, f) == Accepts(s, f) /\ s1 = Apply(s, f)

ReducesUser(s, s1, f) == CanUser(s, f) /\ s1 = DoUser(s, f)
ReducesAssistant(s, s1, f) == CanAssistant(s, f) /\ s1 = DoAssistant(s, f)
ReducesSynthetic(s, s1, f) == CanSynthetic(s, f) /\ s1 = DoSynthetic(s, f)
ReducesResult(s, s1, f) == CanResult(s, f) /\ s1 = DoResult(s, f)
ReducesCompaction(s, s1, f) == CanCompaction(s, f) /\ s1 = DoCompaction(s, f)
ReducesRunStarted(s, s1, f) == CanRunStarted(s, f) /\ s1 = DoRunStarted(s, f)
ReducesCompactionStarted(s, s1, f) == CanCompactionStarted(s, f) /\ s1 = DoCompactionStarted(s, f)
ReducesStepAttempt(s, s1, f) == CanStepAttempt(s, f) /\ s1 = DoStepAttempt(s, f)
ReducesStepFailed(s, s1, f) == CanStepFailed(s, f) /\ s1 = DoStepFailed(s, f)
ReducesToolStarted(s, s1, f) == CanToolStarted(s, f) /\ s1 = DoToolStarted(s, f)
ReducesAbortRequested(s, s1, f) == CanAbortRequested(s, f) /\ s1 = DoAbortRequested(s, f)
ReducesOperationFinished(s, s1, f) == CanOperationFinished(s, f) /\ s1 = DoOperationFinished(s, f)
ReducesUsage(s, s1, f) == CanUsage(s, f) /\ s1 = DoUsage(s, f)

AddsUser(s, s1) ==
  \E i \in Id : ReducesUser(s, s1, [type |-> "user", id |-> i])

AddsAssistant(s, s1) ==
  \E i \in Id, a \in Id, stop \in Stop, calls \in Seq(Call), text \in BOOLEAN :
    /\ s.attempts[a] # None
    /\ ReducesAssistant(s, s1,
         [type |-> "assistant", id |-> i, step |-> s.attempts[a].step,
          attempt |-> a, stop |-> stop, calls |-> calls, text |-> text])

AddsSynthetic(s, s1) ==
  \E i \in Id, e \in {j \in Id : s.entries[j] # None} :
  \E n \in DOMAIN s.entries[e].calls :
    ReducesSynthetic(s, s1,
      [type |-> "synthetic", id |-> i, step |-> s.entries[e].step,
       assistant |-> e, index |-> n,
       call |-> s.entries[e].calls[n].id,
       name |-> s.entries[e].calls[n].name])

AddsResult(s, s1) ==
  \E t \in Id :
    /\ s.tools[t] # None
    /\ ReducesResult(s, s1,
         [type |-> "result", id |-> s.tools[t].result,
          step |-> s.tools[t].step, started |-> t,
          call |-> s.tools[t].call])

AddsCompaction(s, s1) ==
  \E through \in Id :
    /\ ~Idle(s) /\ s.operation.kind = "compaction"
    /\ s.entries[through] # None
    /\ ReducesCompaction(s, s1,
         [type |-> "compaction", id |-> s.operations[s.operation.id].result,
          op |-> s.operation.id, through |-> through,
          retained |-> Retained(s, through)])

AddsRunStarted(s, s1) ==
  \E op \in Id, input \in Id :
    ReducesRunStarted(s, s1, [type |-> "runStarted", op |-> op, input |-> input])

AddsCompactionStarted(s, s1) ==
  \E op \in Id, input \in Id : \E result \in Id :
    /\ s.entries[input] # None
    /\ ReducesCompactionStarted(s, s1,
         [type |-> "compactionStarted", op |-> op, input |-> input,
          result |-> result, source |-> Source(s, input)])

AddsStepAttempt(s, s1) ==
  \E op \in Id, context \in Id, config \in ConfigurationSnapshot,
     number \in 1..2, step \in Id :
  \E attempt \in Id :
    ReducesStepAttempt(s, s1,
      [type |-> "stepAttempt", op |-> op, step |-> step,
       attempt |-> attempt, kind |-> s.operations[op].kind,
       number |-> number, context |-> context, config |-> config])

AddsStepFailed(s, s1) ==
  \E a \in Id :
    /\ s.attempts[a] # None
    /\ ReducesStepFailed(s, s1,
         [type |-> "stepFailed", op |-> s.attempts[a].op,
          step |-> s.attempts[a].step, attempt |-> a])

AddsToolStarted(s, s1) ==
  \E i \in Id, e \in {j \in Id : s.entries[j] # None}, args \in Arguments,
     replay \in {"safe", "never"}, key \in ReplayKey, env \in Environment :
  \E n \in DOMAIN s.entries[e].calls, result \in Id :
    ReducesToolStarted(s, s1,
      [type |-> "toolStarted", id |-> i, op |-> s.entries[e].op,
       step |-> s.entries[e].step, assistant |-> e, index |-> n,
       call |-> s.entries[e].calls[n].id,
       name |-> s.entries[e].calls[n].name,
       args |-> args, replay |-> replay, key |-> key, env |-> env,
       result |-> result])

AddsAbortRequested(s, s1) ==
  \E op \in Id, phase \in {"model", "tool", "compact"},
     call \in CallId \cup {None} :
    /\ s.operations[op] # None
    /\ ReducesAbortRequested(s, s1,
         [type |-> "abortRequested", op |-> op,
          kind |-> s.operations[op].kind, phase |-> phase, call |-> call])

AddsOperationFinished(s, s1) ==
  \E op \in Id, final \in Id \cup {None}, how \in Outcome :
    /\ s.operations[op] # None
    /\ ReducesOperationFinished(s, s1,
         [type |-> "operationFinished", op |-> op,
          kind |-> s.operations[op].kind, outcome |-> how, final |-> final])

AddsUsage(s, s1) ==
  \E op \in Id, owner \in Id, amount \in 0..MaxUsage :
    ReducesUsage(s, s1, [type |-> "usage", op |-> op, owner |-> owner, amount |-> amount])

(* Every fact but the one that finishes an operation.                       *)
AddsProgress(s, s1) ==
  \/ AddsUser(s, s1) \/ AddsAssistant(s, s1) \/ AddsSynthetic(s, s1)
  \/ AddsResult(s, s1) \/ AddsCompaction(s, s1) \/ AddsRunStarted(s, s1)
  \/ AddsCompactionStarted(s, s1) \/ AddsStepAttempt(s, s1)
  \/ AddsStepFailed(s, s1) \/ AddsToolStarted(s, s1)
  \/ AddsAbortRequested(s, s1) \/ AddsUsage(s, s1)

Adds(s, s1) == AddsProgress(s, s1) \/ AddsOperationFinished(s, s1)

-----------------------------------------------------------------------------
(* Types of what the fact handlers put in the state *)

(* A fact is reduced by the handler its type names.                         *)
LEMMA Reduced ==
  ASSUME NEW s, NEW s1, NEW f, Reduces(s, s1, f)
  PROVE  /\ (f.type = "user" => ReducesUser(s, s1, f))
         /\ (f.type = "assistant" => ReducesAssistant(s, s1, f))
         /\ (f.type = "synthetic" => ReducesSynthetic(s, s1, f))
         /\ (f.type = "result" => ReducesResult(s, s1, f))
         /\ (f.type = "compaction" => ReducesCompaction(s, s1, f))
         /\ (f.type = "runStarted" => ReducesRunStarted(s, s1, f))
         /\ (f.type = "compactionStarted" => ReducesCompactionStarted(s, s1, f))
         /\ (f.type = "stepAttempt" => ReducesStepAttempt(s, s1, f))
         /\ (f.type = "stepFailed" => ReducesStepFailed(s, s1, f))
         /\ (f.type = "toolStarted" => ReducesToolStarted(s, s1, f))
         /\ (f.type = "abortRequested" => ReducesAbortRequested(s, s1, f))
         /\ (f.type = "operationFinished" => ReducesOperationFinished(s, s1, f))
         /\ (f.type = "usage" => ReducesUsage(s, s1, f))
<1>1. f.type = "user" => ReducesUser(s, s1, f)
  BY DEF Reduces, Accepts, Apply, ReducesUser
<1>2. f.type = "assistant" => ReducesAssistant(s, s1, f)
  BY DEF Reduces, Accepts, Apply, ReducesAssistant
<1>3. f.type = "synthetic" => ReducesSynthetic(s, s1, f)
  BY DEF Reduces, Accepts, Apply, ReducesSynthetic
<1>4. f.type = "result" => ReducesResult(s, s1, f)
  BY DEF Reduces, Accepts, Apply, ReducesResult
<1>5. f.type = "compaction" => ReducesCompaction(s, s1, f)
  BY DEF Reduces, Accepts, Apply, ReducesCompaction
<1>6. f.type = "runStarted" => ReducesRunStarted(s, s1, f)
  BY DEF Reduces, Accepts, Apply, ReducesRunStarted
<1>7. f.type = "compactionStarted" => ReducesCompactionStarted(s, s1, f)
  BY DEF Reduces, Accepts, Apply, ReducesCompactionStarted
<1>8. f.type = "stepAttempt" => ReducesStepAttempt(s, s1, f)
  BY DEF Reduces, Accepts, Apply, ReducesStepAttempt
<1>9. f.type = "stepFailed" => ReducesStepFailed(s, s1, f)
  BY DEF Reduces, Accepts, Apply, ReducesStepFailed
<1>10. f.type = "toolStarted" => ReducesToolStarted(s, s1, f)
  BY DEF Reduces, Accepts, Apply, ReducesToolStarted
<1>11. f.type = "abortRequested" => ReducesAbortRequested(s, s1, f)
  BY DEF Reduces, Accepts, Apply, ReducesAbortRequested
<1>12. f.type = "operationFinished" => ReducesOperationFinished(s, s1, f)
  BY DEF Reduces, Accepts, Apply, ReducesOperationFinished
<1>13. f.type = "usage" => ReducesUsage(s, s1, f)
  BY DEF Reduces, Accepts, Apply, ReducesUsage
<1> QED BY <1>1, <1>2, <1>3, <1>4, <1>5, <1>6, <1>7, <1>8, <1>9, <1>10, <1>11, <1>12, <1>13

(* The fields of a reduced state have the types that State gives them.      *)
LEMMA Fields ==
  ASSUME NEW t \in State
  PROVE  /\ t.use \in [Id -> Use]
         /\ t.entries \in [Id -> Entry \cup {None}]
         /\ t.order \in Seq(Id)
         /\ t.transcript \in Seq(Id)
         /\ t.context \in Seq(Id)
         /\ t.through \in Id \cup {None}
         /\ t.unanswered \in SUBSET CallId
         /\ t.operation \in OperationState \cup {None}
         /\ t.operations \in [Id -> OperationInfo \cup {None}]
         /\ t.attempts \in [Id -> AttemptInfo \cup {None}]
         /\ t.tools \in [Id -> ToolCallState \cup {None}]
         /\ t.pairs \in SUBSET (Id \X Nat)
         /\ t.usage \in Nat
BY DEF State

(* The reducer starts in a state of the right type.                         *)
LEMMA InitialType == InitialState \in State
BY DEF InitialState, State, Use

(* A message entry is pushed onto a state of the right type.                *)
LEMMA PushType ==
  ASSUME NEW t \in State, NEW i \in Id, NEW e \in Entry
  PROVE  Push(t, i, e) \in State
<1>1. [t.use EXCEPT ![i] = "used"] \in [Id -> Use]
  BY Fields DEF Use
<1>2. [t.entries EXCEPT ![i] = e] \in [Id -> Entry \cup {None}]
  BY Fields
<1>3. /\ Append(t.order, i) \in Seq(Id)
      /\ Append(t.transcript, i) \in Seq(Id)
      /\ Append(t.context, i) \in Seq(Id)
  BY Fields
<1>4. Unanswered(e, t.unanswered) \in SUBSET CallId
  <2>1. e.calls \in Seq(Call)
    BY DEF Entry
  <2>2. \A k \in DOMAIN e.calls : e.calls[k] \in Call
    BY <2>1
  <2>3. \A c \in Call : c.id \in CallId
    BY DEF Call
  <2> QED BY <2>2, <2>3, Fields DEF Unanswered
<1> QED
  BY <1>1, <1>2, <1>3, <1>4, Zenon DEF State, Push

(* Entries, attempts and operations keep their types when they are updated. *)
LEMMA AttemptClosed ==
  ASSUME NEW a \in AttemptInfo, NEW i \in Id
  PROVE  /\ [a EXCEPT !.closed = TRUE, !.copyClosed = TRUE, !.settled = i]
              \in AttemptInfo
         /\ [a EXCEPT !.closed = TRUE, !.settled = i] \in AttemptInfo
         /\ [a EXCEPT !.closed = TRUE, !.copyClosed = TRUE, !.failed = TRUE]
              \in AttemptInfo
         /\ [a EXCEPT !.closed = TRUE] \in AttemptInfo
BY Zenon DEF AttemptInfo

(* Settling or failing an attempt in the register `operation` (what         *)
(* apply_message_entry and apply_step_failed do to it) keeps it well typed. *)
LEMMA StatusType ==
  ASSUME NEW o \in OperationState, NEW a, NEW status \in {"settled", "failed"}
  PROVE  WithStatus(o, a, status) \in OperationState
<1>1. CASE o.step # None /\ o.step.attempt = a
  <2>1. o.step \in StepState
    BY <1>1 DEF OperationState
  <2>2. [o.step EXCEPT !.status = status] \in StepState
    BY <2>1 DEF StepState
  <2> QED BY <1>1, <2>2, Zenon DEF WithStatus, OperationState
<1>2. CASE ~(o.step # None /\ o.step.attempt = a)
  BY <1>2 DEF WithStatus
<1> QED BY <1>1, <1>2

(* What a compaction may retain is part of the transcript.                  *)
LEMMA RetainedType ==
  ASSUME NEW t \in State, NEW i
  PROVE  Retained(t, i) \in Seq(Id)
<1>1. \A j : Through(t, j) \in 0..Len(t.transcript)
  <2> SUFFICES ASSUME NEW j PROVE Through(t, j) \in 0..Len(t.transcript)
    OBVIOUS
  <2> DEFINE S == {k \in DOMAIN t.transcript :
                     Position(t, t.transcript[k]) <= Position(t, j)}
  <2>1. t.transcript \in Seq(Id) /\ Len(t.transcript) \in Nat
        /\ DOMAIN t.transcript = 1..Len(t.transcript)
    BY Fields
  <2>2. /\ IsFiniteSet(1..Len(t.transcript))
        /\ Cardinality(1..Len(t.transcript)) = Len(t.transcript)
    BY <2>1, FS_Interval
  <2>3. IsFiniteSet(S) /\ Cardinality(S) <= Len(t.transcript)
    BY <2>1, <2>2, FS_Subset
  <2>4. Cardinality(S) \in Nat
    BY <2>3, FS_CardinalityType
  <2> QED BY <2>1, <2>3, <2>4 DEF Through
<1>2. \A m \in Nat, n \in 0..Len(t.transcript) :
        SubSeq(t.transcript, m + 1, n) \in Seq(Id)
  <2> SUFFICES ASSUME NEW m \in Nat, NEW n \in 0..Len(t.transcript)
               PROVE  SubSeq(t.transcript, m + 1, n) \in Seq(Id)
    OBVIOUS
  <2>1. t.transcript \in Seq(Id)
    BY Fields
  <2>2. \A k \in (m + 1)..n : t.transcript[k] \in Id
    BY <2>1
  <2> QED BY <2>1, <2>2, SubSeqProperties
<1> QED BY <1>1, <1>2, Fields DEF Retained

-----------------------------------------------------------------------------
(* One lemma per fact: what it leads to has the right type *)

(* apply_message_entry leads from a well typed state to one, for a user     *)
(* message.                                                                 *)
LEMMA UserType ==
  ASSUME NEW t \in State, NEW f, f.id \in Id
  PROVE  DoUser(t, f) \in State
<1>1. UserEntry(f) \in Entry
  BY DEF UserEntry, Entry
<1> QED BY <1>1, PushType DEF DoUser

(* The same for an assistant message: the attempt it settles was checked to *)
(* exist.                                                                   *)
LEMMA AssistantType ==
  ASSUME NEW t \in State, NEW f, CanAssistant(t, f),
         f.id \in Id, f.attempt \in Id, f.stop \in Stop,
         f.calls \in Seq(Call), f.text \in BOOLEAN
  PROVE  DoAssistant(t, f) \in State
<1> DEFINE e == AssistantEntry(t, f)
           p == Push(t, f.id, e)
<1>1. t.attempts[f.attempt] \in AttemptInfo /\ f.step = t.attempts[f.attempt].step
  BY Fields DEF CanAssistant
<1>2. t.attempts[f.attempt].op \in Id /\ t.attempts[f.attempt].step \in Id
  BY <1>1 DEF AttemptInfo
<1>3. e \in Entry
  BY <1>1, <1>2, Zenon DEF AssistantEntry, Entry
<1>4. p \in State /\ p.attempts = t.attempts /\ p.operation = t.operation
  <2>1. p \in State
    BY <1>3, PushType
  <2>2. p.attempts = t.attempts /\ p.operation = t.operation
    BY Zenon DEF Push, State
  <2> QED BY <2>1, <2>2
<1>5. t.operation \in OperationState
  BY Fields DEF CanAssistant, CurrentIs, Idle
<1> DEFINE a == [t.attempts[f.attempt] EXCEPT
                    !.closed = TRUE, !.copyClosed = TRUE, !.settled = f.id]
<1>6. a \in AttemptInfo
  BY <1>1, AttemptClosed
<1>7. [t.attempts EXCEPT ![f.attempt] = a] \in [Id -> AttemptInfo \cup {None}]
  BY <1>6, Fields
<1>8. WithStatus(t.operation, f.attempt, "settled") \in OperationState \cup {None}
  BY <1>5, StatusType
<1> HIDE DEF p
<1>9. [p EXCEPT !.attempts = [t.attempts EXCEPT ![f.attempt] = a],
                !.operation = WithStatus(t.operation, f.attempt, "settled")]
        \in State
  BY <1>4, <1>7, <1>8, Zenon DEF State
<1> QED BY <1>4, <1>9, Zenon DEF DoAssistant, p, State

(* The same for a synthetic tool result, which is pushed and paired.        *)
LEMMA SyntheticType ==
  ASSUME NEW t \in State, NEW f, f.id \in Id, f.step \in Id, f.call \in CallId,
         f.assistant \in Id, f.index \in Nat, t.operation \in OperationState
  PROVE  DoSynthetic(t, f) \in State
<1> DEFINE e == ToolEntry(t.operation.id, f.step, f.call)
           p == Push(t, f.id, e)
<1>1. e \in Entry
  BY DEF ToolEntry, Entry, OperationState
<1>2. p \in State
  BY <1>1, PushType
<1> HIDE DEF p
<1>3. p.pairs \cup {<<f.assistant, f.index>>} \in SUBSET (Id \X Nat)
  BY <1>2, Fields
<1>4. [p EXCEPT !.pairs = p.pairs \cup {<<f.assistant, f.index>>}] \in State
  BY <1>2, <1>3, Zenon DEF State
<1> QED BY <1>4 DEF DoSynthetic, p

(* The same for the result of a started tool, in the entry provisioned for  *)
(* it.                                                                      *)
LEMMA ResultType ==
  ASSUME NEW t \in State, NEW f, f.id \in Id, f.step \in Id, f.call \in CallId,
         f.started \in Id, t.tools[f.started] \in ToolCallState
  PROVE  DoResult(t, f) \in State
<1> DEFINE e == ToolEntry(t.tools[f.started].op, f.step, f.call)
           p == Push(t, f.id, e)
           tool == [t.tools[f.started] EXCEPT !.status = "completed"]
<1>1. e \in Entry
  BY DEF ToolEntry, Entry, ToolCallState
<1>2. p \in State
  BY <1>1, PushType
<1>3. p.tools = t.tools
  BY Zenon DEF Push, State
<1>4. tool \in ToolCallState
  BY Zenon DEF ToolCallState
<1> HIDE DEF p
<1>5. [p.tools EXCEPT ![f.started] = tool] \in [Id -> ToolCallState \cup {None}]
  BY <1>2, <1>4, Fields
<1> HIDE DEF tool
<1>6. [p EXCEPT !.tools = [p.tools EXCEPT ![f.started] = tool]] \in State
  BY <1>2, <1>5, Zenon DEF State
<1> QED BY <1>3, <1>6, Zenon DEF DoResult, p, tool

(* apply_compaction_entry keeps the state well typed: the context becomes   *)
(* the summary and messages of the transcript.                              *)
LEMMA CompactionType ==
  ASSUME NEW t \in State, NEW f, f.id \in Id, f.op \in Id, f.retained \in Seq(Id),
         t.operation \in OperationState, t.operation.step # None,
         t.attempts[t.operation.step.attempt] \in AttemptInfo
  PROVE  DoCompaction(t, f) \in State
<1> DEFINE current == t.operation.step.attempt
           e == [type |-> "compaction", op |-> f.op,
                 step |-> t.attempts[current].step, attempt |-> current,
                 stop |-> "none", calls |-> << >>, text |-> TRUE, call |-> None]
           a == [t.attempts[current] EXCEPT !.closed = TRUE, !.settled = f.id]
           o == [t.operation EXCEPT !.step.status = "settled"]
<1>1. t.operation.step \in StepState /\ t.operation.input \in Id
  BY DEF OperationState
<1>2. current \in Id
  BY <1>1 DEF StepState
<1>3. t.attempts[current].step \in Id
  BY DEF AttemptInfo
<1>4. e \in Entry
  BY <1>2, <1>3 DEF Entry
<1>5. a \in AttemptInfo
  BY AttemptClosed
<1>6. o \in OperationState
  <2>1. [t.operation.step EXCEPT !.status = "settled"] \in StepState
    BY <1>1 DEF StepState
  <2> QED BY <2>1, Zenon DEF OperationState
<1> HIDE DEF e, a, o
<1>7. /\ [t.use EXCEPT ![f.id] = "used"] \in [Id -> Use]
      /\ [t.entries EXCEPT ![f.id] = e] \in [Id -> Entry \cup {None}]
      /\ Append(t.order, f.id) \in Seq(Id)
      /\ <<f.id>> \o f.retained \in Seq(Id)
      /\ [t.attempts EXCEPT ![current] = a] \in [Id -> AttemptInfo \cup {None}]
  <2>1. [t.use EXCEPT ![f.id] = "used"] \in [Id -> Use]
    BY Fields DEF Use
  <2>2. [t.entries EXCEPT ![f.id] = e] \in [Id -> Entry \cup {None}]
    BY <1>4, Fields
  <2>3. [t.attempts EXCEPT ![current] = a] \in [Id -> AttemptInfo \cup {None}]
    BY <1>5, Fields
  <2>4. Append(t.order, f.id) \in Seq(Id)
    BY Fields
  <2>5. <<f.id>> \o f.retained \in Seq(Id)
    OBVIOUS
  <2> QED BY <2>1, <2>2, <2>3, <2>4, <2>5
<1>8. [t EXCEPT !.use = [t.use EXCEPT ![f.id] = "used"],
                !.entries = [t.entries EXCEPT ![f.id] = e],
                !.order = Append(t.order, f.id),
                !.context = <<f.id>> \o f.retained,
                !.through = t.operation.input,
                !.attempts = [t.attempts EXCEPT ![current] = a],
                !.operation = o] \in State
  BY <1>1, <1>6, <1>7, Zenon DEF State
<1>9. DoCompaction(t, f) =
        [t EXCEPT !.use = [t.use EXCEPT ![f.id] = "used"],
                !.entries = [t.entries EXCEPT ![f.id] = e],
                !.order = Append(t.order, f.id),
                !.context = <<f.id>> \o f.retained,
                !.through = t.operation.input,
                !.attempts = [t.attempts EXCEPT ![current] = a],
                !.operation = o]
  BY Zenon DEF DoCompaction, State, e, a, o
<1> QED BY <1>8, <1>9

(* apply_run_started and apply_compaction_started keep the state well       *)
(* typed.                                                                   *)
LEMMA StartedType ==
  ASSUME NEW t \in State, NEW f, f.op \in Id, f.input \in Id
  PROVE  /\ DoRunStarted(t, f) \in State
         /\ f.result \in Id => DoCompactionStarted(t, f) \in State
<1> DEFINE run == [kind |-> "run", finished |-> FALSE, result |-> None, latest |-> None]
           compaction == [kind |-> "compaction", finished |-> FALSE,
                          result |-> f.result, latest |-> None]
           current(kind) == [kind |-> kind, id |-> f.op, input |-> f.input,
                             step |-> None, abort |-> FALSE]
<1>1. run \in OperationInfo /\ (f.result \in Id => compaction \in OperationInfo)
  BY DEF OperationInfo
<1>2. current("run") \in OperationState /\ current("compaction") \in OperationState
  BY DEF OperationState
<1>3. [t.use EXCEPT ![f.op] = "identity"] \in [Id -> Use]
  BY Fields DEF Use
<1> HIDE DEF run, compaction, current
<1>4. DoRunStarted(t, f) \in State
  <2>1. [t.operations EXCEPT ![f.op] = run] \in [Id -> OperationInfo \cup {None}]
    BY <1>1, Fields
  <2>2. [t EXCEPT !.use = [t.use EXCEPT ![f.op] = "identity"],
                  !.operations = [t.operations EXCEPT ![f.op] = run],
                  !.operation = current("run")] \in State
    BY <1>2, <1>3, <2>1, Zenon DEF State
  <2>3. DoRunStarted(t, f) =
          [t EXCEPT !.use = [t.use EXCEPT ![f.op] = "identity"],
                    !.operations = [t.operations EXCEPT ![f.op] = run],
                    !.operation = current("run")]
    BY Zenon DEF DoRunStarted, State, run, current
  <2> QED BY <2>2, <2>3
<1>5. ASSUME f.result \in Id PROVE DoCompactionStarted(t, f) \in State
  <2> DEFINE use == [t.use EXCEPT ![f.op] = "identity"]
  <2>1. [t.operations EXCEPT ![f.op] = compaction] \in [Id -> OperationInfo \cup {None}]
    BY <1>1, <1>5, Fields
  <2>2. [use EXCEPT ![f.result] = "compactionResult"] \in [Id -> Use]
    BY <1>3, <1>5 DEF Use
  <2> HIDE DEF use
  <2>3. [t EXCEPT !.use = [use EXCEPT ![f.result] = "compactionResult"],
                  !.operations = [t.operations EXCEPT ![f.op] = compaction],
                  !.operation = current("compaction")] \in State
    BY <1>2, <2>2, <2>1, Zenon DEF State
  <2>4. DoCompactionStarted(t, f) =
          [t EXCEPT !.use = [use EXCEPT ![f.result] = "compactionResult"],
                    !.operations = [t.operations EXCEPT ![f.op] = compaction],
                    !.operation = current("compaction")]
    BY Zenon DEF DoCompactionStarted, State, use, compaction, current
  <2> QED BY <2>3, <2>4
<1> QED BY <1>4, <1>5

(* apply_step_attempt keeps the state well typed, closing the other         *)
(* attempts of the step included.                                           *)
LEMMA StepAttemptType ==
  ASSUME NEW t \in State, NEW f, f.op \in Id, f.step \in Id, f.attempt \in Id,
         f.context \in Id, f.config \in ConfigurationSnapshot, f.number \in 1..2,
         f.kind \in {"run", "compaction"},
         t.operation \in OperationState, t.operations[f.op] \in OperationInfo
  PROVE  DoStepAttempt(t, f) \in State
<1> DEFINE new == [op |-> f.op, step |-> f.step, attempt |-> f.number,
                   kind |-> f.kind, context |-> f.context,
                   config |-> f.config, closed |-> FALSE, failed |-> FALSE,
                   settled |-> None, copyClosed |-> FALSE]
           attempts == [a \in Id |->
                          IF a = f.attempt THEN new
                          ELSE IF a \in AttemptsOfStep(t, f.step)
                            THEN [t.attempts[a] EXCEPT !.closed = TRUE]
                            ELSE t.attempts[a]]
           use == [t.use EXCEPT ![f.attempt] = "identity"]
           info == [t.operations[f.op] EXCEPT !.latest = f.step]
           step == [attempt |-> f.attempt, status |-> "attempting"]
           o == [t.operation EXCEPT !.step = step]
<1>1. new \in AttemptInfo
  BY Zenon DEF AttemptInfo
<1> HIDE DEF new
<1>2. attempts \in [Id -> AttemptInfo \cup {None}]
  <2> SUFFICES ASSUME NEW a \in Id, a \in AttemptsOfStep(t, f.step)
               PROVE  [t.attempts[a] EXCEPT !.closed = TRUE] \in AttemptInfo
    BY <1>1, Fields
  <2>1. t.attempts[a] \in AttemptInfo
    BY Fields DEF AttemptsOfStep
  <2> QED BY <2>1, AttemptClosed
<1>3. [use EXCEPT ![f.step] = "identity"] \in [Id -> Use]
  BY Fields DEF Use
<1>4. info \in OperationInfo
  BY Zenon DEF OperationInfo
<1> HIDE DEF info
<1>5. [t.operations EXCEPT ![f.op] = info] \in [Id -> OperationInfo \cup {None}]
  BY <1>4, Fields
<1>6. o \in OperationState
  <2>1. step \in StepState
    BY DEF StepState
  <2> HIDE DEF step
  <2> QED BY <2>1, Zenon DEF OperationState
<1> HIDE DEF use, attempts, o
<1>7. [t EXCEPT !.use = [use EXCEPT ![f.step] = "identity"],
                !.attempts = attempts,
                !.operations = [t.operations EXCEPT ![f.op] = info],
                !.operation = o] \in State
  BY <1>2, <1>3, <1>5, <1>6, Zenon DEF State
<1>8. DoStepAttempt(t, f) =
        [t EXCEPT !.use = [use EXCEPT ![f.step] = "identity"],
                  !.attempts = attempts,
                  !.operations = [t.operations EXCEPT ![f.op] = info],
                  !.operation = o]
  BY Zenon DEF DoStepAttempt, State, use, attempts, new, info, o
<1> QED BY <1>7, <1>8

(* apply_step_failed keeps the state well typed.                            *)
LEMMA StepFailedType ==
  ASSUME NEW t \in State, NEW f, f.attempt \in Id,
         t.operation \in OperationState, t.attempts[f.attempt] \in AttemptInfo
  PROVE  DoStepFailed(t, f) \in State
<1> DEFINE a == [t.attempts[f.attempt] EXCEPT
                    !.closed = TRUE, !.copyClosed = TRUE, !.failed = TRUE]
           o == WithStatus(t.operation, f.attempt, "failed")
<1>1. a \in AttemptInfo
  BY AttemptClosed
<1>2. o \in OperationState
  BY StatusType
<1> HIDE DEF a, o
<1>3. [t.attempts EXCEPT ![f.attempt] = a] \in [Id -> AttemptInfo \cup {None}]
  BY <1>1, Fields
<1>4. [t EXCEPT !.attempts = [t.attempts EXCEPT ![f.attempt] = a],
                !.operation = o] \in State
  BY <1>2, <1>3, Zenon DEF State
<1>5. DoStepFailed(t, f) =
        [t EXCEPT !.attempts = [t.attempts EXCEPT ![f.attempt] = a],
                  !.operation = o]
  BY Zenon DEF DoStepFailed, State, a, o
<1> QED BY <1>4, <1>5

(* apply_tool_started keeps the state well typed.                           *)
LEMMA ToolStartedType ==
  ASSUME NEW t \in State, NEW f, f.id \in Id, f.result \in Id, f.assistant \in Id,
         f.index \in Nat, f.op \in Id, f.step \in Id, f.call \in CallId,
         f.name \in ToolName, f.args \in Arguments,
         f.replay \in {"safe", "never"}, f.key \in ReplayKey, f.env \in Environment
  PROVE  DoToolStarted(t, f) \in State
<1> DEFINE use == [t.use EXCEPT ![f.id] = "used"]
           tool == [op |-> f.op, step |-> f.step, assistant |-> f.assistant,
                    index |-> f.index, call |-> f.call, name |-> f.name,
                    args |-> f.args, replay |-> f.replay, key |-> f.key,
                    env |-> f.env, result |-> f.result, status |-> "pending"]
           pairs == t.pairs \cup {<<f.assistant, f.index>>}
<1>1. tool \in ToolCallState
  BY DEF ToolCallState
<1>2. [use EXCEPT ![f.result] = "toolResult"] \in [Id -> Use]
  BY Fields DEF Use
<1>3. pairs \in SUBSET (Id \X Nat)
  BY Fields
<1> HIDE DEF use, tool, pairs
<1>4. [t.tools EXCEPT ![f.id] = tool] \in [Id -> ToolCallState \cup {None}]
  BY <1>1, Fields
<1>5. [t EXCEPT !.use = [use EXCEPT ![f.result] = "toolResult"],
                !.pairs = pairs,
                !.tools = [t.tools EXCEPT ![f.id] = tool]] \in State
  BY <1>2, <1>3, <1>4, Zenon DEF State
<1>6. DoToolStarted(t, f) =
        [t EXCEPT !.use = [use EXCEPT ![f.result] = "toolResult"],
                  !.pairs = pairs,
                  !.tools = [t.tools EXCEPT ![f.id] = tool]]
  BY Zenon DEF DoToolStarted, State, use, pairs, tool
<1> QED BY <1>5, <1>6

(* apply_abort_requested keeps the state well typed.                        *)
LEMMA AbortType ==
  ASSUME NEW t \in State, NEW f, t.operation \in OperationState
  PROVE  DoAbortRequested(t, f) \in State
<1> DEFINE o == [t.operation EXCEPT !.abort = TRUE]
<1>1. o \in OperationState
  BY Zenon DEF OperationState
<1> HIDE DEF o
<1>2. [t EXCEPT !.operation = o] \in State
  BY <1>1, Zenon DEF State
<1> QED BY <1>2 DEF DoAbortRequested, o

(* apply_operation_finished keeps the state well typed.                     *)
LEMMA FinishedType ==
  ASSUME NEW t \in State, NEW f, f.op \in Id, t.operations[f.op] \in OperationInfo
  PROVE  DoOperationFinished(t, f) \in State
<1> DEFINE info == [t.operations[f.op] EXCEPT !.finished = TRUE]
<1>1. info \in OperationInfo
  BY Zenon DEF OperationInfo
<1> HIDE DEF info
<1>2. [t.operations EXCEPT ![f.op] = info] \in [Id -> OperationInfo \cup {None}]
  BY <1>1, Fields
<1>3. [t EXCEPT !.operations = [t.operations EXCEPT ![f.op] = info],
                !.operation = None] \in State
  BY <1>2, Zenon DEF State
<1> QED BY <1>3 DEF DoOperationFinished, info

(* apply_usage keeps the state well typed.                                  *)
LEMMA UsageType ==
  ASSUME NEW t \in State, NEW f, f.amount \in Nat
  PROVE  DoUsage(t, f) \in State
<1>1. t.usage + f.amount \in Nat
  BY Fields
<1> QED BY <1>1, Zenon DEF DoUsage, State

-----------------------------------------------------------------------------
(* Type correctness is preserved *)

(* A call is found in an entry of the right type, and so are the step and   *)
(* the operation of an entry with calls.                                    *)
LEMMA CallTypes ==
  ASSUME NEW s, s \in State, Linked(s), NEW e \in Id, s.entries[e] # None,
         NEW n \in DOMAIN s.entries[e].calls
  PROVE  /\ n \in Nat
         /\ s.entries[e].calls[n] \in Call
         /\ s.entries[e].op \in Id
         /\ s.entries[e].step \in Id
<1>1. s.entries[e] \in Entry
  BY Fields
<1>2. s.entries[e].calls \in Seq(Call)
  BY <1>1 DEF Entry
<1>3. s.entries[e].calls # << >>
  BY <1>2
<1> QED BY <1>2, <1>3 DEF Linked

(* The current operation, and any unfinished one, is a real one: neither    *)
(* register holds an absent value.                                          *)
LEMMA CurrentType ==
  ASSUME NEW s, s \in State, OneCurrent(s)
  PROVE  /\ ~Idle(s) => s.operation \in OperationState
         /\ \A op : op \in Id /\ Unfinished(s, op)
              => s.operation \in OperationState /\ s.operations[op] \in OperationInfo
BY Fields DEF OneCurrent, Unfinished, Idle

(* Every fact the reducer accepts leads from a state that is sound to    *)
(* a well typed one.                                                        *)
LEMMA StateTyped ==
  ASSUME NEW s, NEW s1, Sound(s), Adds(s, s1)
  PROVE  s1 \in State
<1> USE DEF ReducesUser, ReducesAssistant, ReducesSynthetic, ReducesResult,
            ReducesCompaction, ReducesRunStarted, ReducesCompactionStarted,
            ReducesStepAttempt, ReducesStepFailed, ReducesToolStarted,
            ReducesAbortRequested, ReducesOperationFinished, ReducesUsage
<1>0. s \in State /\ OneCurrent(s) /\ Linked(s)
  BY DEF Sound
<1>1. CASE AddsUser(s, s1)
  BY <1>0, <1>1, UserType DEF AddsUser
<1>2. CASE AddsAssistant(s, s1)
  <2> PICK i \in Id, a \in Id, stop \in Stop, calls \in Seq(Call), text \in BOOLEAN :
        LET f == [type |-> "assistant", id |-> i, step |-> s.attempts[a].step,
                  attempt |-> a, stop |-> stop, calls |-> calls, text |-> text]
        IN  CanAssistant(s, f) /\ s1 = DoAssistant(s, f)
    BY <1>2 DEF AddsAssistant
  <2>1. calls \in Seq(Call)
    OBVIOUS
  <2> QED BY <1>0, <2>1, AssistantType
<1>3. CASE AddsSynthetic(s, s1)
  <2> PICK i \in Id, e \in {j \in Id : s.entries[j] # None} :
        \E n \in DOMAIN s.entries[e].calls :
        LET f == [type |-> "synthetic", id |-> i, step |-> s.entries[e].step,
                  assistant |-> e, index |-> n,
                  call |-> s.entries[e].calls[n].id,
                  name |-> s.entries[e].calls[n].name]
        IN  CanSynthetic(s, f) /\ s1 = DoSynthetic(s, f)
    BY <1>3 DEF AddsSynthetic
  <2> PICK n \in DOMAIN s.entries[e].calls :
        LET f == [type |-> "synthetic", id |-> i, step |-> s.entries[e].step,
                  assistant |-> e, index |-> n,
                  call |-> s.entries[e].calls[n].id,
                  name |-> s.entries[e].calls[n].name]
        IN  CanSynthetic(s, f) /\ s1 = DoSynthetic(s, f)
    OBVIOUS
  <2>1. s.entries[e].step \in Id /\ s.entries[e].calls[n].id \in CallId /\ n \in Nat
    BY <1>0, CallTypes DEF Call
  <2>2. s.operation \in OperationState
    BY <1>0, CurrentType DEF CanSynthetic
  <2> QED BY <1>0, <2>1, <2>2, SyntheticType
<1>4. CASE AddsResult(s, s1)
  <2> PICK t \in Id :
        LET f == [type |-> "result", id |-> s.tools[t].result,
                  step |-> s.tools[t].step, started |-> t,
                  call |-> s.tools[t].call]
        IN  s.tools[t] # None /\ CanResult(s, f) /\ s1 = DoResult(s, f)
    BY <1>4 DEF AddsResult
  <2>1. s.tools[t] \in ToolCallState
    BY <1>0, Fields
  <2>2. s.tools[t].result \in Id /\ s.tools[t].step \in Id /\ s.tools[t].call \in CallId
    BY <2>1 DEF ToolCallState
  <2> QED BY <1>0, <2>1, <2>2, ResultType
<1>5. CASE AddsCompaction(s, s1)
  <2> PICK through \in Id :
        LET f == [type |-> "compaction",
                  id |-> s.operations[s.operation.id].result,
                  op |-> s.operation.id, through |-> through,
                  retained |-> Retained(s, through)]
        IN  /\ ~Idle(s) /\ CanCompaction(s, f) /\ s1 = DoCompaction(s, f)
    BY <1>5 DEF AddsCompaction
  <2>1. s.operation \in OperationState
    BY <1>0, CurrentType
  <2>2. s.operation.id \in Id
    BY <2>1 DEF OperationState
  <2>3. /\ s.operations[s.operation.id] \in OperationInfo
        /\ s.operations[s.operation.id] # None
        /\ s.operations[s.operation.id].kind = "compaction"
    <3>1. Unfinished(s, s.operation.id) /\ s.operation.kind = "compaction"
      BY DEF CanCompaction, CurrentIs
    <3> QED BY <1>0, <2>2, <3>1, Fields DEF Unfinished, Linked
  <2>4. s.operations[s.operation.id].result \in Id
    <3>1. s.operations[s.operation.id].result \in Id \cup {None}
      BY <2>3 DEF OperationInfo
    <3> QED BY <1>0, <2>2, <2>3, <3>1 DEF Linked
  <2>5. s.operation.step # None
    BY DEF CanCompaction
  <2>6. s.operation.step.attempt \in Id
    BY <2>1, <2>5 DEF OperationState, StepState
  <2>7. s.attempts[s.operation.step.attempt] \in AttemptInfo
    BY <1>0, <2>5, <2>6, Fields DEF Linked
  <2>8. Retained(s, through) \in Seq(Id)
    BY <1>0, RetainedType
  <2> QED BY <1>0, <2>1, <2>2, <2>4, <2>5, <2>7, <2>8, CompactionType
<1>6. CASE AddsRunStarted(s, s1)
  BY <1>0, <1>6, StartedType DEF AddsRunStarted
<1>7. CASE AddsCompactionStarted(s, s1)
  BY <1>0, <1>7, StartedType DEF AddsCompactionStarted
<1>8. CASE AddsStepAttempt(s, s1)
  <2> PICK op \in Id, context \in Id, config \in ConfigurationSnapshot,
           number \in 1..2, step \in Id :
        \E attempt \in Id :
        LET f == [type |-> "stepAttempt", op |-> op, step |-> step,
                  attempt |-> attempt, kind |-> s.operations[op].kind,
                  number |-> number, context |-> context, config |-> config]
        IN  CanStepAttempt(s, f) /\ s1 = DoStepAttempt(s, f)
    BY <1>8 DEF AddsStepAttempt
  <2> PICK attempt \in Id :
        LET f == [type |-> "stepAttempt", op |-> op, step |-> step,
                  attempt |-> attempt, kind |-> s.operations[op].kind,
                  number |-> number, context |-> context, config |-> config]
        IN  CanStepAttempt(s, f) /\ s1 = DoStepAttempt(s, f)
    OBVIOUS
  <2>1. s.operation \in OperationState /\ s.operations[op] \in OperationInfo
    BY <1>0, CurrentType DEF CanStepAttempt
  <2>2. s.operations[op].kind \in {"run", "compaction"}
    BY <2>1 DEF OperationInfo
  <2>3. step \in Id /\ attempt \in Id
    OBVIOUS
  <2> QED BY <1>0, <2>1, <2>2, <2>3, StepAttemptType
<1>9. CASE AddsStepFailed(s, s1)
  <2> PICK a \in Id :
        LET f == [type |-> "stepFailed", op |-> s.attempts[a].op,
                  step |-> s.attempts[a].step, attempt |-> a]
        IN  CanStepFailed(s, f) /\ s1 = DoStepFailed(s, f)
    BY <1>9 DEF AddsStepFailed
  <2>1. s.attempts[a] \in AttemptInfo
    BY <1>0, Fields DEF CanStepFailed
  <2>2. s.attempts[a].op \in Id
    BY <2>1 DEF AttemptInfo
  <2>3. s.operation \in OperationState
    BY <1>0, <2>2, CurrentType DEF CanStepFailed
  <2> QED BY <1>0, <2>1, <2>3, StepFailedType
<1>10. CASE AddsToolStarted(s, s1)
  <2> HIDE DEF ReducesToolStarted
  <2> PICK i \in Id, e \in {j \in Id : s.entries[j] # None},
           args \in Arguments, replay \in {"safe", "never"}, key \in ReplayKey,
           env \in Environment :
        \E n \in DOMAIN s.entries[e].calls, result \in Id :
        LET f == [type |-> "toolStarted", id |-> i, op |-> s.entries[e].op,
                  step |-> s.entries[e].step, assistant |-> e, index |-> n,
                  call |-> s.entries[e].calls[n].id,
                  name |-> s.entries[e].calls[n].name,
                  args |-> args,
                  replay |-> replay, key |-> key, env |-> env,
                  result |-> result]
        IN  ReducesToolStarted(s, s1, f)
    BY <1>10 DEF AddsToolStarted
  <2> PICK n \in DOMAIN s.entries[e].calls, result \in Id :
        LET f == [type |-> "toolStarted", id |-> i, op |-> s.entries[e].op,
                  step |-> s.entries[e].step, assistant |-> e, index |-> n,
                  call |-> s.entries[e].calls[n].id,
                  name |-> s.entries[e].calls[n].name,
                  args |-> args,
                  replay |-> replay, key |-> key, env |-> env,
                  result |-> result]
        IN  ReducesToolStarted(s, s1, f)
    OBVIOUS
  <2> DEFINE f == [type |-> "toolStarted", id |-> i, op |-> s.entries[e].op,
                   step |-> s.entries[e].step, assistant |-> e, index |-> n,
                   call |-> s.entries[e].calls[n].id,
                   name |-> s.entries[e].calls[n].name,
                   args |-> args,
                   replay |-> replay, key |-> key, env |-> env,
                   result |-> result]
  <2>0. s1 = DoToolStarted(s, f)
    BY DEF ReducesToolStarted
  <2>1. /\ n \in Nat /\ s.entries[e].op \in Id /\ s.entries[e].step \in Id
        /\ s.entries[e].calls[n] \in Call
    BY <1>0, CallTypes
  <2>2. /\ s.entries[e].calls[n].id \in CallId
        /\ s.entries[e].calls[n].name \in ToolName
    BY <2>1 DEF Call
  <2>3. i \in Id /\ result \in Id
    OBVIOUS
  <2> QED BY <1>0, <2>0, <2>1, <2>2, <2>3, ToolStartedType
<1>11. CASE AddsAbortRequested(s, s1)
  BY <1>0, <1>11, CurrentType, AbortType DEF AddsAbortRequested, CanAbortRequested
<1>12. CASE AddsOperationFinished(s, s1)
  BY <1>0, <1>12, CurrentType, FinishedType DEF AddsOperationFinished, CanOperationFinished
<1>13. CASE AddsUsage(s, s1)
  BY <1>0, <1>13, UsageType, MaxUsageAssumption DEF AddsUsage
<1> QED BY <1>1, <1>2, <1>3, <1>4, <1>5, <1>6, <1>7, <1>8, <1>9, <1>10, <1>11,
           <1>12, <1>13 DEF Adds, AddsProgress

-----------------------------------------------------------------------------
(* Agreement of the current operation with the rest is preserved *)

(* What most facts leave alone: the operations, which of them is current,   *)
(* which attempt its step names, and whose attempt each one is.             *)
Undisturbed(s, s1) ==
  /\ s1.operations = s.operations
  /\ Idle(s) => Idle(s1)
  /\ ~Idle(s) =>
       /\ ~Idle(s1)
       /\ s1.operation.id = s.operation.id
       /\ s1.operation.kind = s.operation.kind
       /\ s1.operation.step # None =>
            /\ s.operation.step # None
            /\ s1.operation.step.attempt = s.operation.step.attempt
  /\ \A a \in Id :
       s.attempts[a] # None =>
         s1.attempts[a] # None /\ s1.attempts[a].op = s.attempts[a].op

(* An entry with calls knows its operation, its step and its attempt.       *)
Shaped(entry) ==
  entry # None /\ entry.calls # << >>
    => {entry.op, entry.step, entry.attempt} \subseteq Id

EntriesShaped(t) == \A i \in Id : Shaped(t.entries[i])

(* A fact that disturbs neither the operations nor the attempts of the      *)
(* current step preserves OneUnfinished and References.                     *)
LEMMA UndisturbedAgrees ==
  ASSUME NEW s, NEW s1, Sound(s), Undisturbed(s, s1), s1 \in State, EntriesShaped(s1)
  PROVE  OneCurrent(s1) /\ Linked(s1)
<1>1. s \in State
  BY DEF Sound
<1>2. OneCurrent(s1)
  BY DEF Sound, Undisturbed, OneCurrent, Unfinished
<1>3. ASSUME ~Idle(s1)
      PROVE  /\ s1.operations[s1.operation.id].kind = s1.operation.kind
             /\ s1.operation.step # None =>
                  /\ s1.attempts[s1.operation.step.attempt] # None
                  /\ s1.attempts[s1.operation.step.attempt].op = s1.operation.id
  <2>1. ~Idle(s)
    BY <1>3 DEF Undisturbed
  <2>2. s.operation \in OperationState
    BY <1>1, <2>1, Fields DEF Idle
  <2>3. s.operation.step # None => s.operation.step.attempt \in Id
    BY <2>2 DEF OperationState, StepState
  <2> QED BY <2>1, <2>3 DEF Sound, Undisturbed, Linked
<1>4. \A op \in Id :
        s1.operations[op] # None /\ s1.operations[op].kind = "compaction"
          => s1.operations[op].result # None
  BY DEF Sound, Undisturbed, Linked
<1> QED BY <1>2, <1>3, <1>4 DEF Linked, EntriesShaped, Shaped

(* A pushed entry is shaped as long as it has no calls or knows all three.  *)
LEMMA PushShaped ==
  ASSUME NEW t \in State, EntriesShaped(t), NEW i \in Id, NEW e \in Entry, Shaped(e)
  PROVE  /\ EntriesShaped(Push(t, i, e))
         /\ Push(t, i, e).operations = t.operations
         /\ Push(t, i, e).operation = t.operation
         /\ Push(t, i, e).attempts = t.attempts
         /\ Push(t, i, e) \in State
<1>1. Push(t, i, e).entries = [t.entries EXCEPT ![i] = e]
  BY Zenon DEF Push, State
<1>2. /\ Push(t, i, e).operations = t.operations
      /\ Push(t, i, e).operation = t.operation
      /\ Push(t, i, e).attempts = t.attempts
  BY Zenon DEF Push, State
<1>3. EntriesShaped(Push(t, i, e))
  BY <1>1, Fields DEF EntriesShaped
<1> QED BY <1>2, <1>3, PushType

(* Changing the status of the current step changes no identity, kind or     *)
(* attempt.                                                                 *)
LEMMA WithStatusKeeps ==
  ASSUME NEW o \in OperationState, NEW a, NEW status
  PROVE  /\ WithStatus(o, a, status).id = o.id
         /\ WithStatus(o, a, status).kind = o.kind
         /\ WithStatus(o, a, status).step # None =>
              /\ o.step # None
              /\ WithStatus(o, a, status).step.attempt = o.step.attempt
<1>1. CASE o.step # None /\ o.step.attempt = a
  <2>1. o.step \in StepState
    BY <1>1 DEF OperationState
  <2>2. [o.step EXCEPT !.status = status].attempt = o.step.attempt
    BY <2>1 DEF StepState
  <2> QED BY <1>1, <2>2, Zenon DEF WithStatus, OperationState
<1>2. CASE ~(o.step # None /\ o.step.attempt = a)
  BY <1>2 DEF WithStatus
<1> QED BY <1>1, <1>2

(* Settling, failing or superseding an attempt leaves its operation as it   *)
(* is.                                                                      *)
LEMMA ClosingKeeps ==
  ASSUME NEW a \in AttemptInfo, NEW i
  PROVE  /\ [a EXCEPT !.closed = TRUE, !.copyClosed = TRUE, !.settled = i].op = a.op
         /\ [a EXCEPT !.closed = TRUE, !.settled = i].op = a.op
         /\ [a EXCEPT !.closed = TRUE, !.copyClosed = TRUE, !.failed = TRUE].op = a.op
         /\ [a EXCEPT !.closed = TRUE].op = a.op
BY Zenon DEF AttemptInfo

(* A message that is only pushed disturbs nothing.                          *)
LEMMA PushQuiet ==
  ASSUME NEW s, NEW s1, Sound(s), NEW i \in Id, NEW e \in Entry, Shaped(e),
         s1.operations = Push(s, i, e).operations,
         s1.operation = Push(s, i, e).operation,
         s1.attempts = Push(s, i, e).attempts,
         s1.entries = Push(s, i, e).entries
  PROVE  Undisturbed(s, s1) /\ EntriesShaped(s1)
<1>1. s \in State /\ EntriesShaped(s)
  BY DEF Sound, Linked, EntriesShaped, Shaped
<1>2. /\ EntriesShaped(Push(s, i, e))
      /\ s1.operations = s.operations
      /\ s1.operation = s.operation
      /\ s1.attempts = s.attempts
  BY <1>1, PushShaped
<1>3. EntriesShaped(s1)
  BY <1>2 DEF EntriesShaped
<1>4. Undisturbed(s, s1)
  BY <1>2 DEF Undisturbed, Idle
<1> QED BY <1>3, <1>4

(* A user message disturbs no operation, and its entry names nothing.       *)
LEMMA UserQuiet ==
  ASSUME NEW s, NEW s1, Sound(s), AddsUser(s, s1)
  PROVE  Undisturbed(s, s1) /\ EntriesShaped(s1)
<1> PICK i \in Id :
      s1 = DoUser(s, [type |-> "user", id |-> i])
  BY DEF AddsUser, ReducesUser
<1> DEFINE e == UserEntry([type |-> "user", id |-> i])
<1>1. e \in Entry /\ Shaped(e) /\ i \in Id
  BY DEF UserEntry, Entry, Shaped
<1>2. s1 = Push(s, i, e)
  BY DEF DoUser
<1> QED BY <1>1, <1>2, PushQuiet

(* A synthetic result disturbs no operation, and its entry carries no       *)
(* calls.                                                                   *)
LEMMA SyntheticQuiet ==
  ASSUME NEW s, NEW s1, Sound(s), AddsSynthetic(s, s1)
  PROVE  Undisturbed(s, s1) /\ EntriesShaped(s1)
<1> PICK i \in Id, a \in {j \in Id : s.entries[j] # None} :
      \E n \in DOMAIN s.entries[a].calls :
      LET f == [type |-> "synthetic", id |-> i, step |-> s.entries[a].step,
                assistant |-> a, index |-> n,
                call |-> s.entries[a].calls[n].id,
                name |-> s.entries[a].calls[n].name]
      IN  ~Idle(s) /\ s1 = DoSynthetic(s, f)
  BY DEF AddsSynthetic, ReducesSynthetic, CanSynthetic
<1> PICK n \in DOMAIN s.entries[a].calls :
      LET f == [type |-> "synthetic", id |-> i, step |-> s.entries[a].step,
                assistant |-> a, index |-> n,
                call |-> s.entries[a].calls[n].id,
                name |-> s.entries[a].calls[n].name]
      IN  ~Idle(s) /\ s1 = DoSynthetic(s, f)
  OBVIOUS
<1> DEFINE e == ToolEntry(s.operation.id, s.entries[a].step, s.entries[a].calls[n].id)
<1>0. s \in State
  BY DEF Sound
<1>1. s.entries[a].step \in Id /\ s.entries[a].calls[n].id \in CallId
  BY CallTypes DEF Call, Sound
<1>2. s.operation.id \in Id
  BY CurrentType DEF Sound, OperationState
<1>3. e \in Entry /\ Shaped(e) /\ i \in Id
  BY <1>1, <1>2 DEF ToolEntry, Entry, Shaped
<1> HIDE DEF e
<1>4. Push(s, i, e) \in State
  BY <1>0, <1>3, PushType
<1>5. s1 = [Push(s, i, e) EXCEPT !.pairs = @ \cup {<<a, n>>}]
  BY DEF DoSynthetic, e
<1>6. /\ s1.operations = Push(s, i, e).operations
      /\ s1.operation = Push(s, i, e).operation
      /\ s1.attempts = Push(s, i, e).attempts
      /\ s1.entries = Push(s, i, e).entries
  BY <1>4, <1>5, Zenon DEF State
<1> QED BY <1>3, <1>6, PushQuiet

(* The result of a started tool disturbs no operation, and its entry        *)
(* carries no calls.                                                        *)
LEMMA ResultQuiet ==
  ASSUME NEW s, NEW s1, Sound(s), AddsResult(s, s1)
  PROVE  Undisturbed(s, s1) /\ EntriesShaped(s1)
<1> PICK t \in Id :
      LET f == [type |-> "result", id |-> s.tools[t].result,
                step |-> s.tools[t].step, started |-> t,
                call |-> s.tools[t].call]
      IN  s.tools[t] # None /\ s1 = DoResult(s, f)
  BY DEF AddsResult, ReducesResult
<1> DEFINE e == ToolEntry(s.tools[t].op, s.tools[t].step, s.tools[t].call)
           i == s.tools[t].result
<1>0. s \in State
  BY DEF Sound
<1>1. s.tools[t] \in ToolCallState
  BY <1>0, Fields
<1>2. e \in Entry /\ Shaped(e) /\ i \in Id
  BY <1>1 DEF ToolEntry, Entry, Shaped, ToolCallState
<1>3. s1 = [Push(s, i, e) EXCEPT !.tools[t].status = "completed"]
  BY DEF DoResult
<1> HIDE DEF e, i
<1>4. Push(s, i, e) \in State
  BY <1>0, <1>2, PushType
<1>5. /\ s1.operations = Push(s, i, e).operations
      /\ s1.operation = Push(s, i, e).operation
      /\ s1.attempts = Push(s, i, e).attempts
      /\ s1.entries = Push(s, i, e).entries
  BY <1>3, <1>4, Zenon DEF State
<1> QED BY <1>2, <1>5, PushQuiet

(* An assistant message only settles the current attempt; its entry names   *)
(* the operation, step and attempt it came from.                            *)
LEMMA AssistantQuiet ==
  ASSUME NEW s, NEW s1, Sound(s), AddsAssistant(s, s1)
  PROVE  Undisturbed(s, s1) /\ EntriesShaped(s1)
<1> PICK i \in Id, a \in Id, stop \in Stop, calls \in Seq(Call), text \in BOOLEAN :
      LET f == [type |-> "assistant", id |-> i, step |-> s.attempts[a].step,
                attempt |-> a, stop |-> stop, calls |-> calls, text |-> text]
      IN  s.attempts[a] # None /\ CanAssistant(s, f) /\ s1 = DoAssistant(s, f)
  BY DEF AddsAssistant, ReducesAssistant
<1> DEFINE f == [type |-> "assistant", id |-> i, step |-> s.attempts[a].step,
                 attempt |-> a, stop |-> stop, calls |-> calls, text |-> text]
           e == AssistantEntry(s, f)
           info == [s.attempts[a] EXCEPT !.closed = TRUE, !.copyClosed = TRUE,
                                         !.settled = i]
           o == WithStatus(s.operation, a, "settled")
<1>0. s \in State /\ EntriesShaped(s)
  BY DEF Sound, Linked, EntriesShaped, Shaped
<1>1. s.attempts[a] \in AttemptInfo
  BY <1>0, Fields
<1>2. calls \in Seq(Call)
  OBVIOUS
<1>3. i \in Id
  OBVIOUS
<1>4. e \in Entry
  BY <1>1, <1>2, <1>3 DEF AssistantEntry, Entry, AttemptInfo
<1>5. Shaped(e)
  BY <1>1, <1>3 DEF AssistantEntry, Shaped, AttemptInfo
<1>6. ~Idle(s) /\ s.operation \in OperationState
  BY <1>0, CurrentType DEF CanAssistant, CurrentIs, Sound
<1>7. s1 = DoAssistant(s, f)
  OBVIOUS
<1> DEFINE p == Push(s, i, e)
<1>8. /\ EntriesShaped(p)
      /\ p.operations = s.operations
      /\ p.operation = s.operation
      /\ p.attempts = s.attempts
      /\ p \in State
  <2> HIDE DEF e
  <2> QED BY <1>0, <1>3, <1>4, <1>5, PushShaped
<1> HIDE DEF p, info, o
<1>9. /\ s1.operations = s.operations
      /\ s1.operation = o
      /\ s1.attempts = [s.attempts EXCEPT ![a] = info]
      /\ s1.entries = p.entries
  <2>1. s1 = [p EXCEPT !.attempts = [s.attempts EXCEPT ![a] = info],
                       !.operation = o]
    BY <1>7, <1>8 DEF DoAssistant, p, info, o
  <2> QED BY <1>8, <2>1, Zenon DEF State
<1> USE DEF info, o
<1>10. /\ o.id = s.operation.id
       /\ o.kind = s.operation.kind
       /\ o.step # None => s.operation.step # None
                            /\ o.step.attempt = s.operation.step.attempt
       /\ o # None
  BY <1>6, WithStatusKeeps, StatusType, NoneAssumption
<1>11. info.op = s.attempts[a].op /\ info # None
  BY <1>1, <1>3, ClosingKeeps, AttemptClosed, NoneAssumption
<1> HIDE DEF info, o
<1>12. \A b \in Id : s.attempts[b] # None =>
         s1.attempts[b] # None /\ s1.attempts[b].op = s.attempts[b].op
  BY <1>0, <1>9, <1>11, Fields
<1>13. Undisturbed(s, s1)
  BY <1>6, <1>9, <1>10, <1>12 DEF Undisturbed, Idle
<1> QED BY <1>8, <1>9, <1>13 DEF EntriesShaped

(* A compaction entry only settles the current attempt, and carries no      *)
(* calls.                                                                   *)
LEMMA CompactionQuiet ==
  ASSUME NEW s, NEW s1, Sound(s), AddsCompaction(s, s1)
  PROVE  Undisturbed(s, s1) /\ EntriesShaped(s1)
<1> PICK through \in Id :
      LET f == [type |-> "compaction",
                id |-> s.operations[s.operation.id].result,
                op |-> s.operation.id, through |-> through,
                retained |-> Retained(s, through)]
      IN  ~Idle(s) /\ CanCompaction(s, f) /\ s1 = DoCompaction(s, f)
  BY DEF AddsCompaction, ReducesCompaction
<1> DEFINE a == s.operation.step.attempt
           i == s.operations[s.operation.id].result
           e == [type |-> "compaction", op |-> s.operation.id,
                 step |-> s.attempts[a].step, attempt |-> a,
                 stop |-> "none", calls |-> << >>, text |-> TRUE, call |-> None]
           info == [s.attempts[a] EXCEPT !.closed = TRUE, !.settled = i]
           o == [s.operation EXCEPT !.step.status = "settled"]
<1>0. s \in State /\ EntriesShaped(s)
  BY DEF Sound, Linked, EntriesShaped, Shaped
<1>1. s.operation \in OperationState /\ s.operation.step # None
  BY CurrentType DEF Sound, CanCompaction
<1>2. s.operation.step \in StepState /\ a \in Id
  BY <1>1 DEF OperationState, StepState
<1>3. s.attempts[a] \in AttemptInfo
  BY <1>0, <1>1, <1>2, Fields DEF Sound, Linked, Idle
<1>4. s.operation.id \in Id
  BY <1>1 DEF OperationState
<1>5. i \in Id
  <2>1. Unfinished(s, s.operation.id) /\ s.operation.kind = "compaction"
    BY DEF CanCompaction, CurrentIs
  <2>2. /\ s.operations[s.operation.id] \in OperationInfo
        /\ s.operations[s.operation.id] # None
        /\ s.operations[s.operation.id].kind = "compaction"
    BY <1>0, <1>4, <2>1, Fields DEF Unfinished, Sound, Linked
  <2>3. i \in Id \cup {None}
    BY <2>2 DEF OperationInfo
  <2> QED BY <1>4, <2>2, <2>3 DEF Sound, Linked
<1>6. Shaped(e)
  BY DEF Shaped
<1>7. o.id = s.operation.id /\ o.kind = s.operation.kind /\ o # None
      /\ o.step.attempt = a
  <2>1. [s.operation.step EXCEPT !.status = "settled"].attempt = a
    BY <1>2 DEF StepState
  <2>2. o \in OperationState
    <3>1. [s.operation.step EXCEPT !.status = "settled"] \in StepState
      BY <1>2 DEF StepState
    <3> QED BY <1>1, <3>1, Zenon DEF OperationState
  <2>3. o.id = s.operation.id /\ o.kind = s.operation.kind
        /\ o.step = [s.operation.step EXCEPT !.status = "settled"]
    BY <1>1, Zenon DEF OperationState
  <2> QED BY <2>1, <2>2, <2>3, NoneAssumption
<1>8. info.op = s.attempts[a].op /\ info # None
  BY <1>3, <1>5, ClosingKeeps, AttemptClosed, NoneAssumption
<1>9. /\ s1.operations = s.operations
      /\ s1.operation = o
      /\ s1.attempts = [s.attempts EXCEPT ![a] = info]
      /\ s1.entries = [s.entries EXCEPT ![i] = e]
  BY <1>0, Zenon DEF DoCompaction, State
<1> HIDE DEF e, info, o, i
<1>10. EntriesShaped(s1)
  BY <1>0, <1>5, <1>6, <1>9, Fields DEF EntriesShaped
<1>11. \A b \in Id : s.attempts[b] # None =>
         s1.attempts[b] # None /\ s1.attempts[b].op = s.attempts[b].op
  BY <1>0, <1>2, <1>8, <1>9, Fields
<1>12. Undisturbed(s, s1)
  BY <1>1, <1>7, <1>9, <1>11 DEF Undisturbed, Idle
<1> QED BY <1>10, <1>12

(* A failed attempt stays an attempt of its operation.                      *)
LEMMA StepFailedQuiet ==
  ASSUME NEW s, NEW s1, Sound(s), AddsStepFailed(s, s1)
  PROVE  Undisturbed(s, s1) /\ EntriesShaped(s1)
<1> PICK a \in Id :
      LET f == [type |-> "stepFailed", op |-> s.attempts[a].op,
                step |-> s.attempts[a].step, attempt |-> a]
      IN  CanStepFailed(s, f) /\ s1 = DoStepFailed(s, f)
  BY DEF AddsStepFailed, ReducesStepFailed
<1> DEFINE info == [s.attempts[a] EXCEPT !.closed = TRUE, !.copyClosed = TRUE,
                                         !.failed = TRUE]
           o == WithStatus(s.operation, a, "failed")
<1>0. s \in State /\ EntriesShaped(s)
  BY DEF Sound, Linked, EntriesShaped, Shaped
<1>1. s.attempts[a] \in AttemptInfo
  BY <1>0, Fields DEF CanStepFailed
<1>2. s.operation \in OperationState
  BY <1>1, CurrentType DEF CanStepFailed, AttemptInfo, Sound
<1>3. /\ o.id = s.operation.id
      /\ o.kind = s.operation.kind
      /\ o.step # None => s.operation.step # None
                           /\ o.step.attempt = s.operation.step.attempt
      /\ o # None
  BY <1>2, WithStatusKeeps, StatusType, NoneAssumption
<1>4. info.op = s.attempts[a].op /\ info # None
  BY <1>1, ClosingKeeps, AttemptClosed, NoneAssumption
<1>5. /\ s1.operations = s.operations
      /\ s1.operation = o
      /\ s1.attempts = [s.attempts EXCEPT ![a] = info]
      /\ s1.entries = s.entries
  BY <1>0, Zenon DEF DoStepFailed, State
<1> HIDE DEF info, o
<1>6. \A b \in Id : s.attempts[b] # None =>
        s1.attempts[b] # None /\ s1.attempts[b].op = s.attempts[b].op
  BY <1>0, <1>4, <1>5, Fields
<1>7. Undisturbed(s, s1)
  BY <1>2, <1>3, <1>5, <1>6, NoneAssumption DEF Undisturbed, Idle
<1> QED BY <1>0, <1>5, <1>7 DEF EntriesShaped

(* A started tool, an abort request and a usage fact leave operations,      *)
(* attempts and entries in agreement.                                       *)
LEMMA OtherQuiet ==
  ASSUME NEW s, NEW s1, Sound(s), AddsToolStarted(s, s1) \/ AddsAbortRequested(s, s1) \/ AddsUsage(s, s1)
  PROVE  Undisturbed(s, s1) /\ EntriesShaped(s1)
<1>0. s \in State /\ EntriesShaped(s)
  BY DEF Sound, Linked, EntriesShaped, Shaped
<1>1. CASE AddsToolStarted(s, s1)
  <2> DEFINE Kept(t) == /\ t.operations = s.operations
                        /\ t.operation = s.operation
                        /\ t.attempts = s.attempts
                        /\ t.entries = s.entries
  <2>1. \A f : Kept(DoToolStarted(s, f))
    BY <1>0, Zenon DEF DoToolStarted, State
  <2> HIDE DEF Kept
  <2>2. \A f : ReducesToolStarted(s, s1, f) => Kept(s1)
    BY <2>1 DEF ReducesToolStarted
  <2>3. Kept(s1)
    BY <1>1, <2>2 DEF AddsToolStarted
  <2> QED BY <1>0, <2>3 DEF Kept, Undisturbed, EntriesShaped, Idle
<1>2. CASE AddsAbortRequested(s, s1)
  <2>1. PICK f : CanAbortRequested(s, f) /\ s1 = DoAbortRequested(s, f)
    BY <1>2 DEF AddsAbortRequested, ReducesAbortRequested
  <2> DEFINE o == [s.operation EXCEPT !.abort = TRUE]
  <2>2. s.operation \in OperationState
    BY <2>1, CurrentType DEF CanAbortRequested, Sound
  <2>3. /\ o.id = s.operation.id /\ o.kind = s.operation.kind
        /\ o.step = s.operation.step /\ o \in OperationState
    BY <2>2, Zenon DEF OperationState
  <2>4. /\ s1.operations = s.operations /\ s1.operation = o
        /\ s1.attempts = s.attempts /\ s1.entries = s.entries
    BY <1>0, <2>1, Zenon DEF DoAbortRequested, State
  <2> HIDE DEF o
  <2> QED BY <1>0, <2>2, <2>3, <2>4, NoneAssumption DEF Undisturbed, EntriesShaped, Idle
<1>3. CASE AddsUsage(s, s1)
  <2>1. PICK f : s1 = DoUsage(s, f)
    BY <1>3 DEF AddsUsage, ReducesUsage
  <2>2. /\ s1.operations = s.operations /\ s1.operation = s.operation
        /\ s1.attempts = s.attempts /\ s1.entries = s.entries
    BY <1>0, <2>1, Zenon DEF DoUsage, State
  <2> QED BY <1>0, <2>2 DEF Undisturbed, EntriesShaped, Idle
<1> QED BY <1>1, <1>2, <1>3

(* An operation starts when none is current, under an identity no operation *)
(* has.                                                                     *)
LEMMA StartedAgrees ==
  ASSUME NEW s, NEW s1, Sound(s), Idle(s), NEW op \in Id, NEW info \in OperationInfo, NEW o,
         o # None, o.id = op, o.kind = info.kind, o.step = None,
         ~info.finished, info.kind = "compaction" => info.result # None,
         s1.operations = [s.operations EXCEPT ![op] = info],
         s1.operation = o, s1.entries = s.entries, s1.attempts = s.attempts
  PROVE  OneCurrent(s1) /\ Linked(s1)
<1>1. s \in State
  BY DEF Sound
<1>2. \A p \in Id : s1.operations[p] = IF p = op THEN info ELSE s.operations[p]
  BY <1>1, Fields
<1>3. info # None
  BY NoneAssumption
<1>4. ASSUME NEW p \in Id
      PROVE  Unfinished(s1, p) <=> ~Idle(s1) /\ s1.operation.id = p
  BY <1>2, <1>3 DEF Sound, OneCurrent, Unfinished, Idle
<1>5. OneCurrent(s1)
  BY <1>4 DEF OneCurrent
<1>6. Linked(s1)
  BY <1>2 DEF Sound, Linked, Idle
<1> QED BY <1>5, <1>6

(* A run starts only when no operation is unfinished, and both registers    *)
(* then hold it.                                                            *)
LEMMA RunStartedAgrees ==
  ASSUME NEW s, NEW s1, Sound(s), AddsRunStarted(s, s1)
  PROVE  OneCurrent(s1) /\ Linked(s1)
<1> PICK op \in Id, input \in Id :
      LET f == [type |-> "runStarted", op |-> op, input |-> input]
      IN  Idle(s) /\ s1 = DoRunStarted(s, f)
  BY DEF AddsRunStarted, ReducesRunStarted, CanRunStarted
<1> DEFINE info == [kind |-> "run", finished |-> FALSE,
                    result |-> None, latest |-> None]
           o == [kind |-> "run", id |-> op, input |-> input,
                 step |-> None, abort |-> FALSE]
<1>1. s \in State /\ op \in Id
  BY DEF Sound
<1>2. /\ s1.operations = [s.operations EXCEPT ![op] = info]
      /\ s1.operation = o
      /\ s1.attempts = s.attempts
      /\ s1.entries = s.entries
  BY <1>1, Zenon DEF DoRunStarted, State
<1>3. o \in OperationState /\ info \in OperationInfo
  BY <1>1 DEF OperationState, OperationInfo
<1>4. o # None
  BY <1>3, NoneAssumption
<1>5. /\ o.id = op /\ o.kind = info.kind /\ o.step = None /\ ~info.finished
      /\ info.kind = "compaction" => info.result # None
  BY <1>4
<1>6. Idle(s)
  OBVIOUS
<1> HIDE DEF info, o
<1> QED BY <1>1, <1>2, <1>3, <1>4, <1>5, <1>6, StartedAgrees

(* A compaction starts only when no operation is unfinished, and both       *)
(* registers then hold it and its provisioned result.                       *)
LEMMA CompactionStartedAgrees ==
  ASSUME NEW s, NEW s1, Sound(s), AddsCompactionStarted(s, s1)
  PROVE  OneCurrent(s1) /\ Linked(s1)
<1> PICK op \in Id, input \in Id :
      \E result \in Id :
        LET f == [type |-> "compactionStarted", op |-> op, input |-> input,
                  result |-> result, source |-> Source(s, input)]
        IN  Idle(s) /\ s1 = DoCompactionStarted(s, f)
  BY DEF AddsCompactionStarted, ReducesCompactionStarted, CanCompactionStarted
<1> PICK result \in Id :
      LET f == [type |-> "compactionStarted", op |-> op, input |-> input,
                result |-> result, source |-> Source(s, input)]
      IN  Idle(s) /\ s1 = DoCompactionStarted(s, f)
  OBVIOUS
<1> DEFINE info == [kind |-> "compaction", finished |-> FALSE,
                    result |-> result, latest |-> None]
           o == [kind |-> "compaction", id |-> op, input |-> input,
                 step |-> None, abort |-> FALSE]
<1>1. s \in State /\ op \in Id /\ result \in Id
  BY DEF Sound
<1>2. /\ s1.operations = [s.operations EXCEPT ![op] = info]
      /\ s1.operation = o
      /\ s1.attempts = s.attempts
      /\ s1.entries = s.entries
  BY <1>1, Zenon DEF DoCompactionStarted, State
<1>3. o \in OperationState /\ info \in OperationInfo
  BY <1>1 DEF OperationState, OperationInfo
<1>4. o # None /\ result # None
  BY <1>1, <1>3, NoneAssumption
<1>5. /\ o.id = op /\ o.kind = info.kind /\ o.step = None /\ ~info.finished
      /\ info.kind = "compaction" => info.result # None
  BY <1>4
<1>6. Idle(s)
  OBVIOUS
<1> HIDE DEF info, o
<1> QED BY <1>1, <1>2, <1>3, <1>4, <1>5, <1>6, StartedAgrees

(* A terminal fact finishes the operation in both registers.                *)
LEMMA OperationFinishedAgrees ==
  ASSUME NEW s, NEW s1, Sound(s), AddsOperationFinished(s, s1)
  PROVE  OneCurrent(s1) /\ Linked(s1)
<1> PICK op \in Id, final \in Id \cup {None}, how \in Outcome :
      LET f == [type |-> "operationFinished", op |-> op,
                kind |-> s.operations[op].kind, outcome |-> how,
                final |-> final]
      IN  CanOperationFinished(s, f) /\ s1 = DoOperationFinished(s, f)
  BY DEF AddsOperationFinished, ReducesOperationFinished
<1> DEFINE info == [s.operations[op] EXCEPT !.finished = TRUE]
<1>1. s \in State
  BY DEF Sound
<1>2. Unfinished(s, op) /\ ~Idle(s) /\ s.operation.id = op
  BY DEF CanOperationFinished
<1>3. s.operations[op] \in OperationInfo
  BY <1>2, CurrentType DEF Sound
<1>4. /\ info \in OperationInfo
      /\ info.finished
      /\ info.kind = s.operations[op].kind
      /\ info.result = s.operations[op].result
  BY <1>3, Zenon DEF OperationInfo
<1>5. /\ s1.operations = [s.operations EXCEPT ![op] = info]
      /\ s1.operation = None
      /\ s1.attempts = s.attempts
      /\ s1.entries = s.entries
  BY <1>1, Zenon DEF DoOperationFinished, State
<1> HIDE DEF info
<1>6. \A p \in Id : s1.operations[p] = IF p = op THEN info ELSE s.operations[p]
  BY <1>1, <1>5, Fields
<1>7. Idle(s1)
  BY <1>5 DEF Idle
<1>8. OneCurrent(s1)
  <2>1. \A p \in Id : ~Unfinished(s1, p)
    BY <1>2, <1>4, <1>6 DEF Unfinished, Sound, OneCurrent
  <2> QED BY <1>7, <2>1 DEF OneCurrent
<1>9. Linked(s1)
  <2>1. \A p \in Id :
          s1.operations[p] # None /\ s1.operations[p].kind = "compaction"
            => s1.operations[p].result # None
    BY <1>2, <1>4, <1>6 DEF Linked, Sound, Unfinished
  <2>2. EntriesShaped(s1)
    BY <1>5 DEF EntriesShaped, Shaped, Linked, Sound
  <2> QED BY <1>7, <2>1, <2>2 DEF Linked, EntriesShaped, Shaped
<1> QED BY <1>8, <1>9

(* What an attempt changes in the operations and in the attempts.           *)
LEMMA StepAttemptFields ==
  ASSUME NEW t \in State, NEW f, f.attempt \in Id
  PROVE  /\ DoStepAttempt(t, f).operations =
              [t.operations EXCEPT ![f.op] =
                 [t.operations[f.op] EXCEPT !.latest = f.step]]
         /\ DoStepAttempt(t, f).operation =
              [t.operation EXCEPT
                 !.step = [attempt |-> f.attempt, status |-> "attempting"]]
         /\ DoStepAttempt(t, f).entries = t.entries
         /\ DoStepAttempt(t, f).attempts[f.attempt] =
              [op |-> f.op, step |-> f.step, attempt |-> f.number,
               kind |-> f.kind, context |-> f.context,
               config |-> f.config, closed |-> FALSE, failed |-> FALSE,
               settled |-> None, copyClosed |-> FALSE]
<1>1. /\ DoStepAttempt(t, f).operations =
           [t.operations EXCEPT ![f.op] =
              [t.operations[f.op] EXCEPT !.latest = f.step]]
      /\ DoStepAttempt(t, f).operation =
           [t.operation EXCEPT
              !.step = [attempt |-> f.attempt, status |-> "attempting"]]
      /\ DoStepAttempt(t, f).entries = t.entries
  BY Zenon DEF DoStepAttempt, State
<1> DEFINE new == [op |-> f.op, step |-> f.step, attempt |-> f.number,
                   kind |-> f.kind, context |-> f.context,
                   config |-> f.config, closed |-> FALSE, failed |-> FALSE,
                   settled |-> None, copyClosed |-> FALSE]
           attempts == [a \in Id |->
                          IF a = f.attempt THEN new
                          ELSE IF a \in AttemptsOfStep(t, f.step)
                            THEN [t.attempts[a] EXCEPT !.closed = TRUE]
                            ELSE t.attempts[a]]
<1>2. DoStepAttempt(t, f).attempts = attempts
  BY Zenon DEF DoStepAttempt, State
<1> HIDE DEF new
<1>3. DoStepAttempt(t, f).attempts[f.attempt] = new
  BY <1>2
<1> QED BY <1>1, <1>3 DEF new

(* A new attempt becomes the current one of the operation it names, which   *)
(* is the unfinished one.                                                   *)
LEMMA StepAttemptAgrees ==
  ASSUME NEW s, NEW s1, Sound(s), AddsStepAttempt(s, s1)
  PROVE  OneCurrent(s1) /\ Linked(s1)
<1>a. PICK op \in Id, context \in Id, config \in ConfigurationSnapshot,
         number \in 1..2, step \in Id :
      \E attempt \in Id :
      LET f == [type |-> "stepAttempt", op |-> op, step |-> step,
                attempt |-> attempt, kind |-> s.operations[op].kind,
                number |-> number, context |-> context, config |-> config]
      IN  CanStepAttempt(s, f) /\ s1 = DoStepAttempt(s, f)
  BY DEF AddsStepAttempt, ReducesStepAttempt
<1>0. PICK attempt \in Id :
      LET f == [type |-> "stepAttempt", op |-> op, step |-> step,
                attempt |-> attempt, kind |-> s.operations[op].kind,
                number |-> number, context |-> context, config |-> config]
      IN  CanStepAttempt(s, f) /\ s1 = DoStepAttempt(s, f)
  BY <1>a
<1> DEFINE new == [op |-> op, step |-> step, attempt |-> number,
                   kind |-> s.operations[op].kind, context |-> context,
                   config |-> config, closed |-> FALSE, failed |-> FALSE,
                   settled |-> None, copyClosed |-> FALSE]
           info == [s.operations[op] EXCEPT !.latest = step]
           o == [s.operation EXCEPT
                   !.step = [attempt |-> attempt, status |-> "attempting"]]
<1>1. s \in State /\ attempt \in Id /\ step \in Id
  BY DEF Sound
<1>2. Unfinished(s, op)
  BY <1>0 DEF CanStepAttempt
<1>3. ~Idle(s) /\ s.operation.id = op /\ s.operation \in OperationState
      /\ s.operations[op] \in OperationInfo
  BY <1>2, CurrentType DEF Sound, OneCurrent
<1>4. /\ info \in OperationInfo
      /\ info.finished = s.operations[op].finished
      /\ info.kind = s.operations[op].kind
      /\ info.result = s.operations[op].result
  BY <1>1, <1>3, Zenon DEF OperationInfo
<1>5. /\ o.id = op /\ o.kind = s.operation.kind /\ o # None
      /\ o.step.attempt = attempt
  <2>1. [attempt |-> attempt, status |-> "attempting"] \in StepState
    BY <1>1 DEF StepState
  <2>2. o \in OperationState
    BY <1>3, <2>1, Zenon DEF OperationState
  <2>3. /\ o.id = op /\ o.kind = s.operation.kind
        /\ o.step = [attempt |-> attempt, status |-> "attempting"]
    BY <1>3, Zenon DEF OperationState
  <2> QED BY <2>2, <2>3, NoneAssumption
<1>6. new \in AttemptInfo
  BY <1>1, <1>3 DEF AttemptInfo, OperationInfo
<1>7. new # None /\ new.op = op
  BY <1>6, NoneAssumption
<1>8. /\ s1.operations = [s.operations EXCEPT ![op] = info]
      /\ s1.operation = o
      /\ s1.attempts[attempt] = new
      /\ s1.entries = s.entries
  <2> DEFINE f == [type |-> "stepAttempt", op |-> op, step |-> step,
                   attempt |-> attempt, kind |-> s.operations[op].kind,
                   number |-> number, context |-> context, config |-> config]
  <2>1. /\ f.op = op /\ f.step = step /\ f.attempt = attempt
        /\ f.kind = s.operations[op].kind /\ f.number = number
        /\ f.context = context /\ f.config = config
    OBVIOUS
  <2>2. s1 = DoStepAttempt(s, f)
    BY <1>0
  <2> HIDE DEF f
  <2>3. f.attempt \in Id
    BY <1>1, <2>1
  <2>4. /\ s1.operations = [s.operations EXCEPT ![f.op] =
                               [s.operations[f.op] EXCEPT !.latest = f.step]]
        /\ s1.operation = [s.operation EXCEPT
             !.step = [attempt |-> f.attempt, status |-> "attempting"]]
        /\ s1.entries = s.entries
        /\ s1.attempts[f.attempt] =
             [op |-> f.op, step |-> f.step, attempt |-> f.number,
              kind |-> f.kind, context |-> f.context,
              config |-> f.config, closed |-> FALSE, failed |-> FALSE,
              settled |-> None, copyClosed |-> FALSE]
    BY <1>1, <2>2, <2>3, StepAttemptFields, Zenon
  <2> QED BY <2>1, <2>4, Zenon
<1> HIDE DEF info, o, new
<1>9. \A p \in Id : s1.operations[p] = IF p = op THEN info ELSE s.operations[p]
  BY <1>1, <1>8, Fields
<1>10. ~Idle(s1) /\ info # None
  BY <1>4, <1>5, <1>8, NoneAssumption DEF Idle
<1>11. OneCurrent(s1)
  <2>1. \A p \in Id : Unfinished(s1, p) <=> Unfinished(s, p)
    BY <1>2, <1>4, <1>9, <1>10 DEF Unfinished
  <2> QED BY <1>3, <1>5, <1>8, <1>10, <2>1 DEF Sound, OneCurrent
<1>12. Linked(s1)
  <2>1. /\ s1.operations[s1.operation.id].kind = s1.operation.kind
        /\ s1.attempts[s1.operation.step.attempt] # None
        /\ s1.attempts[s1.operation.step.attempt].op = s1.operation.id
    <3>1. s1.operation.id = op /\ s1.operations[op] = info
      BY <1>5, <1>8, <1>9
    <3>2. s.operation.kind = s.operations[op].kind
      BY <1>3 DEF Linked, Sound
    <3> QED BY <1>4, <1>5, <1>7, <1>8, <3>1, <3>2
  <2>2. \A p \in Id :
          s1.operations[p] # None /\ s1.operations[p].kind = "compaction"
            => s1.operations[p].result # None
    BY <1>2, <1>4, <1>9 DEF Linked, Sound, Unfinished
  <2>3. EntriesShaped(s1)
    BY <1>8 DEF EntriesShaped, Shaped, Linked, Sound
  <2> QED BY <2>1, <2>2, <2>3 DEF Linked, EntriesShaped, Shaped
<1> QED BY <1>11, <1>12

-----------------------------------------------------------------------------
(* The inductive invariant *)

-----------------------------------------------------------------------------
(* One fact *)

(* The state of an empty file is sound.                                     *)
LEMMA InitialSound == Sound(InitialState)
<1>1. InitialState \in State
  BY InitialType
<1>2. OneCurrent(InitialState)
  BY DEF InitialState, OneCurrent, Unfinished, Idle
<1>3. Linked(InitialState)
  BY DEF InitialState, Linked, Idle
<1> QED BY <1>1, <1>2, <1>3 DEF Sound

(* Every accepted fact leads from a sound state to a sound one: most facts  *)
(* disturb nothing, the start and the end of an operation and a new attempt *)
(* for their own reasons.                                                   *)
LEMMA SoundNext ==
  ASSUME NEW s, NEW s1, Sound(s), Adds(s, s1)
  PROVE  Sound(s1)
<1>1. s1 \in State
  BY StateTyped
<1>2. OneCurrent(s1) /\ Linked(s1)
  <2>1. CASE \/ AddsUser(s, s1) \/ AddsAssistant(s, s1) \/ AddsSynthetic(s, s1)
             \/ AddsResult(s, s1) \/ AddsCompaction(s, s1) \/ AddsStepFailed(s, s1)
             \/ AddsToolStarted(s, s1) \/ AddsAbortRequested(s, s1)
             \/ AddsUsage(s, s1)
    <3>1. Undisturbed(s, s1) /\ EntriesShaped(s1)
      BY <2>1, UserQuiet, AssistantQuiet, SyntheticQuiet, ResultQuiet,
         CompactionQuiet, StepFailedQuiet, OtherQuiet
    <3> QED BY <1>1, <3>1, UndisturbedAgrees
  <2>2. CASE AddsRunStarted(s, s1)
    BY <2>2, RunStartedAgrees
  <2>3. CASE AddsCompactionStarted(s, s1)
    BY <2>3, CompactionStartedAgrees
  <2>4. CASE AddsStepAttempt(s, s1)
    BY <2>4, StepAttemptAgrees
  <2>5. CASE AddsOperationFinished(s, s1)
    BY <2>5, OperationFinishedAgrees
  <2> QED BY <2>1, <2>2, <2>3, <2>4, <2>5 DEF Adds, AddsProgress
<1> QED BY <1>1, <1>2 DEF Sound

-----------------------------------------------------------------------------
(* The books of a session (Ledger)                                          *)
(*                                                                          *)
(* Every fact the reducer accepts has one of a dozen effects, and each of   *)
(* them keeps the books: an open attempt is the current one, an answer      *)
(* belongs to its attempt, intents and results match.                       *)
(*                                                                          *)
(* That an open attempt is current is not inductive: a retry is checked     *)
(* against a copy of the attempt it repeats, which need not be closed when  *)
(* the attempt is, and a new step against the status of the current one.    *)
(* AttemptSide says what keeps them together; AnswerSide and ToolSide say   *)
(* the same of the answers and of the started tools.                        *)

(* An attempt of the unfinished operation that is still open is the attempt *)
(* of its current step.                                                     *)
OpenIsCurrent(s) ==
  \A a \in Id :
    s.attempts[a] # None /\ ~s.attempts[a].closed
      /\ Unfinished(s, s.attempts[a].op)
      => /\ s.operation.step = [attempt |-> a, status |-> "attempting"]
         /\ s.attempts[a].step = s.operations[s.attempts[a].op].latest

(* A started tool waits for exactly its provisioned result, or has it; and  *)
(* a call is started at most once.                                          *)
IntentsMatch(s) ==
  \A t \in Id : s.tools[t] # None =>
    LET tool == s.tools[t]
        entry == s.entries[tool.result]
    IN  /\ tool.status = "pending" => s.use[tool.result] = "toolResult"
        /\ tool.status = "completed" =>
             entry # None /\ entry.type = "tool" /\ entry.op = tool.op
               /\ entry.step = tool.step /\ entry.call = tool.call
        /\ \A u \in Id \ {t} : s.tools[u] # None =>
             <<tool.assistant, tool.index>> # <<s.tools[u].assistant, s.tools[u].index>>

-----------------------------------------------------------------------------
(* The inductive invariant *)

(* What is named nowhere has not been used before.                          *)
Unused(s) ==
  \A i \in Id : Free(s, i) =>
    /\ s.operations[i] = None /\ s.attempts[i] = None /\ s.tools[i] = None

(* An attempt belongs to one step of one operation, and is of its kind.     *)
AttemptOwned(s) ==
  \A a \in Id : s.attempts[a] # None =>
    /\ s.use[s.attempts[a].step] = "identity"
    /\ s.operations[s.attempts[a].op] # None
    /\ s.operations[s.attempts[a].op].kind = s.attempts[a].kind

(* An attempt is closed and its copy is not only if it was superseded, or   *)
(* if a compaction settled it.                                              *)
CopyLags(s) ==
  \A a \in Id : s.attempts[a] # None /\ ~s.attempts[a].copyClosed =>
    /\ s.attempts[a].closed =>
         \/ s.attempts[a].kind = "compaction"
         \/ \E b \in Id : /\ b # a /\ s.attempts[b] # None
                          /\ s.attempts[b].step = s.attempts[a].step
    /\ s.attempts[a].kind = "run" => s.attempts[a].settled = None

OneCompactionStep(s) ==
  \A a, b \in Id :
    s.attempts[a] # None /\ s.attempts[b] # None
      /\ s.attempts[a].op = s.attempts[b].op /\ s.attempts[a].kind = "compaction"
      => s.attempts[a].step = s.attempts[b].step

(* An operation without a step has no attempt.                              *)
StepNamed(s) ==
  ~Idle(s) /\ s.operation.step = None =>
    \A a \in Id : s.attempts[a] # None => s.attempts[a].op # s.operation.id

AttemptSide(s) ==
  /\ Unused(s) /\ AttemptOwned(s) /\ CopyLags(s) /\ OneCompactionStep(s) /\ StepNamed(s)
  /\ OpenIsCurrent(s)

Written(s) == \A i \in Id : s.entries[i] # None => s.use[i] = "used"

AnswerOwned(s) ==
  \A i \in Id : s.entries[i] # None /\ s.entries[i].attempt # None =>
    /\ s.attempts[s.entries[i].attempt] # None
    /\ s.attempts[s.entries[i].attempt].op = s.entries[i].op

(* When an attempt of the latest step of an unfinished run has its answer,  *)
(* that step is settled by it; and after a last answer no call is open.     *)
AnswerIsLast(s) ==
  \A a \in Id :
    s.attempts[a] # None /\ s.attempts[a].kind = "run" /\ s.attempts[a].settled # None
      /\ Unfinished(s, s.attempts[a].op)
      /\ s.attempts[a].step = s.operations[s.attempts[a].op].latest
    => /\ s.operation.step = [attempt |-> a, status |-> "settled"]
       /\ s.entries[s.attempts[a].settled] # None
       /\ s.entries[s.attempts[a].settled].stop = "stop" => s.unanswered = {}

AnswerSide(s) == Written(s) /\ AnswerOwned(s) /\ AnswerIsLast(s)

(* A started tool is one of a run that had an attempt.                      *)
ToolOwned(s) ==
  \A t \in Id : s.tools[t] # None =>
    /\ \E a \in Id : s.attempts[a] # None /\ s.attempts[a].op = s.tools[t].op
    /\ s.operations[s.tools[t].op] # None
    /\ s.operations[s.tools[t].op].kind = "run"

(* Its call is marked, and its result is its own.                           *)
ToolPaired(s) ==
  \A t \in Id : s.tools[t] # None =>
    /\ <<s.tools[t].assistant, s.tools[t].index>> \in s.pairs
    /\ s.tools[t].status = "completed" => s.entries[s.tools[t].result] # None
    /\ ~Free(s, s.tools[t].result)
    /\ \A u \in Id \ {t} : s.tools[u] # None => s.tools[u].result # s.tools[t].result

ToolSide(s) == ToolOwned(s) /\ ToolPaired(s) /\ IntentsMatch(s)

Ledger(s) == AttemptSide(s) /\ AnswerSide(s) /\ ToolSide(s)

-----------------------------------------------------------------------------
(* What each fact does to the parts of the state the invariant speaks of *)

SameOperations(s, s1) ==
  /\ s1.operation = s.operation /\ s1.operations = s.operations
  /\ s1.attempts = s.attempts

(* Pushing a message changes the entries and the identities only.           *)
LEMMA PushFields ==
  ASSUME NEW t \in State, NEW i \in Id, NEW e
  PROVE  /\ Push(t, i, e).use = [t.use EXCEPT ![i] = "used"]
         /\ Push(t, i, e).entries = [t.entries EXCEPT ![i] = e]
         /\ Push(t, i, e).unanswered = Unanswered(e, t.unanswered)
         /\ Push(t, i, e).operation = t.operation
         /\ Push(t, i, e).operations = t.operations
         /\ Push(t, i, e).attempts = t.attempts
         /\ Push(t, i, e).tools = t.tools
         /\ Push(t, i, e).pairs = t.pairs
BY Zenon DEF Push, State

(* A message without calls opens none, and an answer to a call opens none. *)
LEMMA OpenCalls ==
  ASSUME NEW e, NEW u
  PROVE  /\ e.calls = << >> /\ e.type # "tool" => Unanswered(e, u) = {}
         /\ e.type = "tool" /\ u = {} => Unanswered(e, u) = {}
BY DEF Unanswered

(* A message that answers no attempt and no started tool.                   *)
MessageAdded(s, s1, i, e) ==
  /\ i \in Id /\ Free(s, i) /\ e \in Entry /\ e.attempt = None
  /\ s1.use = [s.use EXCEPT ![i] = "used"]
  /\ s1.entries = [s.entries EXCEPT ![i] = e]
  /\ SameOperations(s, s1) /\ s1.tools = s.tools /\ s.pairs \subseteq s1.pairs
  /\ s.unanswered = {} => s1.unanswered = {}

(* A user message (apply_message_entry) is such a message.                 *)
LEMMA UserEffect ==
  ASSUME NEW s, NEW s1, Sound(s), AddsUser(s, s1)
  PROVE  \E i, e : MessageAdded(s, s1, i, e)
<1>1. PICK i \in Id : Free(s, i) /\ s1 = Push(s, i, UserEntry([type |-> "user", id |-> i]))
  BY DEF AddsUser, ReducesUser, CanUser, DoUser
<1> DEFINE e == UserEntry([type |-> "user", id |-> i])
<1>2. e \in Entry /\ e.attempt = None /\ e.calls = << >> /\ e.type = "user"
  BY DEF UserEntry, Entry
<1> HIDE DEF e
<1>3. s \in State /\ i \in Id /\ s1 = Push(s, i, e)
  BY <1>1 DEF Sound, e
<1>4. s1.unanswered = {} /\ s1.pairs = s.pairs
  <2>1. Unanswered(e, s.unanswered) = {}
    BY <1>2, OpenCalls
  <2>2. /\ Push(s, i, e).unanswered = Unanswered(e, s.unanswered)
        /\ Push(s, i, e).pairs = s.pairs
    BY <1>3, PushFields, Zenon
  <2> QED BY <1>3, <2>1, <2>2, Zenon
<1>5. MessageAdded(s, s1, i, e)
  BY <1>1, <1>2, <1>3, <1>4, PushFields DEF MessageAdded, SameOperations
<1> QED BY <1>5

(* So is a synthetic tool result, which marks its call as well.            *)
LEMMA SyntheticEffect ==
  ASSUME NEW s, NEW s1, Sound(s), AddsSynthetic(s, s1)
  PROVE  \E i, e : MessageAdded(s, s1, i, e)
<1>1. PICK i \in Id, a \in {j \in Id : s.entries[j] # None} :
        \E n \in DOMAIN s.entries[a].calls :
          ReducesSynthetic(s, s1, [type |-> "synthetic", id |-> i, step |-> s.entries[a].step,
                  assistant |-> a, index |-> n,
                  call |-> s.entries[a].calls[n].id,
                  name |-> s.entries[a].calls[n].name])
  BY DEF AddsSynthetic
<1>2. PICK n \in DOMAIN s.entries[a].calls :
          ReducesSynthetic(s, s1, [type |-> "synthetic", id |-> i, step |-> s.entries[a].step,
                  assistant |-> a, index |-> n,
                  call |-> s.entries[a].calls[n].id,
                  name |-> s.entries[a].calls[n].name])
  BY <1>1
<1> DEFINE step == s.entries[a].step
           call == s.entries[a].calls[n].id
           e == ToolEntry(s.operation.id, step, call)
           p == Push(s, i, e)
<1>3. /\ Free(s, i) /\ ~Idle(s)
      /\ s1 = [p EXCEPT !.pairs = @ \cup {<<a, n>>}]
  BY <1>2 DEF ReducesSynthetic, CanSynthetic, DoSynthetic
<1>4. s \in State /\ i \in Id /\ step \in Id /\ call \in CallId
  BY CallTypes DEF Call, Sound
<1>5. s.operation.id \in Id
  BY <1>3, CurrentType DEF Sound, OperationState
<1>6. e \in Entry /\ e.attempt = None /\ e.type = "tool"
  BY <1>4, <1>5 DEF ToolEntry, Entry
<1> HIDE DEF e
<1>7. p \in State
  BY <1>4, <1>6, PushType
<1> HIDE DEF p
<1>8. /\ s1.use = p.use /\ s1.entries = p.entries /\ s1.operation = p.operation
      /\ s1.operations = p.operations /\ s1.attempts = p.attempts /\ s1.tools = p.tools
      /\ s1.unanswered = p.unanswered /\ s1.pairs = p.pairs \cup {<<a, n>>}
  BY <1>3, <1>7, Zenon DEF State
<1>9. /\ p.use = [s.use EXCEPT ![i] = "used"] /\ p.entries = [s.entries EXCEPT ![i] = e]
      /\ p.operation = s.operation /\ p.operations = s.operations
      /\ p.attempts = s.attempts /\ p.tools = s.tools /\ p.pairs = s.pairs
      /\ p.unanswered = Unanswered(e, s.unanswered)
  BY <1>4, PushFields DEF p
<1>10. s.unanswered = {} => s1.unanswered = {}
  BY <1>6, <1>8, <1>9, OpenCalls
<1>11. MessageAdded(s, s1, i, e)
  BY <1>3, <1>4, <1>6, <1>8, <1>9, <1>10 DEF MessageAdded, SameOperations
<1> QED BY <1>11

(* The result of a started tool.                                            *)
ResultAdded(s, s1, t, e, done) ==
  /\ t \in Id /\ s.tools[t] # None /\ s.tools[t].status = "pending"
  /\ s.use[s.tools[t].result] = "toolResult"
  /\ e \in Entry /\ e.attempt = None /\ e.type = "tool" /\ e.op = s.tools[t].op
  /\ e.step = s.tools[t].step /\ e.call = s.tools[t].call
  /\ done \in ToolCallState /\ done.status = "completed"
  /\ done.op = s.tools[t].op /\ done.step = s.tools[t].step
  /\ done.call = s.tools[t].call /\ done.result = s.tools[t].result
  /\ done.assistant = s.tools[t].assistant /\ done.index = s.tools[t].index
  /\ s1.use = [s.use EXCEPT ![s.tools[t].result] = "used"]
  /\ s1.entries = [s.entries EXCEPT ![s.tools[t].result] = e]
  /\ s1.tools = [s.tools EXCEPT ![t] = done]
  /\ SameOperations(s, s1) /\ s1.pairs = s.pairs
  /\ s.unanswered = {} => s1.unanswered = {}

(* A tool result is the provisioned one of the pending tool it names.      *)
LEMMA ResultEffect ==
  ASSUME NEW s, NEW s1, Sound(s), AddsResult(s, s1)
  PROVE  \E t, e, done : ResultAdded(s, s1, t, e, done)
<1>1. PICK t \in Id :
        /\ s.tools[t] # None
        /\ ReducesResult(s, s1, [type |-> "result", id |-> s.tools[t].result,
                   step |-> s.tools[t].step, started |-> t,
                   call |-> s.tools[t].call])
  BY DEF AddsResult
<1> DEFINE i == s.tools[t].result
           e == ToolEntry(s.tools[t].op, s.tools[t].step, s.tools[t].call)
           p == Push(s, i, e)
           done == [s.tools[t] EXCEPT !.status = "completed"]
<1>2. /\ s.use[i] = "toolResult" /\ s.tools[t].status = "pending"
      /\ s1 = [p EXCEPT !.tools[t].status = "completed"]
  BY <1>1 DEF ReducesResult, CanResult, DoResult
<1>3. s \in State /\ s.tools[t] \in ToolCallState
  BY <1>1, Fields DEF Sound
<1>4. /\ e \in Entry /\ e.attempt = None /\ e.type = "tool" /\ i \in Id
      /\ e.op = s.tools[t].op /\ e.step = s.tools[t].step /\ e.call = s.tools[t].call
  BY <1>3 DEF ToolEntry, Entry, ToolCallState
<1>5. /\ done \in ToolCallState /\ done.status = "completed"
      /\ done.op = s.tools[t].op /\ done.step = s.tools[t].step
      /\ done.call = s.tools[t].call /\ done.result = s.tools[t].result
      /\ done.assistant = s.tools[t].assistant /\ done.index = s.tools[t].index
  BY <1>3 DEF ToolCallState
<1> HIDE DEF e, i
<1>6. p \in State
  BY <1>3, <1>4, PushType
<1>7. /\ p.use = [s.use EXCEPT ![i] = "used"] /\ p.entries = [s.entries EXCEPT ![i] = e]
      /\ p.operation = s.operation /\ p.operations = s.operations
      /\ p.attempts = s.attempts /\ p.tools = s.tools /\ p.pairs = s.pairs
      /\ p.unanswered = Unanswered(e, s.unanswered)
  BY <1>3, <1>4, PushFields
<1>8. s1 = [p EXCEPT !.tools = [s.tools EXCEPT ![t] = done]]
  BY <1>2, <1>7
<1> HIDE DEF p, done
<1>9. /\ s1.use = p.use /\ s1.entries = p.entries /\ s1.operation = p.operation
      /\ s1.operations = p.operations /\ s1.attempts = p.attempts
      /\ s1.tools = [s.tools EXCEPT ![t] = done]
      /\ s1.unanswered = p.unanswered /\ s1.pairs = p.pairs
  BY <1>6, <1>8, Zenon DEF State
<1>10. s.unanswered = {} => s1.unanswered = {}
  BY <1>4, <1>7, <1>9, OpenCalls
<1>11. ResultAdded(s, s1, t, e, done)
  BY <1>1, <1>2, <1>4, <1>5, <1>7, <1>9, <1>10 DEF ResultAdded, SameOperations, i
<1> QED BY <1>11

(* An open attempt of the current operation is closed.                      *)
AttemptEnded(s, s1, a, info, status) ==
  /\ a \in Id /\ s.attempts[a] # None /\ ~s.attempts[a].closed
  /\ ~Idle(s) /\ s.attempts[a].op = s.operation.id /\ Unfinished(s, s.operation.id)
  /\ info \in AttemptInfo /\ info.closed
  /\ info.op = s.attempts[a].op /\ info.step = s.attempts[a].step
  /\ info.kind = s.attempts[a].kind
  /\ info.kind = "run" => info.copyClosed
  /\ info.copyClosed \/ info.copyClosed = s.attempts[a].copyClosed
  /\ s1.attempts = [s.attempts EXCEPT ![a] = info]
  /\ s1.operation = WithStatus(s.operation, a, status)
  /\ s1.operations = s.operations /\ s1.tools = s.tools /\ s1.pairs = s.pairs

(* The three ways to close an attempt keep what identifies it; only the    *)
(* compaction leaves the copy of it in the step list as it was.            *)
LEMMA ClosedInfo ==
  ASSUME NEW a \in AttemptInfo, NEW i \in Id
  PROVE  LET settled == [a EXCEPT !.closed = TRUE, !.copyClosed = TRUE, !.settled = i]
             summary == [a EXCEPT !.closed = TRUE, !.settled = i]
             failed == [a EXCEPT !.closed = TRUE, !.copyClosed = TRUE, !.failed = TRUE]
         IN  /\ {settled, summary, failed} \subseteq AttemptInfo
             /\ \A info \in {settled, summary, failed} :
                  /\ info.closed /\ info.op = a.op /\ info.step = a.step
                  /\ info.kind = a.kind
             /\ settled.copyClosed /\ failed.copyClosed
             /\ summary.copyClosed = a.copyClosed
             /\ settled.settled = i /\ failed.settled = a.settled
<1> DEFINE settled == [a EXCEPT !.closed = TRUE, !.copyClosed = TRUE, !.settled = i]
           summary == [a EXCEPT !.closed = TRUE, !.settled = i]
           failed == [a EXCEPT !.closed = TRUE, !.copyClosed = TRUE, !.failed = TRUE]
<1>1. /\ settled.closed /\ settled.op = a.op /\ settled.step = a.step
      /\ settled.kind = a.kind /\ settled.copyClosed /\ settled.settled = i
  BY Zenon DEF AttemptInfo
<1>2. /\ summary.closed /\ summary.op = a.op /\ summary.step = a.step
      /\ summary.kind = a.kind /\ summary.copyClosed = a.copyClosed
  BY Zenon DEF AttemptInfo
<1>3. /\ failed.closed /\ failed.op = a.op /\ failed.step = a.step
      /\ failed.kind = a.kind /\ failed.copyClosed /\ failed.settled = a.settled
  BY Zenon DEF AttemptInfo
<1>4. settled \in AttemptInfo /\ summary \in AttemptInfo /\ failed \in AttemptInfo
  BY AttemptClosed
<1> HIDE DEF settled, summary, failed
<1>5. /\ {settled, summary, failed} \subseteq AttemptInfo
      /\ \A info \in {settled, summary, failed} :
           info.closed /\ info.op = a.op /\ info.step = a.step /\ info.kind = a.kind
  BY <1>1, <1>2, <1>3, <1>4
<1> QED BY <1>1, <1>2, <1>3, <1>5 DEF settled, summary, failed

(* Settling or failing the current step changes nothing but its status.    *)
LEMMA StatusFields ==
  ASSUME NEW o \in OperationState, NEW a, NEW status \in {"settled", "failed"}
  PROVE  /\ WithStatus(o, a, status) \in OperationState
         /\ WithStatus(o, a, status).id = o.id
         /\ WithStatus(o, a, status).kind = o.kind
         /\ WithStatus(o, a, status).abort = o.abort
         /\ WithStatus(o, a, status).input = o.input
         /\ (o.step # None /\ o.step.attempt = a)
              => WithStatus(o, a, status).step = [attempt |-> a, status |-> status]
<1>1. CASE o.step # None /\ o.step.attempt = a
  <2>1. o.step \in StepState
    BY <1>1 DEF OperationState
  <2>2. [o.step EXCEPT !.status = status] = [attempt |-> a, status |-> status]
    BY <1>1, <2>1 DEF StepState
  <2>3. /\ WithStatus(o, a, status).id = o.id
        /\ WithStatus(o, a, status).kind = o.kind
        /\ WithStatus(o, a, status).abort = o.abort
        /\ WithStatus(o, a, status).input = o.input
        /\ WithStatus(o, a, status).step = [o.step EXCEPT !.status = status]
    BY <1>1, Zenon DEF WithStatus, OperationState
  <2> QED BY <2>2, <2>3, StatusType
<1>2. CASE ~(o.step # None /\ o.step.attempt = a)
  BY <1>2, StatusType DEF WithStatus
<1> QED BY <1>1, <1>2

(* The attempt named by the current step is the one that closes.            *)
LEMMA ClosesCurrent ==
  ASSUME NEW s, NEW s1, Sound(s), OpenIsCurrent(s), NEW a, NEW info, NEW status \in {"settled", "failed"},
         AttemptEnded(s, s1, a, info, status)
  PROVE  /\ s.operation.step = [attempt |-> a, status |-> "attempting"]
         /\ ~Idle(s1) /\ s1.operation.id = s.operation.id
         /\ s1.operation.kind = s.operation.kind /\ s1.operation.abort = s.operation.abort
         /\ s1.operation.step = [attempt |-> a, status |-> status]
         /\ s.operation.step # None
<1>1. s.operation.step = [attempt |-> a, status |-> "attempting"]
  BY DEF AttemptEnded, OpenIsCurrent
<1>2. s.operation \in OperationState
  BY CurrentType DEF AttemptEnded, Sound
<1>3. [attempt |-> a, status |-> "attempting"] \in StepState /\ a \in Id
  BY DEF StepState, AttemptEnded
<1>4. s.operation.step # None /\ s.operation.step.attempt = a
  BY <1>1, <1>3, NoneAssumption
<1>5. s1.operation = WithStatus(s.operation, a, status)
  BY DEF AttemptEnded
<1>6. /\ s1.operation \in OperationState
      /\ s1.operation.id = s.operation.id
      /\ s1.operation.kind = s.operation.kind /\ s1.operation.abort = s.operation.abort
      /\ s1.operation.step = [attempt |-> a, status |-> status]
  <2> DEFINE o == s.operation
  <2>1. o \in OperationState /\ o.step # None /\ o.step.attempt = a
    BY <1>2, <1>4
  <2> HIDE DEF o
  <2>2. /\ WithStatus(o, a, status) \in OperationState
        /\ WithStatus(o, a, status).id = o.id
        /\ WithStatus(o, a, status).kind = o.kind
        /\ WithStatus(o, a, status).abort = o.abort
        /\ WithStatus(o, a, status).step = [attempt |-> a, status |-> status]
    BY <2>1, StatusFields
  <2>3. s1.operation = WithStatus(o, a, status)
    BY <1>5 DEF o
  <2> QED BY <2>2, <2>3 DEF o
<1>7. ~Idle(s1)
  BY <1>6, NoneAssumption DEF Idle
<1> QED BY <1>1, <1>4, <1>6, <1>7

AnswerAdded(s, s1, i, a, e, info) ==
  /\ AttemptEnded(s, s1, a, info, "settled") /\ info.kind = "run" /\ info.settled = i
  /\ i \in Id /\ Free(s, i) /\ e \in Entry /\ e.attempt = a /\ e.op = info.op
  /\ s1.use = [s.use EXCEPT ![i] = "used"]
  /\ s1.entries = [s.entries EXCEPT ![i] = e]
  /\ e.stop = "stop" => s1.unanswered = {}

(* An assistant message closes and settles the attempt it names.           *)
LEMMA AnswerEffect ==
  ASSUME NEW s, NEW s1, Sound(s), AddsAssistant(s, s1)
  PROVE  \E i, a, e, info : AnswerAdded(s, s1, i, a, e, info)
<1>1. PICK i \in Id, a \in Id, stop \in Stop, calls \in Seq(Call), text \in BOOLEAN :
        /\ s.attempts[a] # None
        /\ ReducesAssistant(s, s1, [type |-> "assistant", id |-> i, step |-> s.attempts[a].step,
                   attempt |-> a, stop |-> stop, calls |-> calls, text |-> text])
  BY DEF AddsAssistant
<1> DEFINE f == [type |-> "assistant", id |-> i, step |-> s.attempts[a].step,
                 attempt |-> a, stop |-> stop, calls |-> calls, text |-> text]
           e == AssistantEntry(s, f)
           p == Push(s, i, e)
           info == [s.attempts[a] EXCEPT !.closed = TRUE, !.copyClosed = TRUE, !.settled = i]
           o == WithStatus(s.operation, a, "settled")
<1>2. /\ Free(s, i) /\ ~s.attempts[a].closed /\ s.attempts[a].kind = "run"
      /\ CurrentIs(s, "run", s.attempts[a].op) /\ (stop = "stop" => calls = << >>)
      /\ s1 = DoAssistant(s, f)
  BY <1>1 DEF ReducesAssistant, CanAssistant
<1>3. s \in State /\ i \in Id /\ s.attempts[a] \in AttemptInfo /\ calls \in Seq(Call)
  BY <1>1, Fields DEF Sound
<1>4. ~Idle(s) /\ s.attempts[a].op = s.operation.id /\ s.operation \in OperationState
  BY <1>2, CurrentType DEF CurrentIs, Sound
<1>5. Unfinished(s, s.operation.id)
  BY <1>4 DEF Sound, OneCurrent, OperationState
<1>6. /\ e \in Entry /\ e.attempt = a /\ e.op = s.attempts[a].op /\ e.type = "assistant"
      /\ e.stop = stop /\ e.calls = calls
  BY <1>3 DEF AssistantEntry, Entry, AttemptInfo
<1>7. /\ info \in AttemptInfo /\ info.closed /\ info.copyClosed /\ info.settled = i
      /\ info.op = s.attempts[a].op /\ info.step = s.attempts[a].step
      /\ info.kind = s.attempts[a].kind
  BY <1>3, ClosedInfo
<1>8. /\ p.use = [s.use EXCEPT ![i] = "used"] /\ p.entries = [s.entries EXCEPT ![i] = e]
      /\ p.operation = s.operation /\ p.operations = s.operations
      /\ p.attempts = s.attempts /\ p.tools = s.tools /\ p.pairs = s.pairs
      /\ p.unanswered = Unanswered(e, s.unanswered)
  <2> HIDE DEF e
  <2> QED BY <1>3, PushFields
<1>9. p \in State
  <2> HIDE DEF e
  <2> QED BY <1>3, <1>6, PushType
<1>10. s1 = [p EXCEPT !.attempts = [s.attempts EXCEPT ![a] = info], !.operation = o]
  <2> HIDE DEF p
  <2>1. s1 = [p EXCEPT !.attempts[a] = [@ EXCEPT !.closed = TRUE, !.copyClosed = TRUE,
                                                 !.settled = i],
                       !.operation = WithStatus(@, a, "settled")]
    BY <1>2 DEF DoAssistant, p
  <2> QED BY <1>8, <2>1
<1> HIDE DEF p, e, info, o
<1>11. /\ s1.use = p.use /\ s1.entries = p.entries /\ s1.operation = o
       /\ s1.operations = p.operations /\ s1.tools = p.tools /\ s1.pairs = p.pairs
       /\ s1.attempts = [s.attempts EXCEPT ![a] = info] /\ s1.unanswered = p.unanswered
  BY <1>9, <1>10, Zenon DEF State
<1>12. e.stop = "stop" => s1.unanswered = {}
  BY <1>2, <1>6, <1>8, <1>11, OpenCalls
<1>13. AttemptEnded(s, s1, a, info, "settled")
  BY <1>1, <1>2, <1>4, <1>5, <1>7, <1>8, <1>11 DEF AttemptEnded, o
<1>14. AnswerAdded(s, s1, i, a, e, info)
  BY <1>2, <1>3, <1>6, <1>7, <1>8, <1>11, <1>12, <1>13 DEF AnswerAdded
<1> QED BY <1>14

SummaryAdded(s, s1, i, a, e, info) ==
  /\ AttemptEnded(s, s1, a, info, "settled") /\ s.operation.kind = "compaction"
  /\ info.settled = i
  /\ i \in Id /\ s.use[i] = "compactionResult"
  /\ e \in [attempt : Id, op : Id, type : {"compaction"}, calls : Seq(Call), stop : {"none"},
            step : Id, text : BOOLEAN, call : {None}]
  /\ e.attempt = a /\ e.op = info.op
  /\ s1.use = [s.use EXCEPT ![i] = "used"]
  /\ s1.entries = [s.entries EXCEPT ![i] = e]
  /\ s1.unanswered = s.unanswered

(* A compaction entry closes and settles the attempt of the current step.  *)
LEMMA SummaryEffect ==
  ASSUME NEW s, NEW s1, Sound(s), OpenIsCurrent(s), AddsCompaction(s, s1)
  PROVE  \E i, a, e, info : SummaryAdded(s, s1, i, a, e, info)
<1>1. PICK through \in Id :
        /\ ~Idle(s) /\ s.operation.kind = "compaction"
        /\ ReducesCompaction(s, s1, [type |-> "compaction", id |-> s.operations[s.operation.id].result,
                   op |-> s.operation.id, through |-> through,
                   retained |-> Retained(s, through)])
  BY DEF AddsCompaction
<1> DEFINE f == [type |-> "compaction", id |-> s.operations[s.operation.id].result,
                 op |-> s.operation.id, through |-> through,
                 retained |-> Retained(s, through)]
           a == s.operation.step.attempt
           i == s.operations[s.operation.id].result
           e == [type |-> "compaction", op |-> s.operation.id,
                 step |-> s.attempts[a].step, attempt |-> a,
                 stop |-> "none", calls |-> << >>, text |-> TRUE, call |-> None]
           info == [s.attempts[a] EXCEPT !.closed = TRUE, !.settled = i]
           o == [s.operation EXCEPT !.step.status = "settled"]
<1>2. /\ s.use[i] = "compactionResult" /\ s.operation.step # None
      /\ Unfinished(s, s.operation.id) /\ s1 = DoCompaction(s, f)
      /\ ~s.attempts[a].closed /\ s.attempts[a].kind = "compaction"
  BY <1>1 DEF ReducesCompaction, CanCompaction
<1>3. s \in State /\ s.operation \in OperationState
  BY <1>1, CurrentType DEF Sound
<1>4. /\ s.operation.id \in Id /\ s.operation.step \in StepState /\ a \in Id
      /\ s.attempts[a] # None /\ s.attempts[a].op = s.operation.id
      /\ s.operations[s.operation.id].kind = "compaction"
  BY <1>1, <1>2, <1>3 DEF OperationState, StepState, Sound, Linked
<1>5. s.attempts[a] \in AttemptInfo /\ i \in Id
  <2>1. s.operations[s.operation.id] \in OperationInfo
    BY <1>2, <1>3, <1>4, Fields DEF Unfinished
  <2>2. i \in Id \cup {None} /\ i # None
    BY <1>2, <1>4, <2>1 DEF OperationInfo, Sound, Linked, Unfinished
  <2> QED BY <1>3, <1>4, <2>2, Fields
<1>6. /\ info \in AttemptInfo /\ info.closed /\ info.copyClosed = s.attempts[a].copyClosed
      /\ info.op = s.attempts[a].op /\ info.step = s.attempts[a].step
      /\ info.kind = s.attempts[a].kind
  BY <1>5, ClosedInfo
<1>s. info.settled = i
  BY <1>5, Zenon DEF AttemptInfo
<1>7. /\ e \in [attempt : Id, op : Id, type : {"compaction"}, calls : Seq(Call), stop : {"none"},
                step : Id, text : BOOLEAN, call : {None}]
      /\ e.attempt = a /\ e.op = s.operation.id
  <2>1. s.attempts[a].step \in Id
    BY <1>5 DEF AttemptInfo
  <2>2. << >> \in Seq(Call)
    OBVIOUS
  <2> QED BY <1>4, <2>1, <2>2
<1>8. /\ s1.operations = s.operations /\ s1.operation = o
      /\ s1.attempts = [s.attempts EXCEPT ![a] = info]
      /\ s1.entries = [s.entries EXCEPT ![i] = e]
      /\ s1.use = [s.use EXCEPT ![i] = "used"]
      /\ s1.tools = s.tools /\ s1.pairs = s.pairs /\ s1.unanswered = s.unanswered
  <2>1. f.id = i /\ f.op = s.operation.id /\ s1 = DoCompaction(s, f)
    BY <1>2
  <2> HIDE DEF f
  <2> QED BY <1>3, <2>1, ZenonT(60) DEF DoCompaction, State
<1>9. o = WithStatus(s.operation, a, "settled")
  BY <1>2 DEF WithStatus
<1> HIDE DEF e, info, o, i, a
<1>10. AttemptEnded(s, s1, a, info, "settled")
  BY <1>1, <1>2, <1>4, <1>6, <1>8, <1>9 DEF AttemptEnded
<1>11. SummaryAdded(s, s1, i, a, e, info)
  BY <1>1, <1>2, <1>4, <1>5, <1>6, <1>7, <1>8, <1>10, <1>s DEF SummaryAdded
<1> QED BY <1>11

FailureAdded(s, s1, a, info) ==
  /\ AttemptEnded(s, s1, a, info, "failed") /\ info.settled = s.attempts[a].settled
  /\ s1.use = s.use /\ s1.entries = s.entries /\ s1.unanswered = s.unanswered

(* A step failure closes the attempt it names, which is not settled by it. *)
LEMMA FailureEffect ==
  ASSUME NEW s, NEW s1, Sound(s), AddsStepFailed(s, s1)
  PROVE  \E a, info : FailureAdded(s, s1, a, info)
<1>1. PICK a \in Id :
        /\ s.attempts[a] # None
        /\ ReducesStepFailed(s, s1, [type |-> "stepFailed", op |-> s.attempts[a].op,
                   step |-> s.attempts[a].step, attempt |-> a])
  BY DEF AddsStepFailed
<1> DEFINE f == [type |-> "stepFailed", op |-> s.attempts[a].op,
                 step |-> s.attempts[a].step, attempt |-> a]
           info == [s.attempts[a] EXCEPT !.closed = TRUE, !.copyClosed = TRUE, !.failed = TRUE]
           o == WithStatus(s.operation, a, "failed")
<1>2. Unfinished(s, s.attempts[a].op) /\ ~s.attempts[a].closed /\ s1 = DoStepFailed(s, f)
  BY <1>1 DEF ReducesStepFailed, CanStepFailed
<1>3. s \in State /\ s.attempts[a] \in AttemptInfo
  BY <1>1, Fields DEF Sound
<1>4. ~Idle(s) /\ s.attempts[a].op = s.operation.id
  BY <1>2, <1>3 DEF Sound, OneCurrent, AttemptInfo
<1>5. /\ info \in AttemptInfo /\ info.closed /\ info.copyClosed
      /\ info.op = s.attempts[a].op /\ info.step = s.attempts[a].step
      /\ info.kind = s.attempts[a].kind /\ info.settled = s.attempts[a].settled
  BY <1>3, ClosedInfo
<1>6. /\ s1.operations = s.operations /\ s1.operation = o
      /\ s1.attempts = [s.attempts EXCEPT ![a] = info]
      /\ s1.entries = s.entries /\ s1.use = s.use
      /\ s1.tools = s.tools /\ s1.pairs = s.pairs /\ s1.unanswered = s.unanswered
  BY <1>2, <1>3, Zenon DEF DoStepFailed, State
<1> HIDE DEF info
<1>7. AttemptEnded(s, s1, a, info, "failed")
  BY <1>1, <1>2, <1>4, <1>5, <1>6 DEF AttemptEnded
<1> QED BY <1>5, <1>6, <1>7 DEF FailureAdded

(* What is named by a fact for the first time was free, and is no more.     *)
Reserves(s, s1) == \A i \in Id : s1.use[i] # s.use[i] => Free(s, i) /\ ~Free(s1, i)

SameRest(s, s1) ==
  /\ s1.entries = s.entries /\ s1.tools = s.tools /\ s1.pairs = s.pairs
  /\ s1.unanswered = s.unanswered

(* An operation that was never named before becomes the current one.        *)
OperationAdded(s, s1, op, info) ==
  /\ op \in Id /\ Idle(s) /\ Free(s, op) /\ ~Free(s1, op)
  /\ info \in OperationInfo /\ ~info.finished
  /\ s1.operations = [s.operations EXCEPT ![op] = info]
  /\ s1.operation \in OperationState /\ s1.operation.id = op
  /\ s1.operation.step = None /\ s1.operation.abort = FALSE
  /\ s1.attempts = s.attempts /\ SameRest(s, s1) /\ Reserves(s, s1)

(* apply_run_started begins an operation.                                  *)
LEMMA RunStartedEffect ==
  ASSUME NEW s, NEW s1, Sound(s), AddsRunStarted(s, s1)
  PROVE  \E op, info : OperationAdded(s, s1, op, info)
<1>1. PICK op \in Id, input \in Id :
        LET f == [type |-> "runStarted", op |-> op, input |-> input]
        IN  Idle(s) /\ Free(s, op) /\ s1 = DoRunStarted(s, f)
  BY DEF AddsRunStarted, ReducesRunStarted, CanRunStarted
<1> DEFINE info == [kind |-> "run", finished |-> FALSE, result |-> None, latest |-> None]
           o == [kind |-> "run", id |-> op, input |-> input, step |-> None, abort |-> FALSE]
<1>2. s \in State /\ op \in Id
  BY DEF Sound
<1>3. /\ s1.operations = [s.operations EXCEPT ![op] = info] /\ s1.operation = o
      /\ s1.attempts = s.attempts /\ s1.entries = s.entries /\ s1.tools = s.tools
      /\ s1.pairs = s.pairs /\ s1.unanswered = s.unanswered
      /\ s1.use = [s.use EXCEPT ![op] = "identity"]
  BY <1>1, <1>2, Zenon DEF DoRunStarted, State
<1>4. info \in OperationInfo /\ ~info.finished
  BY DEF OperationInfo
<1>5. o \in OperationState /\ o.id = op /\ o.step = None /\ o.abort = FALSE
  BY <1>2 DEF OperationState
<1> HIDE DEF info, o
<1>6. ~Free(s1, op) /\ Reserves(s, s1)
  BY <1>1, <1>2, <1>3, Fields DEF Free, Reserves
<1>7. OperationAdded(s, s1, op, info)
  BY <1>1, <1>2, <1>3, <1>4, <1>5, <1>6 DEF OperationAdded, SameRest
<1> QED BY <1>7

(* apply_compaction_started begins one and reserves its result.            *)
LEMMA CompactionStartedEffect ==
  ASSUME NEW s, NEW s1, Sound(s), AddsCompactionStarted(s, s1)
  PROVE  \E op, info : OperationAdded(s, s1, op, info)
<1>1. PICK op \in Id, input \in Id :
        \E result \in Id :
          LET f == [type |-> "compactionStarted", op |-> op, input |-> input,
                    result |-> result, source |-> Source(s, input)]
          IN  /\ Idle(s) /\ Free(s, op) /\ Free(s, result) /\ op # result
              /\ s1 = DoCompactionStarted(s, f)
  BY DEF AddsCompactionStarted, ReducesCompactionStarted, CanCompactionStarted
<1>2. PICK result \in Id :
        LET f == [type |-> "compactionStarted", op |-> op, input |-> input,
                  result |-> result, source |-> Source(s, input)]
        IN  /\ Idle(s) /\ Free(s, op) /\ Free(s, result) /\ op # result
            /\ s1 = DoCompactionStarted(s, f)
  BY <1>1
<1> DEFINE info == [kind |-> "compaction", finished |-> FALSE, result |-> result,
                    latest |-> None]
           o == [kind |-> "compaction", id |-> op, input |-> input, step |-> None,
                 abort |-> FALSE]
           use == [s.use EXCEPT ![op] = "identity"]
<1>3. s \in State /\ op \in Id /\ result \in Id
  BY DEF Sound
<1>4. /\ s1.operations = [s.operations EXCEPT ![op] = info] /\ s1.operation = o
      /\ s1.attempts = s.attempts /\ s1.entries = s.entries /\ s1.tools = s.tools
      /\ s1.pairs = s.pairs /\ s1.unanswered = s.unanswered
      /\ s1.use = [use EXCEPT ![result] = "compactionResult"]
  BY <1>2, <1>3, Zenon DEF DoCompactionStarted, State
<1>5. info \in OperationInfo /\ ~info.finished
  BY <1>3 DEF OperationInfo
<1>6. o \in OperationState /\ o.id = op /\ o.step = None /\ o.abort = FALSE
  BY <1>3 DEF OperationState
<1> HIDE DEF info, o
<1>7. ~Free(s1, op) /\ Reserves(s, s1)
  BY <1>2, <1>3, <1>4, Fields DEF Free, Reserves
<1>8. OperationAdded(s, s1, op, info)
  BY <1>2, <1>3, <1>4, <1>5, <1>6, <1>7 DEF OperationAdded, SameRest
<1> QED BY <1>8

(* A step attempt: the first of a step that was never named before, or one  *)
(* that repeats the only attempt of its step.                               *)
AttemptAdded(s, s1, op, step, attempt, new, info) ==
  /\ {op, step, attempt} \subseteq Id /\ Free(s, attempt) /\ ~Free(s1, attempt)
  /\ Unfinished(s, op) /\ CurrentIs(s, s.operations[op].kind, op)
  /\ new \in AttemptInfo /\ new.op = op /\ new.step = step /\ ~new.closed
  /\ ~new.copyClosed /\ new.settled = None /\ new.kind = s.operations[op].kind
  /\ \A a \in Id : s1.attempts[a] =
       IF a = attempt THEN new
       ELSE IF a \in AttemptsOfStep(s, step)
         THEN [s.attempts[a] EXCEPT !.closed = TRUE]
         ELSE s.attempts[a]
  /\ info \in OperationInfo /\ ~info.finished /\ info.latest = step
  /\ info.kind = s.operations[op].kind
  /\ s1.operations = [s.operations EXCEPT ![op] = info]
  /\ ~Idle(s1) /\ s1.operation.id = op /\ s1.operation.kind = s.operation.kind
  /\ s1.operation.abort = s.operation.abort /\ s1.operation.input = s.operation.input
  /\ s1.operation.step = [attempt |-> attempt, status |-> "attempting"]
  /\ \/ /\ Free(s, step)
        /\ s.operation.step # None =>
             /\ s.operation.step.status = "settled" /\ s.operation.kind = "run"
             /\ PendingTools(s) = {}
     \/ \E p \in Id :
          /\ AttemptsOfStep(s, step) = {p} /\ ~s.attempts[p].copyClosed
          /\ s.attempts[p].op = op
  /\ ~Free(s1, step) /\ s1.use[step] = "identity"
  /\ \A i \in Id \ {step} : s1.use[i] # s.use[i] => Free(s, i) /\ ~Free(s1, i)
  /\ SameRest(s, s1)

(* apply_step_attempt opens an attempt and closes the one it repeats.      *)
LEMMA StepAttemptEffect ==
  ASSUME NEW s, NEW s1, Sound(s), AddsStepAttempt(s, s1)
  PROVE  \E op, step, attempt, new, info : AttemptAdded(s, s1, op, step, attempt, new, info)
<1>a. PICK op \in Id, context \in Id, config \in ConfigurationSnapshot,
         number \in 1..2, step \in Id :
      \E attempt \in Id :
      LET f == [type |-> "stepAttempt", op |-> op, step |-> step,
                attempt |-> attempt, kind |-> s.operations[op].kind,
                number |-> number, context |-> context, config |-> config]
      IN  CanStepAttempt(s, f) /\ s1 = DoStepAttempt(s, f)
  BY DEF AddsStepAttempt, ReducesStepAttempt
<1>0. PICK attempt \in Id :
      LET f == [type |-> "stepAttempt", op |-> op, step |-> step,
                attempt |-> attempt, kind |-> s.operations[op].kind,
                number |-> number, context |-> context, config |-> config]
      IN  CanStepAttempt(s, f) /\ s1 = DoStepAttempt(s, f)
  BY <1>a
<1> DEFINE f == [type |-> "stepAttempt", op |-> op, step |-> step,
                 attempt |-> attempt, kind |-> s.operations[op].kind,
                 number |-> number, context |-> context, config |-> config]
           new == [op |-> op, step |-> step, attempt |-> number,
                   kind |-> s.operations[op].kind, context |-> context,
                   config |-> config, closed |-> FALSE, failed |-> FALSE,
                   settled |-> None, copyClosed |-> FALSE]
           info == [s.operations[op] EXCEPT !.latest = step]
           now == [attempt |-> attempt, status |-> "attempting"]
           o == [s.operation EXCEPT !.step = now]
           use == [s.use EXCEPT ![attempt] = "identity"]
<1>1. s \in State /\ attempt \in Id /\ step \in Id
  BY DEF Sound
<1>2. /\ f.op = op /\ f.step = step /\ f.attempt = attempt
      /\ f.kind = s.operations[op].kind /\ f.number = number
      /\ f.context = context /\ f.config = config
  OBVIOUS
<1>3. CanStepAttempt(s, f) /\ s1 = DoStepAttempt(s, f)
  BY <1>0
<1> HIDE DEF f
<1>4. Unfinished(s, op) /\ Free(s, attempt)
  BY <1>2, <1>3 DEF CanStepAttempt
<1>5. ~Idle(s) /\ s.operation.id = op /\ s.operation \in OperationState
      /\ s.operations[op] \in OperationInfo /\ s.operation.kind = s.operations[op].kind
  BY <1>4, CurrentType DEF Sound, OneCurrent, Linked
<1>6. /\ info \in OperationInfo /\ info.finished = s.operations[op].finished
      /\ info.kind = s.operations[op].kind /\ info.latest = step
  BY <1>1, <1>5, Zenon DEF OperationInfo
<1>7. /\ new \in AttemptInfo /\ new.op = op /\ new.step = step /\ ~new.closed
      /\ ~new.copyClosed /\ new.settled = None /\ new.kind = s.operations[op].kind
  BY <1>1, <1>5 DEF AttemptInfo, OperationInfo
<1>8. now \in StepState
  BY <1>1 DEF StepState
<1> HIDE DEF now
<1>9. /\ o \in OperationState /\ o.id = op /\ o.kind = s.operation.kind
      /\ o.abort = s.operation.abort /\ o.step = now /\ o.input = s.operation.input
  BY <1>5, <1>8, Zenon DEF OperationState
<1>10. /\ s1.operations = [s.operations EXCEPT ![f.op] =
                             [s.operations[f.op] EXCEPT !.latest = f.step]]
       /\ s1.operation = [s.operation EXCEPT
                            !.step = [attempt |-> f.attempt, status |-> "attempting"]]
       /\ s1.entries = s.entries /\ s1.tools = s.tools /\ s1.pairs = s.pairs
       /\ s1.unanswered = s.unanswered
       /\ s1.use = [[s.use EXCEPT ![f.attempt] = "identity"] EXCEPT ![f.step] = "identity"]
       /\ s1.attempts =
            [a \in Id |->
               IF a = f.attempt
                 THEN [op |-> f.op, step |-> f.step, attempt |-> f.number,
                       kind |-> f.kind, context |-> f.context,
                       config |-> f.config, closed |-> FALSE, failed |-> FALSE,
                       settled |-> None, copyClosed |-> FALSE]
                 ELSE IF a \in AttemptsOfStep(s, f.step)
                   THEN [s.attempts[a] EXCEPT !.closed = TRUE]
                   ELSE s.attempts[a]]
  BY <1>1, <1>3, Zenon DEF DoStepAttempt, State
<1>11. /\ s1.operations = [s.operations EXCEPT ![op] = info] /\ s1.operation = o
       /\ s1.use = [use EXCEPT ![step] = "identity"]
       /\ s1.attempts = [a \in Id |->
                           IF a = attempt THEN new
                           ELSE IF a \in AttemptsOfStep(s, step)
                             THEN [s.attempts[a] EXCEPT !.closed = TRUE]
                             ELSE s.attempts[a]]
  BY <1>2, <1>10, Zenon DEF now
<1> HIDE DEF new, info, o
<1>12. \A a \in Id : s1.attempts[a] =
         IF a = attempt THEN new
         ELSE IF a \in AttemptsOfStep(s, step)
           THEN [s.attempts[a] EXCEPT !.closed = TRUE]
           ELSE s.attempts[a]
  BY <1>11
<1>13. \/ /\ Free(s, step)
          /\ s.operation.step # None =>
               /\ s.operation.step.status = "settled" /\ s.operation.kind = "run"
               /\ PendingTools(s) = {}
       \/ \E p \in Id :
            /\ AttemptsOfStep(s, step) = {p} /\ ~s.attempts[p].copyClosed
            /\ s.attempts[p].op = op
  BY <1>2, <1>3, <1>5 DEF CanStepAttempt, MayStartStep, MayRetryStep
<1>14. /\ ~Free(s1, step) /\ s1.use[step] = "identity" /\ ~Free(s1, attempt)
       /\ \A i \in Id \ {step} : s1.use[i] # s.use[i] => Free(s, i) /\ ~Free(s1, i)
  BY <1>1, <1>4, <1>11, Fields DEF Free
<1>15. ~Idle(s1) /\ s1.operation.step = [attempt |-> attempt, status |-> "attempting"]
  BY <1>9, <1>11, NoneAssumption DEF Idle, now
<1>16. CurrentIs(s, s.operations[op].kind, op)
  BY <1>5 DEF CurrentIs
<1>17. ~info.finished
  BY <1>4, <1>6 DEF Unfinished
<1>18. AttemptAdded(s, s1, op, step, attempt, new, info)
  BY <1>1, <1>4, <1>6, <1>7, <1>9, <1>10, <1>11, <1>12, <1>13, <1>14, <1>15, <1>16, <1>17
     DEF AttemptAdded, SameRest
<1> QED BY <1>18

(* A call of an answer of the current run is started, with an identity that *)
(* was free for itself and another for its result.                          *)
ToolAdded(s, s1, t, tool) ==
  /\ t \in Id /\ Free(s, t) /\ tool \in ToolCallState /\ tool.status = "pending"
  /\ Free(s, tool.result) /\ t # tool.result
  /\ CurrentIs(s, "run", tool.op) /\ Unfinished(s, tool.op)
  /\ <<tool.assistant, tool.index>> \notin s.pairs
  /\ s.entries[tool.assistant] # None /\ s.entries[tool.assistant].op = tool.op
  /\ s.entries[tool.assistant].calls # << >>
  /\ s1.use = [[s.use EXCEPT ![t] = "used"] EXCEPT ![tool.result] = "toolResult"]
  /\ s1.tools = [s.tools EXCEPT ![t] = tool]
  /\ s1.pairs = s.pairs \cup {<<tool.assistant, tool.index>>}
  /\ SameOperations(s, s1) /\ s1.entries = s.entries /\ s1.unanswered = s.unanswered

(* apply_tool_started starts a call and reserves the identity of its       *)
(* result.                                                                 *)
LEMMA ToolStartedEffect ==
  ASSUME NEW s, NEW s1, Sound(s), AddsToolStarted(s, s1)
  PROVE  \E t, tool : ToolAdded(s, s1, t, tool)
<1>a. PICK t \in Id, e \in {j \in Id : s.entries[j] # None},
         args \in Arguments, replay \in {"safe", "never"}, key \in ReplayKey,
         env \in Environment :
      \E n \in DOMAIN s.entries[e].calls, result \in Id :
        LET f == [type |-> "toolStarted", id |-> t, op |-> s.entries[e].op,
                  step |-> s.entries[e].step, assistant |-> e, index |-> n,
                  call |-> s.entries[e].calls[n].id,
                  name |-> s.entries[e].calls[n].name,
                  args |-> args,
                  replay |-> replay, key |-> key, env |-> env,
                  result |-> result]
        IN  ReducesToolStarted(s, s1, f)
  BY DEF AddsToolStarted
<1>0. PICK n \in DOMAIN s.entries[e].calls, result \in Id :
        LET f == [type |-> "toolStarted", id |-> t, op |-> s.entries[e].op,
                  step |-> s.entries[e].step, assistant |-> e, index |-> n,
                  call |-> s.entries[e].calls[n].id,
                  name |-> s.entries[e].calls[n].name,
                  args |-> args,
                  replay |-> replay, key |-> key, env |-> env,
                  result |-> result]
        IN  ReducesToolStarted(s, s1, f)
  BY <1>a
<1> DEFINE f == [type |-> "toolStarted", id |-> t, op |-> s.entries[e].op,
                 step |-> s.entries[e].step, assistant |-> e, index |-> n,
                 call |-> s.entries[e].calls[n].id,
                 name |-> s.entries[e].calls[n].name,
                 args |-> args,
                 replay |-> replay, key |-> key, env |-> env,
                 result |-> result]
           tool == [op |-> f.op, step |-> f.step, assistant |-> f.assistant,
                    index |-> f.index, call |-> f.call, name |-> f.name,
                    args |-> f.args, replay |-> f.replay, key |-> f.key,
                    env |-> f.env, result |-> f.result, status |-> "pending"]
<1>1. s \in State /\ t \in Id /\ result \in Id /\ e \in Id /\ s.entries[e] # None
  BY DEF Sound
<1>2. n \in Nat /\ s.entries[e].calls[n] \in Call /\ s.entries[e].op \in Id
      /\ s.entries[e].step \in Id
  BY <1>1, CallTypes DEF Sound
<1>3. /\ f.id = t /\ f.op = s.entries[e].op /\ f.step = s.entries[e].step
      /\ f.assistant = e /\ f.index = n /\ f.call = s.entries[e].calls[n].id
      /\ f.name = s.entries[e].calls[n].name /\ f.args = args
      /\ f.replay = replay /\ f.key = key /\ f.env = env /\ f.result = result
      /\ f.type = "toolStarted"
  OBVIOUS
<1>b. ReducesToolStarted(s, s1, f)
  BY <1>0
<1> HIDE DEF f
<1>4. CanToolStarted(s, f) /\ s1 = DoToolStarted(s, f)
  BY <1>3, <1>b DEF ReducesToolStarted
<1>5. tool \in ToolCallState
  BY <1>1, <1>2, <1>3 DEF ToolCallState, Call
<1>6. /\ tool.status = "pending" /\ tool.result = result /\ tool.op = s.entries[e].op
      /\ tool.assistant = e /\ tool.index = n
  BY <1>3
<1>7. /\ s1.use = [[s.use EXCEPT ![f.id] = "used"] EXCEPT ![f.result] = "toolResult"]
      /\ s1.tools = [s.tools EXCEPT ![f.id] = tool]
      /\ s1.pairs = s.pairs \cup {<<f.assistant, f.index>>}
      /\ s1.operation = s.operation /\ s1.operations = s.operations
      /\ s1.attempts = s.attempts /\ s1.entries = s.entries
      /\ s1.unanswered = s.unanswered
  BY <1>1, <1>4, Zenon DEF DoToolStarted, State
<1> HIDE DEF tool
<1>8. /\ Free(s, t) /\ Free(s, result) /\ t # result
      /\ CurrentIs(s, "run", tool.op) /\ Unfinished(s, tool.op)
      /\ <<e, n>> \notin s.pairs
  BY <1>3, <1>4, <1>6 DEF CanToolStarted, NamesCall
<1>9. s.entries[e].calls # << >>
  OBVIOUS
<1>10. ToolAdded(s, s1, t, tool)
  BY <1>1, <1>3, <1>5, <1>6, <1>7, <1>8, <1>9 DEF ToolAdded, SameOperations
<1> QED BY <1>10

(* The abort of the current operation is requested, for the first time.     *)
AbortAdded(s, s1) ==
  /\ ~Idle(s) /\ ~s.operation.abort /\ ~Idle(s1)
  /\ s1.operation.id = s.operation.id /\ s1.operation.kind = s.operation.kind
  /\ s1.operation.step = s.operation.step /\ s1.operation.abort = TRUE
  /\ s1.operation.input = s.operation.input
  /\ s1.operations = s.operations /\ s1.attempts = s.attempts
  /\ s1.use = s.use /\ SameRest(s, s1)

(* apply_abort_requested asks for the abort and does nothing else.         *)
LEMMA AbortEffect ==
  ASSUME NEW s, NEW s1, Sound(s), AddsAbortRequested(s, s1)
  PROVE  AbortAdded(s, s1)
<1>1. PICK op \in Id, phase \in {"model", "tool", "compact"},
           call \in CallId \cup {None} :
        LET f == [type |-> "abortRequested", op |-> op,
                  kind |-> s.operations[op].kind, phase |-> phase, call |-> call]
        IN  ~Idle(s) /\ ~s.operation.abort /\ s1 = DoAbortRequested(s, f)
  BY DEF AddsAbortRequested, ReducesAbortRequested, CanAbortRequested
<1> DEFINE o == [s.operation EXCEPT !.abort = TRUE]
<1>2. s \in State /\ s.operation \in OperationState
  BY <1>1, CurrentType DEF Sound
<1>3. o \in OperationState /\ o.id = s.operation.id /\ o.kind = s.operation.kind
      /\ o.step = s.operation.step /\ o.abort = TRUE /\ o.input = s.operation.input
  BY <1>2, Zenon DEF OperationState
<1>4. /\ s1.operation = o /\ s1.operations = s.operations /\ s1.attempts = s.attempts
      /\ s1.use = s.use /\ s1.entries = s.entries /\ s1.tools = s.tools
      /\ s1.pairs = s.pairs /\ s1.unanswered = s.unanswered
  BY <1>1, <1>2, Zenon DEF DoAbortRequested, State
<1> HIDE DEF o
<1>5. ~Idle(s1)
  BY <1>3, <1>4, NoneAssumption DEF Idle
<1> QED BY <1>1, <1>3, <1>4, <1>5 DEF AbortAdded, SameRest

(* The current operation finishes, completed by an answer, aborted on       *)
(* request or failed.                                                       *)
Completes(s, op, final) ==
  LET e == s.entries[final]
  IN  /\ final \in Id /\ e # None /\ e.op = op /\ e.attempt # None
      /\ s.attempts[e.attempt].step = s.operations[op].latest
      /\ s.attempts[e.attempt].settled = final
      /\ s.operations[op].kind = "run" => e.stop = "stop" /\ PendingTools(s) = {}

FinishAdded(s, s1, op, final, how, info) ==
  /\ op \in Id /\ Unfinished(s, op) /\ ~Idle(s) /\ s.operation.id = op
  /\ how \in Outcome
  /\ how = "completed" => Completes(s, op, final)
  /\ how = "aborted" =>
       s.operation.abort /\ PendingTools(s) = {} /\ ~Attempting(s)
  /\ info \in OperationInfo /\ info.finished /\ info.kind = s.operations[op].kind
  /\ s1.operations = [s.operations EXCEPT ![op] = info] /\ Idle(s1)
  /\ s1.attempts = s.attempts /\ s1.use = s.use /\ SameRest(s, s1)

(* apply_operation_finished ends the current operation.                    *)
LEMMA FinishedEffect ==
  ASSUME NEW s, NEW s1, Sound(s), NEW f, ReducesOperationFinished(s, s1, f),
         NEW op \in Id, NEW final \in Id \cup {None}, NEW how \in Outcome,
         f.op = op, f.outcome = how, f.final = final
  PROVE  \E info : FinishAdded(s, s1, op, final, how, info)
<1> DEFINE info == [s.operations[op] EXCEPT !.finished = TRUE]
<1>a. f.op = op /\ f.outcome = how /\ f.final = final /\ ReducesOperationFinished(s, s1, f)
  OBVIOUS
<1>2. CanOperationFinished(s, f) /\ s1 = DoOperationFinished(s, f)
  BY <1>a DEF ReducesOperationFinished
<1>3. Unfinished(s, op) /\ ~Idle(s) /\ s.operation.id = op
  BY <1>2, <1>a DEF CanOperationFinished
<1>4. s \in State /\ s.operations[op] \in OperationInfo
  BY <1>3, CurrentType DEF Sound
<1>5. info \in OperationInfo /\ info.finished /\ info.kind = s.operations[op].kind
  BY <1>4, Zenon DEF OperationInfo
<1>6. /\ s1.operations = [s.operations EXCEPT ![op] = info] /\ s1.operation = None
      /\ s1.attempts = s.attempts /\ s1.use = s.use /\ s1.entries = s.entries
      /\ s1.tools = s.tools /\ s1.pairs = s.pairs /\ s1.unanswered = s.unanswered
  BY <1>2, <1>4, <1>a, Zenon DEF DoOperationFinished, State
<1>7. how = "completed" => MayComplete(s, f)
  BY <1>2, <1>a DEF CanOperationFinished
<1>8. how = "completed" => Completes(s, op, final)
  BY <1>7, <1>a DEF MayComplete, Completes
<1>9. how = "aborted" => s.operation.abort /\ PendingTools(s) = {} /\ ~Attempting(s)
  BY <1>2, <1>a DEF CanOperationFinished
<1> HIDE DEF info
<1>10. FinishAdded(s, s1, op, final, how, info)
  BY <1>3, <1>5, <1>6, <1>8, <1>9 DEF FinishAdded, SameRest, Idle
<1> QED BY <1>10

(* Usage touches nothing the invariant speaks of.                           *)
LEMMA UsageEffect ==
  ASSUME NEW s, NEW s1, Sound(s), AddsUsage(s, s1)
  PROVE  SameOperations(s, s1) /\ SameRest(s, s1) /\ s1.use = s.use
<1>1. PICK op \in Id, owner \in Id, amount \in 0..MaxUsage :
        s1 = DoUsage(s, [type |-> "usage", op |-> op, owner |-> owner,
                         amount |-> amount])
  BY DEF AddsUsage, ReducesUsage
<1>2. s \in State
  BY DEF Sound
<1> QED BY <1>1, <1>2, Zenon DEF DoUsage, State, SameOperations, SameRest

-----------------------------------------------------------------------------
(* Identities *)

(* No identity becomes free again, and nothing is said of one that is free. *)
Grows(s, s1) ==
  \A i \in Id :
    /\ Free(s1, i) =>
         /\ Free(s, i) /\ s1.operations[i] = s.operations[i]
         /\ s1.attempts[i] = s.attempts[i] /\ s1.tools[i] = s.tools[i]
    /\ s.use[i] = "identity" => s1.use[i] = "identity"

(* What is free stays unnamed when no fact names it.                       *)
LEMMA UnusedKept ==
  ASSUME NEW s, NEW s1, Unused(s), Grows(s, s1)
  PROVE  Unused(s1)
BY DEF Unused, Grows

(* The same for a message.                                                 *)
LEMMA MessageGrows ==
  ASSUME NEW s, NEW s1, Sound(s), NEW i, NEW e, MessageAdded(s, s1, i, e)
  PROVE  Grows(s, s1)
<1>1. s.use \in [Id -> Use]
  BY Fields DEF Sound
<1> QED BY <1>1 DEF MessageAdded, SameOperations, Grows, Free

(* The same for a tool result.                                             *)
LEMMA ResultGrows ==
  ASSUME NEW s, NEW s1, Sound(s), Unused(s), NEW t, NEW e, NEW done, ResultAdded(s, s1, t, e, done)
  PROVE  Grows(s, s1)
<1>1. s.use \in [Id -> Use] /\ s.tools \in [Id -> ToolCallState \cup {None}]
  BY Fields DEF Sound
<1>2. ~Free(s, t)
  BY DEF Unused, ResultAdded
<1> QED BY <1>1, <1>2 DEF ResultAdded, SameOperations, Grows, Free

(* The same for an answer, a summary and a failure.                        *)
LEMMA ClosingGrows ==
  ASSUME NEW s, NEW s1, Sound(s), Unused(s), NEW a, NEW info, NEW status, AttemptEnded(s, s1, a, info, status),
         s1.use = s.use \/ \E i : /\ s.use[i] = "free" \/ s.use[i] = "compactionResult"
                                  /\ s1.use = [s.use EXCEPT ![i] = "used"]
  PROVE  Grows(s, s1)
<1>1. s.use \in [Id -> Use] /\ s.attempts \in [Id -> AttemptInfo \cup {None}]
  BY Fields DEF Sound
<1>2. ~Free(s, a)
  BY DEF Unused, AttemptEnded
<1>3. \A i \in Id : /\ Free(s1, i) => Free(s, i)
                    /\ s.use[i] = "identity" => s1.use[i] = "identity"
  BY <1>1 DEF Free
<1> QED BY <1>1, <1>2, <1>3 DEF AttemptEnded, Grows

(* The same for the start of an operation.                                 *)
LEMMA StartedGrows ==
  ASSUME NEW s, NEW s1, Sound(s), NEW op, NEW info, OperationAdded(s, s1, op, info)
  PROVE  Grows(s, s1)
<1>1. s.operations \in [Id -> OperationInfo \cup {None}]
  BY Fields DEF Sound
<1>2. \A i \in Id : /\ Free(s1, i) => Free(s, i)
                    /\ s.use[i] = "identity" => s1.use[i] = "identity"
  BY DEF OperationAdded, Reserves, Free
<1> QED BY <1>1, <1>2 DEF OperationAdded, SameRest, Grows

(* The same for a step attempt, whose step may have been named before.     *)
LEMMA SteppedGrows ==
  ASSUME NEW s, NEW s1, Sound(s), Unused(s), AttemptOwned(s), NEW op, NEW step, NEW attempt, NEW new, NEW info,
         AttemptAdded(s, s1, op, step, attempt, new, info)
  PROVE  Grows(s, s1)
<1>1. s.operations \in [Id -> OperationInfo \cup {None}]
  BY Fields DEF Sound
<1>2. \A i \in Id : /\ Free(s1, i) => Free(s, i)
                    /\ s.use[i] = "identity" => s1.use[i] = "identity"
  BY DEF AttemptAdded, Free
<1>3. ~Free(s, op) /\ ~Free(s1, attempt)
  BY DEF AttemptAdded, Unused, Unfinished
<1>4. \A i \in Id : Free(s, i) => i \notin AttemptsOfStep(s, step)
  BY DEF Unused, AttemptsOfStep
<1>5. \A i \in Id : Free(s1, i) =>
        s1.operations[i] = s.operations[i] /\ s1.attempts[i] = s.attempts[i]
  BY <1>1, <1>2, <1>3, <1>4 DEF AttemptAdded
<1> QED BY <1>2, <1>5 DEF AttemptAdded, SameRest, Grows

(* The same for the start of a tool.                                       *)
LEMMA ToolStartGrows ==
  ASSUME NEW s, NEW s1, Sound(s), NEW t, NEW tool, ToolAdded(s, s1, t, tool)
  PROVE  Grows(s, s1)
<1>1. s.use \in [Id -> Use] /\ s.tools \in [Id -> ToolCallState \cup {None}]
  BY Fields DEF Sound
<1>2. \A i \in Id : /\ Free(s1, i) => Free(s, i) /\ i # t
                    /\ s.use[i] = "identity" => s1.use[i] = "identity"
  BY <1>1 DEF ToolAdded, Free
<1> QED BY <1>1, <1>2 DEF ToolAdded, SameOperations, Grows

(* The same for the end of an operation.                                   *)
LEMMA FinishedGrows ==
  ASSUME NEW s, NEW s1, Sound(s), Unused(s), NEW op, NEW final, NEW how, NEW info, FinishAdded(s, s1, op, final, how, info)
  PROVE  Grows(s, s1)
<1>1. s.operations \in [Id -> OperationInfo \cup {None}]
  BY Fields DEF Sound
<1>2. ~Free(s, op)
  BY DEF FinishAdded, Unused, Unfinished
<1> QED BY <1>1, <1>2 DEF FinishAdded, SameRest, Grows, Free

(* The same for facts that name nothing.                                   *)
LEMMA OtherGrows ==
  ASSUME NEW s, NEW s1, s1.use = s.use, s1.operations = s.operations, s1.attempts = s.attempts, SameRest(s, s1)
  PROVE  Grows(s, s1)
BY DEF SameRest, Grows, Free

-----------------------------------------------------------------------------
(* Attempts *)

(* Facts that change no operation, no attempt and no step.                  *)
Quiet(s, s1) ==
  /\ s1.attempts = s.attempts /\ s1.operations = s.operations
  /\ Idle(s1) <=> Idle(s)
  /\ ~Idle(s) => /\ s1.operation.id = s.operation.id
                 /\ s1.operation.kind = s.operation.kind
                 /\ s1.operation.step = s.operation.step

(* They keep every part about attempts.                                    *)
LEMMA QuietAttempts ==
  ASSUME NEW s, NEW s1, Sound(s), AttemptSide(s), Grows(s, s1), Quiet(s, s1)
  PROVE  AttemptSide(s1)
<1>1. Unused(s1)
  BY UnusedKept DEF AttemptSide
<1>2. AttemptOwned(s1)
  <2>1. \A a \in Id : s.attempts[a] # None => s.attempts[a].step \in Id
    BY Fields DEF Sound, AttemptInfo
  <2> QED BY <2>1 DEF AttemptSide, AttemptOwned, Grows, Quiet
<1>3. CopyLags(s1) /\ OneCompactionStep(s1)
  BY DEF AttemptSide, CopyLags, OneCompactionStep, Quiet
<1>4. StepNamed(s1)
  BY DEF AttemptSide, StepNamed, Quiet
<1>5. OpenIsCurrent(s1)
  <2>1. \A op \in Id : Unfinished(s1, op) => Unfinished(s, op) /\ ~Idle(s)
    BY DEF Quiet, Unfinished, Sound, OneCurrent
  <2>2. \A a \in Id : s.attempts[a] # None => s.attempts[a].op \in Id
    BY Fields DEF Sound, AttemptInfo
  <2> QED BY <2>1, <2>2 DEF AttemptSide, OpenIsCurrent, Quiet
<1> QED BY <1>1, <1>2, <1>3, <1>4, <1>5 DEF AttemptSide

(* Closing the open attempt leaves no other open, and lags its copy only in *)
(* a compaction.                                                            *)
LEMMA ClosingAttempts ==
  ASSUME NEW s, NEW s1, Sound(s), AttemptSide(s), Grows(s, s1), NEW a, NEW info, NEW status \in {"settled", "failed"},
         AttemptEnded(s, s1, a, info, status)
  PROVE  AttemptSide(s1)
<1>1. Unused(s1)
  BY UnusedKept DEF AttemptSide
<1>2. /\ \A b \in Id : s1.attempts[b] = IF b = a THEN info ELSE s.attempts[b]
      /\ a \in Id /\ s.attempts[a] # None /\ info # None
      /\ info.closed /\ info.op = s.attempts[a].op /\ info.step = s.attempts[a].step
      /\ info.kind = s.attempts[a].kind
      /\ info.kind = "run" => info.copyClosed
      /\ info.kind \in {"run", "compaction"}
  BY Fields, NoneAssumption DEF Sound, AttemptEnded, AttemptInfo
<1>3. \A b \in Id : /\ s1.attempts[b] # None <=> s.attempts[b] # None
                    /\ s1.attempts[b].op = s.attempts[b].op
                    /\ s1.attempts[b].step = s.attempts[b].step
                    /\ s1.attempts[b].kind = s.attempts[b].kind
  BY <1>2
<1>4. s1.operations = s.operations
  BY DEF AttemptEnded
<1>5. AttemptOwned(s1)
  <2>1. \A b \in Id : s.attempts[b] # None => s.attempts[b].step \in Id
    BY Fields DEF Sound, AttemptInfo
  <2> QED BY <1>3, <1>4, <2>1 DEF AttemptSide, AttemptOwned, Grows
<1>6. CopyLags(s1)
  <2> SUFFICES ASSUME NEW b \in Id, s1.attempts[b] # None, ~s1.attempts[b].copyClosed
               PROVE  /\ s1.attempts[b].closed =>
                           \/ s1.attempts[b].kind = "compaction"
                           \/ \E c \in Id : /\ c # b /\ s1.attempts[c] # None
                                            /\ s1.attempts[c].step = s1.attempts[b].step
                      /\ s1.attempts[b].kind = "run" => s1.attempts[b].settled = None
    BY DEF CopyLags
  <2>1. CASE b = a
    BY <1>2, <2>1
  <2>2. CASE b # a
    <3>1. s1.attempts[b] = s.attempts[b]
      BY <1>2, <2>2
    <3> QED BY <1>3, <3>1 DEF AttemptSide, CopyLags
  <2> QED BY <2>1, <2>2
<1>7. OneCompactionStep(s1)
  BY <1>3 DEF AttemptSide, OneCompactionStep
<1>8. /\ s.operation.step = [attempt |-> a, status |-> "attempting"]
      /\ s1.operation.step = [attempt |-> a, status |-> status]
  BY ClosesCurrent DEF AttemptSide
<1>9. StepNamed(s1)
  <2>1. s1.operation.step # None
    <3>1. [attempt |-> a, status |-> status] \in StepState
      BY <1>2 DEF StepState
    <3> QED BY <1>8, <3>1, NoneAssumption
  <2> QED BY <2>1 DEF StepNamed
<1>10. OpenIsCurrent(s1)
  <2> SUFFICES ASSUME NEW b \in Id, s1.attempts[b] # None, ~s1.attempts[b].closed,
                      Unfinished(s1, s1.attempts[b].op)
               PROVE  FALSE
    BY DEF OpenIsCurrent
  <2>1. b # a /\ s1.attempts[b] = s.attempts[b]
    BY <1>2
  <2>2. s.operation.step = [attempt |-> b, status |-> "attempting"]
    BY <1>4, <2>1 DEF AttemptSide, OpenIsCurrent, Unfinished
  <2> QED BY <1>8, <2>1, <2>2
<1> QED BY <1>1, <1>5, <1>6, <1>7, <1>9, <1>10 DEF AttemptSide

(* An operation that was never named has no attempts.                       *)
LEMMA StartedAttempts ==
  ASSUME NEW s, NEW s1, Sound(s), AttemptSide(s), Grows(s, s1), NEW op, NEW info, OperationAdded(s, s1, op, info)
  PROVE  AttemptSide(s1)
<1>1. Unused(s1)
  BY UnusedKept DEF AttemptSide
<1>2. /\ op \in Id /\ s.operations[op] = None /\ s1.attempts = s.attempts
      /\ \A p \in Id : s1.operations[p] = IF p = op THEN info ELSE s.operations[p]
  BY Fields DEF Sound, OperationAdded, AttemptSide, Unused
<1>3. \A a \in Id : s.attempts[a] # None =>
        /\ s.attempts[a].op \in Id /\ s.attempts[a].step \in Id /\ s.attempts[a].op # op
        /\ s1.operations[s.attempts[a].op] = s.operations[s.attempts[a].op]
  BY <1>2, Fields DEF Sound, AttemptInfo, AttemptSide, AttemptOwned
<1>4. AttemptOwned(s1)
  BY <1>2, <1>3 DEF AttemptSide, AttemptOwned, Grows
<1>5. CopyLags(s1) /\ OneCompactionStep(s1)
  BY <1>2 DEF AttemptSide, CopyLags, OneCompactionStep
<1>6. StepNamed(s1)
  BY <1>2, <1>3 DEF OperationAdded, StepNamed
<1>7. OpenIsCurrent(s1)
  <2>1. \A p \in Id : ~Unfinished(s, p)
    BY DEF OperationAdded, Sound, OneCurrent
  <2> QED BY <1>2, <1>3, <2>1 DEF OpenIsCurrent, Unfinished
<1> QED BY <1>1, <1>4, <1>5, <1>6, <1>7 DEF AttemptSide

(* When an operation finishes none is unfinished.                           *)
LEMMA FinishedAttempts ==
  ASSUME NEW s, NEW s1, Sound(s), AttemptSide(s), Grows(s, s1), NEW op, NEW final, NEW how, NEW info,
         FinishAdded(s, s1, op, final, how, info)
  PROVE  AttemptSide(s1)
<1>1. Unused(s1)
  BY UnusedKept DEF AttemptSide
<1>2. /\ s1.attempts = s.attempts /\ info # None /\ info.finished /\ op \in Id
      /\ info.kind = s.operations[op].kind /\ Idle(s1)
      /\ \A p \in Id : s1.operations[p] = IF p = op THEN info ELSE s.operations[p]
  BY Fields, NoneAssumption DEF Sound, FinishAdded
<1>3. \A a \in Id : s.attempts[a] # None =>
        /\ s.attempts[a].op \in Id /\ s.attempts[a].step \in Id
  BY Fields DEF Sound, AttemptInfo
<1>4. AttemptOwned(s1)
  BY <1>2, <1>3 DEF AttemptSide, AttemptOwned, Grows
<1>5. CopyLags(s1) /\ OneCompactionStep(s1)
  BY <1>2 DEF AttemptSide, CopyLags, OneCompactionStep
<1>6. StepNamed(s1)
  BY <1>2 DEF StepNamed
<1>7. OpenIsCurrent(s1)
  <2>1. \A p \in Id : ~Unfinished(s1, p)
    BY <1>2 DEF FinishAdded, Sound, OneCurrent, Unfinished
  <2> QED BY <1>2, <1>3, <2>1 DEF OpenIsCurrent
<1> QED BY <1>1, <1>4, <1>5, <1>6, <1>7 DEF AttemptSide

(* A step that is named for the first time has no attempts; no attempt of   *)
(* the operation is open; and a compaction had none.                        *)
LEMMA NewStep ==
  ASSUME NEW s, Sound(s), AttemptSide(s), NEW step \in Id, Free(s, step), NEW op \in Id,
         Unfinished(s, op), ~Idle(s), s.operation.id = op,
         s.operation.step # None =>
           s.operation.step.status = "settled" /\ s.operation.kind = "run"
  PROVE  /\ AttemptsOfStep(s, step) = {}
         /\ \A a \in Id : s.attempts[a] # None /\ s.attempts[a].op = op =>
              s.attempts[a].closed /\ s.attempts[a].kind # "compaction"
<1>1. AttemptsOfStep(s, step) = {}
  BY DEF AttemptsOfStep, AttemptSide, AttemptOwned, Free
<1>2. ASSUME NEW a \in Id, s.attempts[a] # None, s.attempts[a].op = op
      PROVE  s.attempts[a].closed /\ s.attempts[a].kind # "compaction"
  <2>1. s.operation.step # None
    BY <1>2 DEF AttemptSide, StepNamed
  <2>2. s.attempts[a].kind # "compaction"
    BY <1>2, <2>1 DEF AttemptSide, AttemptOwned, Sound, Linked
  <2>3. s.attempts[a].closed
    <3> SUFFICES ASSUME ~s.attempts[a].closed PROVE FALSE
      OBVIOUS
    <3>1. s.operation.step = [attempt |-> a, status |-> "attempting"]
      BY <1>2 DEF AttemptSide, OpenIsCurrent
    <3>2. s.operation.step.status = "attempting"
      BY <3>1
    <3> QED BY <2>1, <3>2
  <2>4. s.attempts[a].closed /\ s.attempts[a].kind # "compaction"
    BY <2>2, <2>3
  <2> QED BY <2>4
<1> QED BY <1>1, <1>2

(* A step that is tried again has one attempt, and no other attempt of the  *)
(* operation is open: the copy that was consulted says so only together     *)
(* with the kind of the operation.                                          *)
LEMMA RetriedStep ==
  ASSUME NEW s, Sound(s), AttemptSide(s), NEW step \in Id, NEW op \in Id, Unfinished(s, op),
         NEW p \in Id, AttemptsOfStep(s, step) = {p}, ~s.attempts[p].copyClosed,
         s.attempts[p].op = op
  PROVE  /\ s.attempts[p] # None /\ s.attempts[p].step = step
         /\ s.attempts[p].closed => s.attempts[p].kind = "compaction"
         /\ \A a \in Id : s.attempts[a] # None /\ s.attempts[a].op = op
                            /\ ~s.attempts[a].closed => a = p
         /\ s.attempts[p].kind = "compaction" =>
              \A a \in Id : s.attempts[a] # None /\ s.attempts[a].op = op => a = p
<1>1. /\ s.attempts[p] # None /\ s.attempts[p].step = step
      /\ \A a \in Id : s.attempts[a] # None /\ s.attempts[a].step = step => a = p
  BY DEF AttemptsOfStep
<1>2. s.attempts[p].closed => s.attempts[p].kind = "compaction"
  BY <1>1 DEF AttemptSide, CopyLags
<1>3. s.attempts[p].kind = "compaction" =>
        \A a \in Id : s.attempts[a] # None /\ s.attempts[a].op = op => a = p
  BY <1>1 DEF AttemptSide, OneCompactionStep
<1>4. ASSUME NEW a \in Id, s.attempts[a] # None, s.attempts[a].op = op,
             ~s.attempts[a].closed
      PROVE  a = p
  <2>1. CASE s.attempts[p].closed
    BY <1>2, <1>3, <1>4, <2>1
  <2>2. CASE ~s.attempts[p].closed
    <3>1. /\ s.operation.step = [attempt |-> a, status |-> "attempting"]
          /\ s.operation.step = [attempt |-> p, status |-> "attempting"]
      BY <1>1, <1>4, <2>2 DEF AttemptSide, OpenIsCurrent
    <3>2. s.operation.step.attempt = a /\ s.operation.step.attempt = p
      BY <3>1
    <3> QED BY <3>2
  <2> QED BY <2>1, <2>2
<1> QED BY <1>1, <1>2, <1>3, <1>4

(* What a step attempt leaves of the other attempts and operations.         *)
AttemptKept(s, s1, op, step, attempt, new, info) ==
  /\ op \in Id /\ step \in Id /\ attempt \in Id /\ s.attempts[attempt] = None
  /\ ~Idle(s) /\ s.operation.id = op /\ Unfinished(s, op)
  /\ info # None /\ new # None
  /\ new.op = op /\ new.step = step /\ new.kind = s.operations[op].kind
  /\ new.settled = None /\ info.kind = s.operations[op].kind /\ info.latest = step
  /\ \A q \in Id : s1.operations[q] = IF q = op THEN info ELSE s.operations[q]
  /\ s1.operation.step = [attempt |-> attempt, status |-> "attempting"]
  /\ s1.attempts[attempt] = new
  /\ \A a \in Id : a # attempt /\ a \notin AttemptsOfStep(s, step) =>
       s1.attempts[a] = s.attempts[a]
  /\ \A a \in Id : s.attempts[a] # None =>
       /\ a # attempt /\ s1.attempts[a] # None
       /\ s1.attempts[a].op = s.attempts[a].op
       /\ s1.attempts[a].step = s.attempts[a].step
       /\ s1.attempts[a].kind = s.attempts[a].kind
       /\ s1.attempts[a].copyClosed = s.attempts[a].copyClosed
       /\ s1.attempts[a].settled = s.attempts[a].settled
       /\ a \in AttemptsOfStep(s, step) => s1.attempts[a].closed
  /\ \A a \in Id : s1.attempts[a] # None => a = attempt \/ s.attempts[a] # None

(* A step attempt changes nothing else, and of the attempt it repeats only *)
(* that it is closed.                                                      *)
LEMMA SteppedKeeps ==
  ASSUME NEW s, NEW s1, Sound(s), AttemptSide(s), NEW op, NEW step, NEW attempt, NEW new, NEW info,
         AttemptAdded(s, s1, op, step, attempt, new, info)
  PROVE  AttemptKept(s, s1, op, step, attempt, new, info)
<1>2. /\ op \in Id /\ step \in Id /\ attempt \in Id /\ s.attempts[attempt] = None
      /\ ~Idle(s) /\ s.operation.id = op /\ Unfinished(s, op) /\ info # None /\ new # None
      /\ new.op = op /\ new.step = step /\ new.kind = s.operations[op].kind
      /\ new.settled = None /\ info.kind = s.operations[op].kind /\ info.latest = step
      /\ \A q \in Id : s1.operations[q] = IF q = op THEN info ELSE s.operations[q]
      /\ s1.operation.step = [attempt |-> attempt, status |-> "attempting"]
  <2>1. s.operations \in [Id -> OperationInfo \cup {None}]
    BY Fields DEF Sound
  <2>2. op \in Id /\ step \in Id /\ attempt \in Id /\ s.attempts[attempt] = None
    BY DEF AttemptAdded, AttemptSide, Unused
  <2>3. info # None /\ new # None
    BY NoneAssumption DEF AttemptAdded
  <2>4. \A q \in Id : s1.operations[q] = IF q = op THEN info ELSE s.operations[q]
    BY <2>1 DEF AttemptAdded
  <2> QED BY <2>2, <2>3, <2>4 DEF AttemptAdded, CurrentIs
<1>3. s1.attempts[attempt] = new
  BY <1>2 DEF AttemptAdded
<1>4. \A a \in AttemptsOfStep(s, step) :
        s1.attempts[a] = [s.attempts[a] EXCEPT !.closed = TRUE]
  BY <1>2 DEF AttemptAdded, AttemptsOfStep
<1>5. \A a \in Id : a # attempt /\ a \notin AttemptsOfStep(s, step) =>
        s1.attempts[a] = s.attempts[a]
  BY DEF AttemptAdded
<1>6. \A a \in Id : s.attempts[a] # None =>
        /\ a # attempt /\ s1.attempts[a] # None
        /\ s1.attempts[a].op = s.attempts[a].op
        /\ s1.attempts[a].step = s.attempts[a].step
        /\ s1.attempts[a].kind = s.attempts[a].kind
        /\ s1.attempts[a].copyClosed = s.attempts[a].copyClosed
        /\ s1.attempts[a].settled = s.attempts[a].settled
        /\ a \in AttemptsOfStep(s, step) => s1.attempts[a].closed
  <2> SUFFICES ASSUME NEW a \in Id, s.attempts[a] # None
               PROVE  /\ a # attempt /\ s1.attempts[a] # None
                      /\ s1.attempts[a].op = s.attempts[a].op
                      /\ s1.attempts[a].step = s.attempts[a].step
                      /\ s1.attempts[a].kind = s.attempts[a].kind
                      /\ s1.attempts[a].copyClosed = s.attempts[a].copyClosed
                      /\ s1.attempts[a].settled = s.attempts[a].settled
                      /\ a \in AttemptsOfStep(s, step) => s1.attempts[a].closed
    OBVIOUS
  <2>1. s.attempts[a] \in AttemptInfo
    BY Fields DEF Sound
  <2> DEFINE b == [s.attempts[a] EXCEPT !.closed = TRUE]
  <2>2. /\ b.op = s.attempts[a].op /\ b.step = s.attempts[a].step
        /\ b.kind = s.attempts[a].kind /\ b.copyClosed = s.attempts[a].copyClosed
        /\ b.settled = s.attempts[a].settled /\ b.closed
    BY <2>1, Zenon DEF AttemptInfo
  <2>3. b # None
    BY <2>1, AttemptClosed, NoneAssumption
  <2>4. a \in AttemptsOfStep(s, step) => s1.attempts[a] = b
    BY <1>4
  <2> HIDE DEF b
  <2>5. a # attempt
    BY <1>2
  <2> QED BY <1>5, <2>2, <2>3, <2>4, <2>5
<1>7. \A a \in Id : s1.attempts[a] # None => a = attempt \/ s.attempts[a] # None
  BY <1>5 DEF AttemptsOfStep
<1> QED BY <1>2, <1>3, <1>5, <1>6, <1>7 DEF AttemptKept

(* A step attempt is the only open attempt of its operation, and the       *)
(* current one.                                                            *)
LEMMA SteppedAttempts ==
  ASSUME NEW s, NEW s1, Sound(s), AttemptSide(s), Grows(s, s1),
         NEW op, NEW step, NEW attempt, NEW new, NEW info,
         AttemptAdded(s, s1, op, step, attempt, new, info)
  PROVE  AttemptSide(s1)
<1>0. AttemptKept(s, s1, op, step, attempt, new, info)
  BY SteppedKeeps
<1>1. Unused(s1)
  BY UnusedKept DEF AttemptSide
<1>2. /\ op \in Id /\ step \in Id /\ attempt \in Id /\ s.attempts[attempt] = None
      /\ ~Idle(s) /\ s.operation.id = op /\ Unfinished(s, op) /\ info # None /\ new # None
      /\ new.op = op /\ new.step = step /\ new.kind = s.operations[op].kind
      /\ new.settled = None /\ info.kind = s.operations[op].kind /\ info.latest = step
      /\ \A q \in Id : s1.operations[q] = IF q = op THEN info ELSE s.operations[q]
      /\ s1.operation.step = [attempt |-> attempt, status |-> "attempting"]
  BY <1>0 DEF AttemptKept
<1>3. s1.attempts[attempt] = new
  BY <1>0 DEF AttemptKept
<1>5. \A a \in Id : a # attempt /\ a \notin AttemptsOfStep(s, step) =>
        s1.attempts[a] = s.attempts[a]
  BY <1>0 DEF AttemptKept
<1>6. \A a \in Id : s.attempts[a] # None =>
        /\ a # attempt /\ s1.attempts[a] # None
        /\ s1.attempts[a].op = s.attempts[a].op
        /\ s1.attempts[a].step = s.attempts[a].step
        /\ s1.attempts[a].kind = s.attempts[a].kind
        /\ s1.attempts[a].copyClosed = s.attempts[a].copyClosed
        /\ s1.attempts[a].settled = s.attempts[a].settled
        /\ a \in AttemptsOfStep(s, step) => s1.attempts[a].closed
  BY <1>0 DEF AttemptKept
<1>7. \A a \in Id : s1.attempts[a] # None => a = attempt \/ s.attempts[a] # None
  BY <1>0 DEF AttemptKept
<1>8. \/ /\ AttemptsOfStep(s, step) = {}
         /\ \A a \in Id : s.attempts[a] # None /\ s.attempts[a].op = op =>
              s.attempts[a].closed /\ s.attempts[a].kind # "compaction"
      \/ \E p \in Id :
           /\ AttemptsOfStep(s, step) = {p}
           /\ \A a \in Id : s.attempts[a] # None /\ s.attempts[a].op = op
                              /\ ~s.attempts[a].closed => a = p
           /\ s.attempts[p].op = op
  <2>1. CASE Free(s, step) /\ (s.operation.step # None =>
               s.operation.step.status = "settled" /\ s.operation.kind = "run")
    BY <1>2, <2>1, NewStep
  <2>2. CASE \E p \in Id : AttemptsOfStep(s, step) = {p} /\ ~s.attempts[p].copyClosed
                             /\ s.attempts[p].op = op
    BY <1>2, <2>2, RetriedStep
  <2> QED BY <2>1, <2>2 DEF AttemptAdded
<1>9. \A a \in Id : s.attempts[a] # None => s.attempts[a].op \in Id /\ s.attempts[a].step \in Id
  BY Fields DEF Sound, AttemptInfo
<1>10. AttemptOwned(s1)
  <2>1. s1.use[step] = "identity"
    BY DEF AttemptAdded
  <2> SUFFICES ASSUME NEW a \in Id, s1.attempts[a] # None
               PROVE  /\ s1.use[s1.attempts[a].step] = "identity"
                      /\ s1.operations[s1.attempts[a].op] # None
                      /\ s1.operations[s1.attempts[a].op].kind = s1.attempts[a].kind
    BY DEF AttemptOwned
  <2>2. CASE a = attempt
    BY <1>2, <1>3, <2>1, <2>2
  <2>3. CASE s.attempts[a] # None
    <3>1. /\ s.use[s.attempts[a].step] = "identity" /\ s.operations[s.attempts[a].op] # None
          /\ s.operations[s.attempts[a].op].kind = s.attempts[a].kind
      BY <2>3 DEF AttemptSide, AttemptOwned
    <3> QED BY <1>2, <1>6, <1>9, <2>3, <3>1 DEF Grows
  <2> QED BY <1>7, <2>2, <2>3
<1>11. CopyLags(s1)
  <2> SUFFICES ASSUME NEW a \in Id, s1.attempts[a] # None, ~s1.attempts[a].copyClosed
               PROVE  /\ s1.attempts[a].closed =>
                           \/ s1.attempts[a].kind = "compaction"
                           \/ \E c \in Id : /\ c # a /\ s1.attempts[c] # None
                                            /\ s1.attempts[c].step = s1.attempts[a].step
                      /\ s1.attempts[a].kind = "run" => s1.attempts[a].settled = None
    BY DEF CopyLags
  <2>1. CASE a = attempt
    BY <1>3, <2>1 DEF AttemptAdded
  <2>2. CASE s.attempts[a] # None /\ a \in AttemptsOfStep(s, step)
    <3>1. s1.attempts[attempt] # None /\ s1.attempts[attempt].step = s1.attempts[a].step
      BY <1>2, <1>3, <1>6, <2>2 DEF AttemptsOfStep
    <3> QED BY <1>2, <1>6, <2>2, <3>1 DEF AttemptSide, CopyLags
  <2>3. CASE s.attempts[a] # None /\ a \notin AttemptsOfStep(s, step)
    <3>1. s1.attempts[a] = s.attempts[a]
      BY <1>5, <1>6, <2>3
    <3> QED BY <1>6, <2>3, <3>1 DEF AttemptSide, CopyLags
  <2> QED BY <1>7, <2>1, <2>2, <2>3
<1>12. OneCompactionStep(s1)
  <2>1. \A a \in Id : s.attempts[a] # None /\ s.attempts[a].op = op
                        /\ s.attempts[a].kind = "compaction" => s.attempts[a].step = step
    BY <1>8 DEF AttemptSide, OneCompactionStep, AttemptsOfStep
  <2>2. \A a \in Id : s.attempts[a] # None /\ s.attempts[a].op = op =>
          s.attempts[a].kind = new.kind
    BY <1>2 DEF AttemptSide, AttemptOwned
  <2> SUFFICES ASSUME NEW a \in Id, NEW b \in Id, s1.attempts[a] # None, s1.attempts[b] # None,
                      s1.attempts[a].op = s1.attempts[b].op,
                      s1.attempts[a].kind = "compaction"
               PROVE  s1.attempts[a].step = s1.attempts[b].step
    BY DEF OneCompactionStep
  <2>3. CASE a = attempt /\ s.attempts[b] # None
    BY <1>2, <1>3, <1>6, <2>1, <2>2, <2>3
  <2>4. CASE b = attempt /\ s.attempts[a] # None
    BY <1>2, <1>3, <1>6, <2>1, <2>2, <2>4
  <2>5. CASE s.attempts[a] # None /\ s.attempts[b] # None
    BY <1>6, <2>5 DEF AttemptSide, OneCompactionStep
  <2> QED BY <1>7, <2>3, <2>4, <2>5
<1>13. StepNamed(s1)
  <2>1. [attempt |-> attempt, status |-> "attempting"] \in StepState
    BY <1>2 DEF StepState
  <2> QED BY <1>2, <2>1, NoneAssumption DEF StepNamed
<1>14. OpenIsCurrent(s1)
  <2> SUFFICES ASSUME NEW a \in Id, s1.attempts[a] # None, ~s1.attempts[a].closed,
                      Unfinished(s1, s1.attempts[a].op)
               PROVE  a = attempt
    BY <1>2, <1>3 DEF OpenIsCurrent
  <2> SUFFICES ASSUME s.attempts[a] # None
               PROVE  FALSE
    BY <1>7
  <2>1. a \notin AttemptsOfStep(s, step) /\ s1.attempts[a] = s.attempts[a]
    BY <1>5, <1>6
  <2>2. s.attempts[a].op \in Id /\ s.attempts[a].op = op
    <3>1. \A q \in Id : Unfinished(s1, q) => q = op
      BY <1>2 DEF Unfinished, Sound, OneCurrent
    <3> QED BY <1>9, <2>1, <3>1
  <2> QED BY <1>8, <2>1, <2>2
<1> QED BY <1>1, <1>10, <1>11, <1>12, <1>13, <1>14 DEF AttemptSide

-----------------------------------------------------------------------------
(* Answers *)

AttemptsPersist(s, s1) ==
  \A a \in Id : s.attempts[a] # None =>
    /\ s1.attempts[a] # None /\ s1.attempts[a].op = s.attempts[a].op
    /\ s1.attempts[a].step = s.attempts[a].step
    /\ s1.attempts[a].kind = s.attempts[a].kind

(* Entries are written once, and one that names an attempt is its answer.   *)
EntriesGrow(s, s1) ==
  \A i \in Id :
    /\ s.use[i] = "used" => s1.use[i] = "used"
    /\ s1.entries[i] # s.entries[i] =>
         /\ s.use[i] # "used" /\ s1.use[i] = "used"
         /\ s1.entries[i].attempt # None =>
              /\ s1.attempts[s1.entries[i].attempt] # None
              /\ s1.attempts[s1.entries[i].attempt].op = s1.entries[i].op

(* So every entry keeps what it was, and every answer its attempt.         *)
LEMMA EntriesOwned ==
  ASSUME NEW s, NEW s1, Sound(s), Written(s), AnswerOwned(s), EntriesGrow(s, s1), AttemptsPersist(s, s1)
  PROVE  /\ Written(s1) /\ AnswerOwned(s1)
         /\ \A i \in Id : s.entries[i] # None => s1.entries[i] = s.entries[i]
<1>1. Written(s1)
  BY DEF Written, EntriesGrow
<1>2. \A i \in Id : s.entries[i] # None => s1.entries[i] = s.entries[i]
  BY DEF Written, EntriesGrow
<1>3. \A i \in Id : s.entries[i] # None /\ s.entries[i].attempt # None =>
        s.entries[i].attempt \in Id
  BY Fields DEF Sound, Entry
<1>4. AnswerOwned(s1)
  <2> SUFFICES ASSUME NEW i \in Id, s1.entries[i] # None, s1.entries[i].attempt # None
               PROVE  /\ s1.attempts[s1.entries[i].attempt] # None
                      /\ s1.attempts[s1.entries[i].attempt].op = s1.entries[i].op
    BY DEF AnswerOwned
  <2>1. CASE s1.entries[i] = s.entries[i]
    <3> DEFINE a == s.entries[i].attempt
    <3>1. a \in Id /\ s.attempts[a] # None /\ s.attempts[a].op = s.entries[i].op
      BY <1>3, <2>1 DEF AnswerOwned
    <3>2. s1.attempts[a] # None /\ s1.attempts[a].op = s.entries[i].op
      BY <3>1 DEF AttemptsPersist
    <3> QED BY <2>1, <3>2
  <2>2. CASE s1.entries[i] # s.entries[i]
    BY <2>2 DEF EntriesGrow
  <2> QED BY <2>1, <2>2
<1> QED BY <1>1, <1>2, <1>4

(* No attempt is lost when none changes.                                   *)
LEMMA PersistQuiet ==
  ASSUME NEW s, NEW s1, s1.attempts = s.attempts
  PROVE  AttemptsPersist(s, s1)
BY DEF AttemptsPersist

(* Nor when one closes.                                                    *)
LEMMA PersistClosing ==
  ASSUME NEW s, NEW s1, Sound(s), NEW a, NEW info, NEW status, AttemptEnded(s, s1, a, info, status)
  PROVE  /\ AttemptsPersist(s, s1)
         /\ \A b \in Id : s1.attempts[b] = IF b = a THEN info ELSE s.attempts[b]
<1>1. /\ \A b \in Id : s1.attempts[b] = IF b = a THEN info ELSE s.attempts[b]
      /\ info # None /\ info.op = s.attempts[a].op /\ info.step = s.attempts[a].step
      /\ info.kind = s.attempts[a].kind
  BY Fields, NoneAssumption DEF Sound, AttemptEnded
<1> QED BY <1>1 DEF AttemptsPersist

(* Nor when one is opened.                                                 *)
LEMMA PersistStepped ==
  ASSUME NEW s, NEW s1, Sound(s), AttemptSide(s), NEW op, NEW step, NEW attempt, NEW new, NEW info,
         AttemptAdded(s, s1, op, step, attempt, new, info)
  PROVE  AttemptsPersist(s, s1)
<1>1. AttemptKept(s, s1, op, step, attempt, new, info)
  BY SteppedKeeps, Zenon
<1> QED BY <1>1 DEF AttemptsPersist, AttemptKept

(* Facts that write no entry.                                              *)
LEMMA QuietEntries ==
  ASSUME NEW s, NEW s1, s1.entries = s.entries, \A i \in Id : s.use[i] = "used" => s1.use[i] = "used"
  PROVE  EntriesGrow(s, s1)
BY DEF EntriesGrow

(* A message that names no attempt.                                         *)
LEMMA PlainEntries ==
  ASSUME NEW s, NEW s1, Sound(s), NEW i \in Id, NEW e, e.attempt = None, s.use[i] # "used",
         s1.use = [s.use EXCEPT ![i] = "used"],
         s1.entries = [s.entries EXCEPT ![i] = e]
  PROVE  EntriesGrow(s, s1)
<1>1. s.use \in [Id -> Use] /\ s.entries \in [Id -> Entry \cup {None}]
  BY Fields DEF Sound
<1> QED BY <1>1 DEF EntriesGrow

(* The answer to the attempt it closes.                                     *)
LEMMA AnsweringEntries ==
  ASSUME NEW s, NEW s1, Sound(s), NEW a, NEW info, NEW status, AttemptEnded(s, s1, a, info, status),
         NEW i \in Id, NEW e, e.attempt = a, e.op = info.op, s.use[i] # "used",
         s1.use = [s.use EXCEPT ![i] = "used"],
         s1.entries = [s.entries EXCEPT ![i] = e]
  PROVE  EntriesGrow(s, s1)
<1>1. s.use \in [Id -> Use] /\ s.entries \in [Id -> Entry \cup {None}]
  BY Fields DEF Sound
<1>2. s1.attempts[a] # None /\ s1.attempts[a].op = info.op
  BY PersistClosing, NoneAssumption DEF AttemptEnded
<1> QED BY <1>1, <1>2 DEF EntriesGrow

(* A fact that changes no attempt and opens no call keeps the last answer   *)
(* the last.                                                                *)
LEMMA QuietLast ==
  ASSUME NEW s, NEW s1, Sound(s), AnswerIsLast(s), Quiet(s, s1), s.unanswered = {} => s1.unanswered = {},
         \A i \in Id : s.entries[i] # None => s1.entries[i] = s.entries[i]
  PROVE  AnswerIsLast(s1)
<1>1. \A op \in Id : Unfinished(s1, op) => Unfinished(s, op) /\ ~Idle(s)
  BY DEF Quiet, Unfinished, Sound, OneCurrent
<1>2. \A a \in Id : s.attempts[a] # None =>
        s.attempts[a].op \in Id /\ s.attempts[a].settled \in Id \cup {None}
  BY Fields DEF Sound, AttemptInfo
<1> SUFFICES ASSUME NEW a \in Id, s1.attempts[a] # None, s1.attempts[a].kind = "run",
                    s1.attempts[a].settled # None, Unfinished(s1, s1.attempts[a].op),
                    s1.attempts[a].step = s1.operations[s1.attempts[a].op].latest
             PROVE  /\ s1.operation.step = [attempt |-> a, status |-> "settled"]
                    /\ s1.entries[s1.attempts[a].settled] # None
                    /\ s1.entries[s1.attempts[a].settled].stop = "stop"
                         => s1.unanswered = {}
  BY DEF AnswerIsLast
<1>3. s1.attempts[a] = s.attempts[a] /\ s1.operations = s.operations
  BY DEF Quiet
<1>4. Unfinished(s, s.attempts[a].op) /\ ~Idle(s) /\ s.attempts[a].settled \in Id
  BY <1>1, <1>2, <1>3
<1>5. /\ s.operation.step = [attempt |-> a, status |-> "settled"]
      /\ s.entries[s.attempts[a].settled] # None
      /\ s.entries[s.attempts[a].settled].stop = "stop" => s.unanswered = {}
  BY <1>3, <1>4 DEF AnswerIsLast
<1> QED BY <1>3, <1>4, <1>5 DEF Quiet

(* When an attempt closes no attempt of the latest step was settled.        *)
LEMMA ClosingLast ==
  ASSUME NEW s, NEW s1, Sound(s), AttemptSide(s), AnswerIsLast(s),
         NEW a, NEW info, NEW status \in {"settled", "failed"}, AttemptEnded(s, s1, a, info, status),
         info.kind = "run" /\ info.settled # None =>
           /\ status = "settled" /\ s1.entries[info.settled] # None
           /\ s1.entries[info.settled].stop = "stop" => s1.unanswered = {}
  PROVE  AnswerIsLast(s1)
<1>1. /\ s.operation.step = [attempt |-> a, status |-> "attempting"]
      /\ s1.operation.step = [attempt |-> a, status |-> status]
  <2>1. OpenIsCurrent(s)
    BY Zenon DEF AttemptSide
  <2>2. s.operation.step = [attempt |-> a, status |-> "attempting"]
    BY ClosesCurrent, <2>1, Zenon
  <2>3. s1.operation.step = [attempt |-> a, status |-> status]
    BY ClosesCurrent, <2>1, Zenon
  <2> QED BY <2>2, <2>3
<1>2. \A b \in Id : s1.attempts[b] = IF b = a THEN info ELSE s.attempts[b]
  BY Fields DEF Sound, AttemptEnded
<1>3. s1.operations = s.operations
  BY DEF AttemptEnded
<1> SUFFICES ASSUME NEW b \in Id, s1.attempts[b] # None, s1.attempts[b].kind = "run",
                    s1.attempts[b].settled # None, Unfinished(s1, s1.attempts[b].op),
                    s1.attempts[b].step = s1.operations[s1.attempts[b].op].latest
             PROVE  /\ s1.operation.step = [attempt |-> b, status |-> "settled"]
                    /\ s1.entries[s1.attempts[b].settled] # None
                    /\ s1.entries[s1.attempts[b].settled].stop = "stop"
                         => s1.unanswered = {}
  BY DEF AnswerIsLast
<1>4. CASE b = a
  BY <1>1, <1>2, <1>4
<1>5. CASE b # a
  <2>1. s1.attempts[b] = s.attempts[b] /\ Unfinished(s, s.attempts[b].op)
    BY <1>2, <1>3, <1>5 DEF Unfinished
  <2>2. s.operation.step = [attempt |-> b, status |-> "settled"]
    BY <1>3, <2>1 DEF AnswerIsLast
  <2>3. s.operation.step.status = "settled" /\ s.operation.step.status = "attempting"
    BY <1>1, <2>2
  <2> QED BY <2>3
<1> QED BY <1>4, <1>5

(* An open attempt of a run has no answer.                                  *)
LEMMA OpenUnsettled ==
  ASSUME NEW s, NEW s1, Sound(s), AttemptSide(s), AnswerIsLast(s), NEW a, NEW info,
         NEW status \in {"settled", "failed"}, AttemptEnded(s, s1, a, info, status)
  PROVE  s.attempts[a].kind = "run" => s.attempts[a].settled = None
<1> SUFFICES ASSUME s.attempts[a].kind = "run", s.attempts[a].settled # None
             PROVE  FALSE
  OBVIOUS
<1>1. /\ a \in Id /\ s.attempts[a] # None /\ ~s.attempts[a].closed
      /\ Unfinished(s, s.attempts[a].op)
  BY DEF AttemptEnded
<1>2. /\ s.operation.step = [attempt |-> a, status |-> "attempting"]
      /\ s.attempts[a].step = s.operations[s.attempts[a].op].latest
  BY <1>1 DEF AttemptSide, OpenIsCurrent
<1>3. s.operation.step = [attempt |-> a, status |-> "settled"]
  BY <1>1, <1>2 DEF AnswerIsLast
<1>4. s.operation.step.status = "settled" /\ s.operation.step.status = "attempting"
  BY <1>2, <1>3
<1> QED BY <1>4

(* The answer to the open attempt becomes the last.                        *)
LEMMA AnswerLast ==
  ASSUME NEW s, NEW s1, Sound(s), AttemptSide(s), AnswerIsLast(s), NEW i, NEW a, NEW e, NEW info,
         AnswerAdded(s, s1, i, a, e, info)
  PROVE  AnswerIsLast(s1)
<1>1. s.entries \in [Id -> Entry \cup {None}]
  BY Fields DEF Sound
<1>2. s1.entries[i] = e /\ e # None
  BY <1>1, NoneAssumption DEF AnswerAdded
<1>3. AttemptEnded(s, s1, a, info, "settled") /\ info.settled = i
  BY DEF AnswerAdded
<1>4. e.stop = "stop" => s1.unanswered = {}
  BY DEF AnswerAdded
<1> QED BY <1>2, <1>3, <1>4, ClosingLast

(* A compaction has no answers.                                            *)
LEMMA SummaryLast ==
  ASSUME NEW s, NEW s1, Sound(s), AttemptSide(s), AnswerIsLast(s), NEW i, NEW a, NEW e, NEW info,
         SummaryAdded(s, s1, i, a, e, info)
  PROVE  AnswerIsLast(s1)
<1>1. AttemptEnded(s, s1, a, info, "settled")
  BY DEF SummaryAdded
<1>2. info.kind = "compaction"
  BY <1>1 DEF SummaryAdded, AttemptEnded, AttemptSide, AttemptOwned, Sound, Linked
<1>3. info.kind # "run"
  BY <1>2
<1> QED BY <1>1, <1>3, ClosingLast

(* A failure leaves its attempt without an answer.                         *)
LEMMA FailureLast ==
  ASSUME NEW s, NEW s1, Sound(s), AttemptSide(s), AnswerIsLast(s), NEW a, NEW info, FailureAdded(s, s1, a, info)
  PROVE  AnswerIsLast(s1)
<1>1. AttemptEnded(s, s1, a, info, "failed") /\ info.settled = s.attempts[a].settled
      /\ info.kind = s.attempts[a].kind
  BY DEF FailureAdded, AttemptEnded
<1>2. info.kind = "run" => info.settled = None
  BY <1>1, OpenUnsettled
<1> QED BY <1>1, <1>2, ClosingLast

(* A new operation has no attempt to be answered.                          *)
LEMMA StartedLast ==
  ASSUME NEW s, NEW s1, Sound(s), AttemptSide(s), NEW op, NEW info, OperationAdded(s, s1, op, info)
  PROVE  AnswerIsLast(s1)
<1>1. /\ s.operations[op] = None /\ s1.attempts = s.attempts
      /\ \A p \in Id : s1.operations[p] = IF p = op THEN info ELSE s.operations[p]
  BY Fields DEF Sound, OperationAdded, AttemptSide, Unused
<1>2. \A a \in Id : s.attempts[a] # None =>
        s.attempts[a].op \in Id /\ s.attempts[a].op # op
  BY <1>1, Fields DEF Sound, AttemptInfo, AttemptSide, AttemptOwned
<1>3. \A p \in Id : ~Unfinished(s, p)
  BY DEF OperationAdded, Sound, OneCurrent
<1>4. \A a \in Id : s.attempts[a] # None => ~Unfinished(s1, s.attempts[a].op)
  BY <1>1, <1>2, <1>3 DEF Unfinished
<1> QED BY <1>1, <1>4 DEF AnswerIsLast

(* When none is unfinished nothing is asked of the answers.                *)
LEMMA FinishedLast ==
  ASSUME NEW s, NEW s1, Sound(s), NEW op, NEW final, NEW how, NEW info, FinishAdded(s, s1, op, final, how, info)
  PROVE  AnswerIsLast(s1)
<1>1. /\ s1.attempts = s.attempts /\ info.finished /\ op \in Id
      /\ \A p \in Id : s1.operations[p] = IF p = op THEN info ELSE s.operations[p]
  BY Fields DEF Sound, FinishAdded
<1>2. \A p \in Id : ~Unfinished(s1, p)
  BY <1>1 DEF FinishAdded, Sound, OneCurrent, Unfinished
<1>3. \A a \in Id : s.attempts[a] # None => s.attempts[a].op \in Id
  BY Fields DEF Sound, AttemptInfo
<1> QED BY <1>1, <1>2, <1>3 DEF AnswerIsLast

(* A step attempt leaves no answered attempt in the latest step.            *)
LEMMA SteppedLast ==
  ASSUME NEW s, NEW s1, Sound(s), AttemptSide(s), AnswerIsLast(s), NEW op, NEW step, NEW attempt, NEW new, NEW info,
         AttemptAdded(s, s1, op, step, attempt, new, info)
  PROVE  AnswerIsLast(s1)
<1>0. AttemptKept(s, s1, op, step, attempt, new, info)
  BY SteppedKeeps
<1> SUFFICES ASSUME NEW a \in Id, s1.attempts[a] # None, s1.attempts[a].kind = "run",
                    s1.attempts[a].settled # None, Unfinished(s1, s1.attempts[a].op),
                    s1.attempts[a].step = s1.operations[s1.attempts[a].op].latest
             PROVE  FALSE
  BY DEF AnswerIsLast
<1>1. a # attempt /\ s.attempts[a] # None
  BY <1>0 DEF AttemptKept
<1>2. /\ s1.attempts[a].op = s.attempts[a].op /\ s1.attempts[a].step = s.attempts[a].step
      /\ s1.attempts[a].kind = s.attempts[a].kind
      /\ s1.attempts[a].settled = s.attempts[a].settled
  BY <1>0, <1>1 DEF AttemptKept
<1>3. s.attempts[a].op \in Id
  BY <1>1, Fields DEF Sound, AttemptInfo
<1>4. s.attempts[a].op = op
  <2>1. \A q \in Id : Unfinished(s1, q) => q = op
    BY <1>0 DEF AttemptKept, Unfinished, Sound, OneCurrent
  <2> QED BY <1>2, <1>3, <2>1
<1>5. s.attempts[a].step = step
  BY <1>0, <1>2, <1>4 DEF AttemptKept
<1>6. a \in AttemptsOfStep(s, step)
  BY <1>1, <1>5 DEF AttemptsOfStep
<1>7. CASE Free(s, step)
  BY <1>1, <1>5, <1>7 DEF AttemptSide, AttemptOwned, Free
<1>8. CASE \E p \in Id : AttemptsOfStep(s, step) = {p} /\ ~s.attempts[p].copyClosed
  <2>1. ~s.attempts[a].copyClosed
    BY <1>6, <1>8
  <2> QED BY <1>1, <1>2, <2>1 DEF AttemptSide, CopyLags
<1> QED BY <1>7, <1>8 DEF AttemptAdded

-----------------------------------------------------------------------------
(* Started tools *)

OperationsPersist(s, s1) ==
  \A op \in Id : s.operations[op] # None =>
    /\ s1.operations[op] # None /\ s1.operations[op].kind = s.operations[op].kind

EntriesPersist(s, s1) == \A i \in Id : s.entries[i] # None => s1.entries[i] = s.entries[i]

Reserved(s, s1) == \A i \in Id : s.use[i] = "toolResult" => s1.use[i] = "toolResult"

(* A started tool names an operation, an answer and a result.              *)
LEMMA ToolFields ==
  ASSUME NEW s, Sound(s), NEW t \in Id, s.tools[t] # None
  PROVE  /\ s.tools[t] \in ToolCallState /\ s.tools[t].op \in Id
         /\ s.tools[t].result \in Id /\ s.tools[t].assistant \in Id
         /\ s.tools[t].status \in {"pending", "completed"}
BY Fields DEF Sound, ToolCallState

(* Facts that start and answer no tool.                                     *)
LEMMA KeptTools ==
  ASSUME NEW s, NEW s1, Sound(s), ToolSide(s), Grows(s, s1), AttemptsPersist(s, s1), OperationsPersist(s, s1), EntriesPersist(s, s1),
         Reserved(s, s1), s1.tools = s.tools, s.pairs \subseteq s1.pairs
  PROVE  ToolSide(s1)
<1>1. ToolOwned(s1)
  BY ToolFields DEF ToolSide, ToolOwned, AttemptsPersist, OperationsPersist
<1>2. ToolPaired(s1)
  BY ToolFields DEF ToolSide, ToolPaired, EntriesPersist, Grows
<1>3. IntentsMatch(s1)
  BY ToolFields DEF ToolSide, IntentsMatch, EntriesPersist, Reserved
<1> QED BY <1>1, <1>2, <1>3 DEF ToolSide

(* A tool is started for a call that was not, with a result of its own.     *)
LEMMA ToolStartTools ==
  ASSUME NEW s, NEW s1, Sound(s), Ledger(s), Grows(s, s1), NEW t, NEW tool, ToolAdded(s, s1, t, tool)
  PROVE  ToolSide(s1)
<1>1. /\ \A u \in Id : s1.tools[u] = IF u = t THEN tool ELSE s.tools[u]
      /\ t \in Id /\ s.tools[t] = None /\ tool # None /\ tool \in ToolCallState
      /\ tool.op \in Id /\ tool.result \in Id /\ tool.assistant \in Id
      /\ tool.status = "pending"
  BY Fields, NoneAssumption DEF Sound, ToolAdded, Ledger, AttemptSide, Unused,
                                ToolCallState
<1>2. /\ s1.operations = s.operations /\ s1.attempts = s.attempts
      /\ s1.entries = s.entries /\ s1.pairs = s.pairs \cup {<<tool.assistant, tool.index>>}
      /\ <<tool.assistant, tool.index>> \notin s.pairs
      /\ Free(s, tool.result) /\ Free(s, t) /\ tool.result # t
  BY DEF ToolAdded, SameOperations
<1>3. /\ \A i \in Id : i # t /\ i # tool.result => s1.use[i] = s.use[i]
      /\ s1.use[tool.result] = "toolResult"
  BY <1>1, Fields DEF Sound, ToolAdded
<1>4. \A u \in Id : s.tools[u] # None =>
        /\ u # t /\ ~Free(s, s.tools[u].result) /\ s.tools[u].result # tool.result
        /\ s1.use[s.tools[u].result] = s.use[s.tools[u].result]
        /\ <<s.tools[u].assistant, s.tools[u].index>> \in s.pairs
  BY <1>1, <1>2, <1>3, ToolFields DEF Ledger, ToolSide, ToolPaired
<1>5. ToolOwned(s1)
  <2>1. /\ s.operations[tool.op] # None /\ s.operations[tool.op].kind = "run"
        /\ \E a \in Id : s.attempts[a] # None /\ s.attempts[a].op = tool.op
    <3>1. s.operations[tool.op] # None /\ s.operations[tool.op].kind = "run"
      BY DEF ToolAdded, CurrentIs, Unfinished, Sound, Linked
    <3> DEFINE e == s.entries[tool.assistant]
    <3>2. e # None /\ e.op = tool.op /\ e.attempt \in Id
      BY <1>1 DEF ToolAdded, Sound, Linked
    <3>3. s.attempts[e.attempt] # None /\ s.attempts[e.attempt].op = tool.op
      BY <1>1, <3>2, NoneAssumption DEF Ledger, AnswerSide, AnswerOwned
    <3> QED BY <3>1, <3>2, <3>3
  <2> QED BY <1>1, <1>2, <1>4, <2>1 DEF Ledger, ToolSide, ToolOwned
<1>6. ToolPaired(s1)
  <2> SUFFICES ASSUME NEW u \in Id, s1.tools[u] # None
               PROVE  /\ <<s1.tools[u].assistant, s1.tools[u].index>> \in s1.pairs
                      /\ s1.tools[u].status = "completed"
                           => s1.entries[s1.tools[u].result] # None
                      /\ ~Free(s1, s1.tools[u].result)
                      /\ \A v \in Id \ {u} : s1.tools[v] # None =>
                           s1.tools[v].result # s1.tools[u].result
    BY DEF ToolPaired
  <2>1. CASE u = t
    <3>1. s1.tools[u] = tool /\ ~Free(s1, tool.result)
      BY <1>1, <1>3, <2>1 DEF Free
    <3>2. \A v \in Id \ {u} : s1.tools[v] # None => s1.tools[v].result # tool.result
      <4> SUFFICES ASSUME NEW v \in Id \ {u}, s1.tools[v] # None
                   PROVE  s1.tools[v].result # tool.result
        OBVIOUS
      <4>1. s1.tools[v] = s.tools[v]
        BY <1>1, <2>1
      <4> QED BY <1>4, <4>1
    <3>3. tool.status # "completed"
      BY <1>1
    <3> QED BY <1>2, <3>1, <3>2, <3>3
  <2>2. CASE u # t
    <3>1. s1.tools[u] = s.tools[u] /\ s.tools[u] # None
      BY <1>1, <2>2
    <3>2. ~Free(s1, s.tools[u].result)
      BY <1>4, <3>1 DEF Free
    <3>3. \A v \in Id \ {u} : s1.tools[v] # None => s1.tools[v].result # s.tools[u].result
      <4> SUFFICES ASSUME NEW v \in Id \ {u}, s1.tools[v] # None
                   PROVE  s1.tools[v].result # s.tools[u].result
        OBVIOUS
      <4>1. CASE v = t
        <5>1. s1.tools[v] = tool
          BY <1>1, <4>1
        <5> QED BY <1>4, <3>1, <5>1
      <4>2. CASE v # t
        <5>1. s1.tools[v] = s.tools[v]
          BY <1>1, <4>2
        <5> QED BY <3>1, <5>1 DEF Ledger, ToolSide, ToolPaired
      <4> QED BY <4>1, <4>2
    <3> QED BY <1>2, <3>1, <3>2, <3>3 DEF Ledger, ToolSide, ToolPaired
  <2> QED BY <2>1, <2>2
<1>7. IntentsMatch(s1)
  <2> SUFFICES ASSUME NEW u \in Id, s1.tools[u] # None
               PROVE  LET x == s1.tools[u]
                          entry == s1.entries[x.result]
                      IN  /\ x.status = "pending" => s1.use[x.result] = "toolResult"
                          /\ x.status = "completed" =>
                               entry # None /\ entry.type = "tool" /\ entry.op = x.op
                                 /\ entry.step = x.step /\ entry.call = x.call
                          /\ \A v \in Id \ {u} : s1.tools[v] # None =>
                               <<x.assistant, x.index>>
                                 # <<s1.tools[v].assistant, s1.tools[v].index>>
    BY DEF IntentsMatch
  <2>1. CASE u = t
    <3>1. s1.tools[u] = tool
      BY <1>1, <2>1
    <3>2. \A v \in Id \ {u} : s1.tools[v] # None =>
            <<s1.tools[v].assistant, s1.tools[v].index>> \in s.pairs
      BY <1>1, <1>4, <2>1
    <3> QED BY <1>1, <1>2, <1>3, <3>1, <3>2
  <2>2. CASE u # t
    <3>1. s1.tools[u] = s.tools[u] /\ s.tools[u] # None
      BY <1>1, <2>2
    <3>2. \A v \in Id \ {u} : s1.tools[v] # None =>
            <<s.tools[u].assistant, s.tools[u].index>>
              # <<s1.tools[v].assistant, s1.tools[v].index>>
      <4> SUFFICES ASSUME NEW v \in Id \ {u}, s1.tools[v] # None
                   PROVE  <<s.tools[u].assistant, s.tools[u].index>>
                            # <<s1.tools[v].assistant, s1.tools[v].index>>
        OBVIOUS
      <4>1. CASE v = t
        BY <1>1, <1>2, <1>4, <3>1, <4>1
      <4>2. CASE v # t
        BY <1>1, <3>1, <4>2 DEF Ledger, ToolSide, IntentsMatch
      <4> QED BY <4>1, <4>2
    <3>3. /\ s.tools[u].status = "pending" => s.use[s.tools[u].result] = "toolResult"
          /\ s.tools[u].status = "completed" =>
               /\ s.entries[s.tools[u].result] # None
               /\ s.entries[s.tools[u].result].type = "tool"
               /\ s.entries[s.tools[u].result].op = s.tools[u].op
               /\ s.entries[s.tools[u].result].step = s.tools[u].step
               /\ s.entries[s.tools[u].result].call = s.tools[u].call
      BY <3>1 DEF Ledger, ToolSide, IntentsMatch
    <3> QED BY <1>2, <1>4, <3>1, <3>2, <3>3
  <2> QED BY <2>1, <2>2
<1> QED BY <1>5, <1>6, <1>7 DEF ToolSide

(* The result of a tool takes the identity reserved for it, and no other.   *)
LEMMA ResultTools ==
  ASSUME NEW s, NEW s1, Sound(s), Ledger(s), Grows(s, s1), EntriesPersist(s, s1), NEW t, NEW e, NEW done, ResultAdded(s, s1, t, e, done)
  PROVE  ToolSide(s1)
<1>1. /\ \A u \in Id : s1.tools[u] = IF u = t THEN done ELSE s.tools[u]
      /\ t \in Id /\ s.tools[t] # None /\ done # None /\ e # None
      /\ s1.operations = s.operations /\ s1.attempts = s.attempts /\ s1.pairs = s.pairs
      /\ s.tools[t].result \in Id
  BY Fields, ToolFields, NoneAssumption DEF Sound, ResultAdded, SameOperations
<1>2. \A u \in Id :
        /\ s1.tools[u] # None <=> s.tools[u] # None
        /\ s1.tools[u].op = s.tools[u].op /\ s1.tools[u].result = s.tools[u].result
        /\ s1.tools[u].assistant = s.tools[u].assistant
        /\ s1.tools[u].index = s.tools[u].index
  BY <1>1 DEF ResultAdded
<1>3. \A u \in Id \ {t} : s.tools[u] # None => s.tools[u].result # s.tools[t].result
  BY <1>1 DEF Ledger, ToolSide, ToolPaired
<1>4. /\ s1.entries[s.tools[t].result] = e
      /\ \A i \in Id : i # s.tools[t].result => s1.use[i] = s.use[i]
  BY <1>1, Fields DEF Sound, ResultAdded
<1>5. ToolOwned(s1)
  BY <1>1, <1>2 DEF Ledger, ToolSide, ToolOwned
<1>6. ToolPaired(s1)
  <2> SUFFICES ASSUME NEW u \in Id, s1.tools[u] # None
               PROVE  /\ <<s1.tools[u].assistant, s1.tools[u].index>> \in s1.pairs
                      /\ s1.tools[u].status = "completed"
                           => s1.entries[s1.tools[u].result] # None
                      /\ ~Free(s1, s1.tools[u].result)
                      /\ \A v \in Id \ {u} : s1.tools[v] # None =>
                           s1.tools[v].result # s1.tools[u].result
    BY DEF ToolPaired
  <2>1. s.tools[u] # None /\ s.tools[u].result \in Id
    BY <1>2, ToolFields
  <2>2. /\ <<s.tools[u].assistant, s.tools[u].index>> \in s.pairs
        /\ ~Free(s, s.tools[u].result)
        /\ \A v \in Id \ {u} : s.tools[v] # None => s.tools[v].result # s.tools[u].result
    BY <2>1 DEF Ledger, ToolSide, ToolPaired
  <2>3. s1.tools[u].status = "completed" => s1.entries[s.tools[u].result] # None
    <3>1. CASE u = t
      BY <1>1, <1>4, <3>1
    <3>2. CASE u # t
      <4>1. s1.tools[u] = s.tools[u]
        BY <1>1, <3>2
      <4> QED BY <2>1, <4>1 DEF Ledger, ToolSide, ToolPaired, EntriesPersist
    <3> QED BY <3>1, <3>2
  <2>4. ~Free(s1, s.tools[u].result)
    BY <2>1, <2>2 DEF Grows
  <2> QED BY <1>1, <1>2, <2>2, <2>3, <2>4
<1>7. IntentsMatch(s1)
  <2> SUFFICES ASSUME NEW u \in Id, s1.tools[u] # None
               PROVE  LET x == s1.tools[u]
                          entry == s1.entries[x.result]
                      IN  /\ x.status = "pending" => s1.use[x.result] = "toolResult"
                          /\ x.status = "completed" =>
                               entry # None /\ entry.type = "tool" /\ entry.op = x.op
                                 /\ entry.step = x.step /\ entry.call = x.call
                          /\ \A v \in Id \ {u} : s1.tools[v] # None =>
                               <<x.assistant, x.index>>
                                 # <<s1.tools[v].assistant, s1.tools[v].index>>
    BY DEF IntentsMatch
  <2>1. s.tools[u] # None /\ s.tools[u].result \in Id
    BY <1>2, ToolFields
  <2>2. \A v \in Id \ {u} : s1.tools[v] # None =>
          <<s1.tools[u].assistant, s1.tools[u].index>>
            # <<s1.tools[v].assistant, s1.tools[v].index>>
    BY <1>2, <2>1 DEF Ledger, ToolSide, IntentsMatch
  <2>3. CASE u = t
    <3>1. s1.tools[u] = done
      BY <1>1, <2>3
    <3>2. /\ done.status = "completed" /\ done.result = s.tools[t].result
          /\ e.type = "tool" /\ e.op = done.op /\ e.step = done.step /\ e.call = done.call
      BY DEF ResultAdded
    <3>3. done.status # "pending"
      BY <3>2
    <3> QED BY <1>1, <1>4, <2>2, <3>1, <3>2, <3>3
  <2>4. CASE u # t
    <3>1. s1.tools[u] = s.tools[u] /\ s.tools[u].result # s.tools[t].result
      BY <1>1, <1>3, <2>1, <2>4
    <3>2. s.tools[u].status = "pending" => s1.use[s.tools[u].result] = "toolResult"
      BY <1>4, <2>1, <3>1 DEF Ledger, ToolSide, IntentsMatch
    <3>3. s.tools[u].status = "completed" =>
            /\ s.entries[s.tools[u].result] # None
            /\ s.entries[s.tools[u].result].type = "tool"
            /\ s.entries[s.tools[u].result].op = s.tools[u].op
            /\ s.entries[s.tools[u].result].step = s.tools[u].step
            /\ s.entries[s.tools[u].result].call = s.tools[u].call
      BY <2>1 DEF Ledger, ToolSide, IntentsMatch
    <3>4. s.tools[u].status = "completed" =>
            s1.entries[s.tools[u].result] = s.entries[s.tools[u].result]
      BY <2>1, <3>3 DEF EntriesPersist
    <3> QED BY <2>2, <3>1, <3>2, <3>3, <3>4
  <2> QED BY <2>3, <2>4
<1> QED BY <1>5, <1>6, <1>7 DEF ToolSide

(* Facts that reserve no result keep every reservation.                     *)
LEMMA UsedReserved ==
  ASSUME NEW s, NEW s1, Sound(s), NEW i \in Id, s.use[i] = "free" \/ s.use[i] = "compactionResult",
         s1.use = [s.use EXCEPT ![i] = "used"]
  PROVE  Reserved(s, s1)
BY Fields DEF Sound, Reserved

(* The start of an operation takes free identities only.                   *)
LEMMA StartedReserved ==
  ASSUME NEW s, NEW s1, NEW op, NEW info, OperationAdded(s, s1, op, info)
  PROVE  Reserved(s, s1)
BY DEF OperationAdded, Reserves, Reserved, Free

(* So does a step attempt, but for a step it repeats.                      *)
LEMMA SteppedReserved ==
  ASSUME NEW s, NEW s1, AttemptOwned(s), NEW op, NEW step, NEW attempt, NEW new, NEW info,
         AttemptAdded(s, s1, op, step, attempt, new, info)
  PROVE  Reserved(s, s1)
<1>1. s.use[step] = "free" \/ s.use[step] = "identity"
  <2>1. CASE \E p \in Id : AttemptsOfStep(s, step) = {p}
    BY <2>1 DEF AttemptOwned, AttemptsOfStep
  <2>2. CASE Free(s, step)
    BY <2>2 DEF Free
  <2> QED BY <2>1, <2>2 DEF AttemptAdded
<1> QED BY <1>1 DEF AttemptAdded, Reserved, Free

(* An operation once begun stays, with its kind.                            *)
LEMMA PersistOperations ==
  ASSUME NEW s, NEW s1, Sound(s), NEW op, NEW info \in OperationInfo,
         s1.operations = [s.operations EXCEPT ![op] = info],
         s.operations[op] # None => info.kind = s.operations[op].kind
  PROVE  OperationsPersist(s, s1)
BY Fields, NoneAssumption DEF Sound, OperationsPersist

(* Nor is one lost when none changes.                                      *)
LEMMA PersistSame ==
  ASSUME NEW s, NEW s1, s1.operations = s.operations
  PROVE  OperationsPersist(s, s1)
BY DEF OperationsPersist

-----------------------------------------------------------------------------
(* The inductive invariant *)

(* A message that answers no attempt and no started tool.                   *)
LEMMA MessageLedger ==
  ASSUME NEW s, NEW s1, Sound(s), Ledger(s), NEW i, NEW e, MessageAdded(s, s1, i, e)
  PROVE  Ledger(s1)
<1>1. AttemptSide(s) /\ AnswerSide(s) /\ ToolSide(s)
  BY DEF Ledger
<1>2. Grows(s, s1)
  BY MessageGrows
<1>3. Quiet(s, s1)
  BY DEF MessageAdded, SameOperations, Quiet, Idle
<1>4. EntriesGrow(s, s1) /\ Reserved(s, s1)
  <2>1. i \in Id /\ e.attempt = None /\ s.use[i] = "free"
    BY DEF MessageAdded, Free
  <2> QED BY <2>1, PlainEntries, UsedReserved DEF MessageAdded
<1>5. AttemptsPersist(s, s1) /\ OperationsPersist(s, s1)
  BY <1>3, PersistQuiet, PersistSame DEF Quiet
<1>6. Written(s1) /\ AnswerOwned(s1) /\ EntriesPersist(s, s1)
  BY <1>1, <1>4, <1>5, EntriesOwned DEF AnswerSide, EntriesPersist
<1>7. AttemptSide(s1)
  BY <1>1, <1>2, <1>3, QuietAttempts
<1>8. AnswerIsLast(s1)
  BY <1>1, <1>3, <1>6, QuietLast DEF AnswerSide, MessageAdded, EntriesPersist
<1>9. ToolSide(s1)
  BY <1>1, <1>2, <1>4, <1>5, <1>6, KeptTools DEF MessageAdded
<1> QED BY <1>6, <1>7, <1>8, <1>9 DEF Ledger, AnswerSide

(* The result of a started tool.                                            *)
LEMMA ResultLedger ==
  ASSUME NEW s, NEW s1, Sound(s), Ledger(s), NEW t, NEW e, NEW done, ResultAdded(s, s1, t, e, done)
  PROVE  Ledger(s1)
<1>1. AttemptSide(s) /\ AnswerSide(s) /\ ToolSide(s)
  BY DEF Ledger
<1>2. Grows(s, s1)
  BY <1>1, ResultGrows DEF AttemptSide
<1>3. Quiet(s, s1)
  BY DEF ResultAdded, SameOperations, Quiet, Idle
<1>4. EntriesGrow(s, s1)
  <2>1. s.tools[t].result \in Id /\ e.attempt = None /\ s.use[s.tools[t].result] # "used"
    BY ToolFields DEF ResultAdded
  <2> QED BY <2>1, PlainEntries DEF ResultAdded
<1>5. AttemptsPersist(s, s1) /\ OperationsPersist(s, s1)
  BY <1>3, PersistQuiet, PersistSame DEF Quiet
<1>6. Written(s1) /\ AnswerOwned(s1) /\ EntriesPersist(s, s1)
  BY <1>1, <1>4, <1>5, EntriesOwned DEF AnswerSide, EntriesPersist
<1>7. AttemptSide(s1)
  BY <1>1, <1>2, <1>3, QuietAttempts
<1>8. AnswerIsLast(s1)
  BY <1>1, <1>3, <1>6, QuietLast DEF AnswerSide, ResultAdded, EntriesPersist
<1>9. ToolSide(s1)
  BY <1>2, <1>6, ResultTools
<1> QED BY <1>6, <1>7, <1>8, <1>9 DEF Ledger, AnswerSide

(* What the three facts that close an attempt have in common.               *)
LEMMA ClosingLedger ==
  ASSUME NEW s, NEW s1, Sound(s), Ledger(s), NEW a, NEW info, NEW status \in {"settled", "failed"},
         AttemptEnded(s, s1, a, info, status), Grows(s, s1), EntriesGrow(s, s1), Reserved(s, s1), AnswerIsLast(s1)
  PROVE  Ledger(s1)
<1>1. AttemptSide(s) /\ AnswerSide(s) /\ ToolSide(s)
  BY DEF Ledger
<1>2. AttemptsPersist(s, s1)
  BY PersistClosing
<1>3. OperationsPersist(s, s1) /\ s1.tools = s.tools /\ s.pairs \subseteq s1.pairs
  BY PersistSame DEF AttemptEnded
<1>4. Written(s1) /\ AnswerOwned(s1) /\ EntriesPersist(s, s1)
  BY <1>1, <1>2, EntriesOwned DEF AnswerSide, EntriesPersist
<1>5. AttemptSide(s1)
  BY <1>1, ClosingAttempts
<1>6. ToolSide(s1)
  BY <1>1, <1>2, <1>3, <1>4, KeptTools
<1> QED BY <1>4, <1>5, <1>6 DEF Ledger, AnswerSide

(* The answer to an attempt.                                               *)
LEMMA AnswerLedger ==
  ASSUME NEW s, NEW s1, Sound(s), Ledger(s), NEW i, NEW a, NEW e, NEW info, AnswerAdded(s, s1, i, a, e, info)
  PROVE  Ledger(s1)
<1>1. /\ AttemptEnded(s, s1, a, info, "settled") /\ i \in Id /\ s.use[i] = "free"
      /\ s1.use = [s.use EXCEPT ![i] = "used"] /\ e.attempt = a /\ e.op = info.op
      /\ s1.entries = [s.entries EXCEPT ![i] = e]
  BY DEF AnswerAdded, Free
<1>2. Grows(s, s1)
  BY <1>1, ClosingGrows DEF Ledger, AttemptSide
<1>3. EntriesGrow(s, s1)
  BY <1>1, AnsweringEntries
<1>4. Reserved(s, s1)
  BY <1>1, UsedReserved
<1>5. AnswerIsLast(s1)
  BY AnswerLast DEF Ledger, AnswerSide
<1> QED BY <1>1, <1>2, <1>3, <1>4, <1>5, ClosingLedger

(* The summary of a compaction.                                            *)
LEMMA SummaryLedger ==
  ASSUME NEW s, NEW s1, Sound(s), Ledger(s), NEW i, NEW a, NEW e, NEW info, SummaryAdded(s, s1, i, a, e, info)
  PROVE  Ledger(s1)
<1>1. /\ AttemptEnded(s, s1, a, info, "settled") /\ i \in Id /\ s.use[i] = "compactionResult"
      /\ s1.use = [s.use EXCEPT ![i] = "used"] /\ e.attempt = a /\ e.op = info.op
      /\ s1.entries = [s.entries EXCEPT ![i] = e]
  BY DEF SummaryAdded
<1>2. Grows(s, s1)
  BY <1>1, ClosingGrows DEF Ledger, AttemptSide
<1>3. EntriesGrow(s, s1)
  BY <1>1, AnsweringEntries
<1>4. Reserved(s, s1)
  BY <1>1, UsedReserved
<1>5. AnswerIsLast(s1)
  BY SummaryLast DEF Ledger, AnswerSide
<1> QED BY <1>1, <1>2, <1>3, <1>4, <1>5, ClosingLedger

(* The failure of an attempt.                                              *)
LEMMA FailureLedger ==
  ASSUME NEW s, NEW s1, Sound(s), Ledger(s), NEW a, NEW info, FailureAdded(s, s1, a, info)
  PROVE  Ledger(s1)
<1>1. /\ AttemptEnded(s, s1, a, info, "failed") /\ s1.use = s.use /\ s1.entries = s.entries
  BY DEF FailureAdded
<1>2. Grows(s, s1)
  BY <1>1, ClosingGrows DEF Ledger, AttemptSide
<1>3. EntriesGrow(s, s1) /\ Reserved(s, s1)
  BY <1>1, QuietEntries DEF Reserved
<1>4. AnswerIsLast(s1)
  BY FailureLast DEF Ledger, AnswerSide
<1> QED BY <1>1, <1>2, <1>3, <1>4, ClosingLedger

(* The start of a run or of a compaction.                                  *)
LEMMA StartedLedger ==
  ASSUME NEW s, NEW s1, Sound(s), Ledger(s), NEW op, NEW info, OperationAdded(s, s1, op, info)
  PROVE  Ledger(s1)
<1>1. AttemptSide(s) /\ AnswerSide(s) /\ ToolSide(s)
  BY DEF Ledger
<1>2. Grows(s, s1) /\ Reserved(s, s1)
  BY StartedGrows, StartedReserved
<1>3. AttemptsPersist(s, s1) /\ OperationsPersist(s, s1)
  <2>1. s.operations[op] = None
    BY <1>1 DEF AttemptSide, Unused, OperationAdded
  <2>2. info \in OperationInfo /\ s1.operations = [s.operations EXCEPT ![op] = info]
    BY DEF OperationAdded
  <2>3. OperationsPersist(s, s1)
    BY <2>1, <2>2, PersistOperations
  <2> QED BY <2>3, PersistQuiet DEF OperationAdded
<1>4. EntriesGrow(s, s1)
  <2>1. \A i \in Id : s.use[i] = "used" => s1.use[i] = "used"
    BY DEF OperationAdded, Reserves, Free
  <2> QED BY <2>1, QuietEntries DEF OperationAdded, SameRest
<1>5. Written(s1) /\ AnswerOwned(s1) /\ EntriesPersist(s, s1)
  BY <1>1, <1>3, <1>4, EntriesOwned DEF AnswerSide, EntriesPersist
<1>6. AttemptSide(s1) /\ AnswerIsLast(s1)
  BY <1>1, <1>2, StartedAttempts, StartedLast
<1>7. ToolSide(s1)
  BY <1>1, <1>2, <1>3, <1>5, KeptTools DEF OperationAdded, SameRest
<1> QED BY <1>5, <1>6, <1>7 DEF Ledger, AnswerSide

(* A step attempt.                                                         *)
LEMMA SteppedLedger ==
  ASSUME NEW s, NEW s1, Sound(s), Ledger(s), NEW op, NEW step, NEW attempt, NEW new, NEW info,
         AttemptAdded(s, s1, op, step, attempt, new, info)
  PROVE  Ledger(s1)
<1>1. AttemptSide(s) /\ AnswerSide(s) /\ ToolSide(s) /\ Unused(s) /\ AttemptOwned(s) /\ AnswerIsLast(s)
  BY DEF Ledger, AttemptSide, AnswerSide
<1>2. Grows(s, s1) /\ Reserved(s, s1)
  BY <1>1, SteppedGrows, SteppedReserved
<1>3. AttemptsPersist(s, s1)
  BY <1>1, PersistStepped
<1>4. OperationsPersist(s, s1)
  BY PersistOperations DEF AttemptAdded
<1>5. EntriesGrow(s, s1)
  <2>1. s.use[step] # "used"
    <3>1. CASE \E p \in Id : AttemptsOfStep(s, step) = {p}
      BY <1>1, <3>1 DEF AttemptOwned, AttemptsOfStep
    <3>2. CASE Free(s, step)
      BY <3>2 DEF Free
    <3> QED BY <3>1, <3>2 DEF AttemptAdded
  <2>2. \A i \in Id : s.use[i] = "used" => s1.use[i] = "used"
    BY <2>1 DEF AttemptAdded, Free
  <2> QED BY <2>2, QuietEntries DEF AttemptAdded, SameRest
<1>6. Written(s1) /\ AnswerOwned(s1) /\ EntriesPersist(s, s1)
  BY <1>1, <1>3, <1>5, EntriesOwned DEF AnswerSide, EntriesPersist
<1>7. AttemptSide(s1)
  BY <1>1, <1>2, SteppedAttempts
<1>8. AnswerIsLast(s1)
  BY <1>1, SteppedLast
<1>9. ToolSide(s1)
  BY <1>1, <1>2, <1>3, <1>4, <1>6, KeptTools DEF AttemptAdded, SameRest
<1> QED BY <1>6, <1>7, <1>8, <1>9 DEF Ledger, AnswerSide

(* The start of a tool.                                                    *)
LEMMA ToolStartLedger ==
  ASSUME NEW s, NEW s1, Sound(s), Ledger(s), NEW t, NEW tool, ToolAdded(s, s1, t, tool)
  PROVE  Ledger(s1)
<1>1. AttemptSide(s) /\ AnswerSide(s)
  BY DEF Ledger
<1>2. Grows(s, s1)
  BY ToolStartGrows
<1>3. Quiet(s, s1)
  BY DEF ToolAdded, SameOperations, Quiet, Idle
<1>4. EntriesGrow(s, s1)
  <2>1. \A i \in Id : s.use[i] = "used" => s1.use[i] = "used"
    BY Fields DEF Sound, ToolAdded, Free
  <2>2. s1.entries = s.entries
    BY DEF ToolAdded
  <2> QED BY <2>1, <2>2, QuietEntries, Zenon
<1>5. AttemptsPersist(s, s1)
  BY <1>3, PersistQuiet DEF Quiet
<1>6. Written(s1) /\ AnswerOwned(s1) /\ EntriesPersist(s, s1)
  BY <1>1, <1>4, <1>5, EntriesOwned DEF AnswerSide, EntriesPersist
<1>7. AttemptSide(s1)
  BY <1>1, <1>2, <1>3, QuietAttempts
<1>8. AnswerIsLast(s1)
  BY <1>1, <1>3, <1>6, QuietLast DEF AnswerSide, ToolAdded, EntriesPersist
<1>9. ToolSide(s1)
  BY <1>2, ToolStartTools
<1> QED BY <1>6, <1>7, <1>8, <1>9 DEF Ledger, AnswerSide

(* The end of an operation.                                                *)
LEMMA FinishedLedger ==
  ASSUME NEW s, NEW s1, Sound(s), Ledger(s), NEW op, NEW final, NEW how, NEW info,
         FinishAdded(s, s1, op, final, how, info)
  PROVE  Ledger(s1)
<1>1. AttemptSide(s) /\ AnswerSide(s) /\ ToolSide(s) /\ Unused(s)
  BY DEF Ledger, AttemptSide
<1>2. Grows(s, s1)
  BY <1>1, FinishedGrows
<1>3. AttemptsPersist(s, s1) /\ OperationsPersist(s, s1)
  <2>1. OperationsPersist(s, s1)
    BY PersistOperations DEF FinishAdded
  <2> QED BY <2>1, PersistQuiet DEF FinishAdded
<1>4. EntriesGrow(s, s1) /\ Reserved(s, s1)
  BY QuietEntries DEF FinishAdded, SameRest, Reserved
<1>5. Written(s1) /\ AnswerOwned(s1) /\ EntriesPersist(s, s1)
  BY <1>1, <1>3, <1>4, EntriesOwned DEF AnswerSide, EntriesPersist
<1>6. AttemptSide(s1) /\ AnswerIsLast(s1)
  BY <1>1, <1>2, FinishedAttempts, FinishedLast
<1>7. ToolSide(s1)
  BY <1>1, <1>2, <1>3, <1>4, <1>5, KeptTools DEF FinishAdded, SameRest
<1> QED BY <1>5, <1>6, <1>7 DEF Ledger, AnswerSide

(* An abort request and usage change nothing the invariant speaks of.       *)
LEMMA OtherLedger ==
  ASSUME NEW s, NEW s1, Sound(s), Ledger(s), Quiet(s, s1), s1.use = s.use, SameRest(s, s1)
  PROVE  Ledger(s1)
<1>1. AttemptSide(s) /\ AnswerSide(s) /\ ToolSide(s)
  BY DEF Ledger
<1>2. Grows(s, s1)
  BY OtherGrows DEF Quiet
<1>3. AttemptsPersist(s, s1) /\ OperationsPersist(s, s1)
  BY PersistQuiet, PersistSame DEF Quiet
<1>4. EntriesGrow(s, s1) /\ Reserved(s, s1)
  BY QuietEntries DEF SameRest, Reserved
<1>5. Written(s1) /\ AnswerOwned(s1) /\ EntriesPersist(s, s1)
  BY <1>1, <1>3, <1>4, EntriesOwned DEF AnswerSide, EntriesPersist
<1>6. AttemptSide(s1)
  BY <1>1, <1>2, QuietAttempts
<1>7. AnswerIsLast(s1)
  BY <1>1, <1>5, QuietLast DEF AnswerSide, SameRest, EntriesPersist
<1>8. ToolSide(s1)
  BY <1>1, <1>2, <1>3, <1>4, <1>5, KeptTools DEF SameRest
<1> QED BY <1>5, <1>6, <1>7, <1>8 DEF Ledger, AnswerSide

(* Every accepted fact has one of the effects above.                        *)
Progress(s, s1) ==
  \/ \E i, e : MessageAdded(s, s1, i, e)
  \/ \E t, e, done : ResultAdded(s, s1, t, e, done)
  \/ \E i, a, e, info : AnswerAdded(s, s1, i, a, e, info)
  \/ \E i, a, e, info : SummaryAdded(s, s1, i, a, e, info)
  \/ \E a, info : FailureAdded(s, s1, a, info)
  \/ \E op, info : OperationAdded(s, s1, op, info)
  \/ \E op, step, attempt, new, info : AttemptAdded(s, s1, op, step, attempt, new, info)
  \/ \E t, tool : ToolAdded(s, s1, t, tool)
  \/ AbortAdded(s, s1)
  \/ SameOperations(s, s1) /\ SameRest(s, s1) /\ s1.use = s.use

Effect(s, s1) ==
  \/ Progress(s, s1)
  \/ \E op, final, how, info : FinishAdded(s, s1, op, final, how, info)

(* Whatever fact is accepted, in any state the invariant allows.           *)
LEMMA ProgressEffect ==
  ASSUME NEW s, NEW s1, Sound(s), Ledger(s), AddsProgress(s, s1)
  PROVE  Progress(s, s1)
<1>1. OpenIsCurrent(s)
  BY DEF Ledger, AttemptSide
<1>2. CASE AddsUser(s, s1)
  BY <1>2, UserEffect DEF Progress
<1>3. CASE AddsAssistant(s, s1)
  BY <1>3, AnswerEffect DEF Progress
<1>4. CASE AddsSynthetic(s, s1)
  BY <1>4, SyntheticEffect DEF Progress
<1>5. CASE AddsResult(s, s1)
  BY <1>5, ResultEffect DEF Progress
<1>6. CASE AddsCompaction(s, s1)
  BY <1>1, <1>6, SummaryEffect DEF Progress
<1>7. CASE AddsRunStarted(s, s1)
  BY <1>7, RunStartedEffect DEF Progress
<1>8. CASE AddsCompactionStarted(s, s1)
  BY <1>8, CompactionStartedEffect DEF Progress
<1>9. CASE AddsStepAttempt(s, s1)
  BY <1>9, StepAttemptEffect DEF Progress
<1>10. CASE AddsStepFailed(s, s1)
  BY <1>10, FailureEffect DEF Progress
<1>11. CASE AddsToolStarted(s, s1)
  BY <1>11, ToolStartedEffect DEF Progress
<1>12. CASE AddsAbortRequested(s, s1)
  BY <1>12, AbortEffect DEF Progress
<1>13. CASE AddsUsage(s, s1)
  BY <1>13, UsageEffect DEF Progress
<1> QED BY <1>2, <1>3, <1>4, <1>5, <1>6, <1>7, <1>8, <1>9, <1>10, <1>11, <1>12,
           <1>13 DEF AddsProgress

(* The fact that finishes an operation finishes the one it names.           *)
LEMMA FinishEffect ==
  ASSUME NEW s, NEW s1, Sound(s), AddsOperationFinished(s, s1)
  PROVE  \E op, final, how, info : FinishAdded(s, s1, op, final, how, info)
<1>1. PICK op \in Id, final \in Id \cup {None}, how \in Outcome :
        LET f == [type |-> "operationFinished", op |-> op,
                  kind |-> s.operations[op].kind, outcome |-> how, final |-> final]
        IN  ReducesOperationFinished(s, s1, f)
  BY DEF AddsOperationFinished
<1>2. \E f : /\ ReducesOperationFinished(s, s1, f)
             /\ f.op = op /\ f.outcome = how /\ f.final = final
  BY <1>1
<1>3. \E info : FinishAdded(s, s1, op, final, how, info)
  BY <1>2, FinishedEffect
<1> QED BY <1>3

(* Every fact has one of the effects above.                                 *)
LEMMA AddsEffect ==
  ASSUME NEW s, NEW s1, Sound(s), Ledger(s), Adds(s, s1)
  PROVE  Effect(s, s1)
BY ProgressEffect, FinishEffect DEF Adds, Effect

(* The ledger of an empty file is kept.                                     *)
LEMMA InitialLedger == Ledger(InitialState)
<1> DEFINE s == InitialState
<1>1. /\ \A i \in Id : /\ s.operations[i] = None /\ s.attempts[i] = None
                       /\ s.tools[i] = None /\ s.entries[i] = None
      /\ Idle(s)
  BY DEF InitialState, Idle
<1> HIDE DEF s
<1>2. AttemptSide(s)
  BY <1>1 DEF AttemptSide, Unused, AttemptOwned, CopyLags, OneCompactionStep, StepNamed,
              OpenIsCurrent
<1>3. AnswerSide(s)
  BY <1>1 DEF AnswerSide, Written, AnswerOwned, AnswerIsLast
<1>4. ToolSide(s)
  BY <1>1 DEF ToolSide, ToolOwned, ToolPaired, IntentsMatch
<1>5. Ledger(s)
  BY <1>2, <1>3, <1>4 DEF Ledger
<1> QED BY <1>5 DEF s

(* Every effect preserves it.                                               *)
LEMMA EffectLedger ==
  ASSUME NEW s, NEW s1, Sound(s), Ledger(s), Effect(s, s1)
  PROVE  Ledger(s1)
<1>1. CASE \E op, final, how, info : FinishAdded(s, s1, op, final, how, info)
  BY <1>1, FinishedLedger
<1>2. CASE \E i, e : MessageAdded(s, s1, i, e)
  BY <1>2, MessageLedger
<1>3. CASE \E t, e, done : ResultAdded(s, s1, t, e, done)
  BY <1>3, ResultLedger
<1>4. CASE \E i, a, e, info : AnswerAdded(s, s1, i, a, e, info)
  BY <1>4, AnswerLedger
<1>5. CASE \E i, a, e, info : SummaryAdded(s, s1, i, a, e, info)
  BY <1>5, SummaryLedger
<1>6. CASE \E a, info : FailureAdded(s, s1, a, info)
  BY <1>6, FailureLedger
<1>7. CASE \E op, info : OperationAdded(s, s1, op, info)
  BY <1>7, StartedLedger
<1>8. CASE \E op, step, attempt, new, info : AttemptAdded(s, s1, op, step, attempt, new, info)
  BY <1>8, SteppedLedger
<1>9. CASE \E t, tool : ToolAdded(s, s1, t, tool)
  BY <1>9, ToolStartLedger
<1>10. CASE AbortAdded(s, s1)
  <2>1. Quiet(s, s1) /\ s1.use = s.use /\ SameRest(s, s1)
    BY <1>10 DEF AbortAdded, Quiet
  <2> QED BY <2>1, OtherLedger
<1>11. CASE SameOperations(s, s1) /\ SameRest(s, s1) /\ s1.use = s.use
  <2>1. Quiet(s, s1)
    BY <1>11 DEF SameOperations, Quiet, Idle
  <2> QED BY <1>11, <2>1, OtherLedger
<1> QED BY <1>1, <1>2, <1>3, <1>4, <1>5, <1>6, <1>7, <1>8, <1>9, <1>10, <1>11
        DEF Effect, Progress

(* No identity becomes free again.                                          *)
LEMMA EffectGrows ==
  ASSUME NEW s, NEW s1, Sound(s), Ledger(s), Effect(s, s1)
  PROVE  \A i \in Id : Free(s1, i) => Free(s, i)
<1>0. Unused(s) /\ AttemptOwned(s)
  BY DEF Ledger, AttemptSide
<1>1. CASE \E op, final, how, info : FinishAdded(s, s1, op, final, how, info)
  BY <1>1 DEF FinishAdded, Free
<1>2. CASE \E i, e : MessageAdded(s, s1, i, e)
  BY <1>2, MessageGrows DEF Grows
<1>3. CASE \E t, e, done : ResultAdded(s, s1, t, e, done)
  BY <1>0, <1>3, ResultGrows DEF Grows
<1>4. CASE \E a, info, status :
             /\ AttemptEnded(s, s1, a, info, status)
             /\ s1.use = s.use \/ \E i : /\ s.use[i] = "free" \/ s.use[i] = "compactionResult"
                                        /\ s1.use = [s.use EXCEPT ![i] = "used"]
  BY <1>0, <1>4, ClosingGrows DEF Grows
<1>5. CASE \E op, info : OperationAdded(s, s1, op, info)
  BY <1>5, StartedGrows DEF Grows
<1>6. CASE \E op, step, attempt, new, info : AttemptAdded(s, s1, op, step, attempt, new, info)
  BY <1>0, <1>6, SteppedGrows DEF Grows
<1>7. CASE \E t, tool : ToolAdded(s, s1, t, tool)
  BY <1>7, ToolStartGrows DEF Grows
<1>8. CASE s1.use = s.use
  BY <1>8 DEF Free
<1> QED BY <1>1, <1>2, <1>3, <1>4, <1>5, <1>6, <1>7, <1>8
        DEF Effect, Progress, AnswerAdded, SummaryAdded, FailureAdded, AbortAdded, Free

(* What no fact may do *)

KeepsFinished(s, s1) ==
  \A a \in Id :
    s.attempts[a] # None /\ ~Unfinished(s, s.attempts[a].op)
      => s1.attempts[a] = s.attempts[a] /\ ~Unfinished(s1, s1.attempts[a].op)

(* No fact changes an attempt of an operation that has finished, nor begins *)
(* that operation again.                                                    *)
LEMMA FinishedKept ==
  ASSUME NEW s, NEW s1, Sound(s), Ledger(s), Effect(s, s1)
  PROVE  KeepsFinished(s, s1)
<1>1. \A a \in Id : s.attempts[a] # None =>
        s.attempts[a].op \in Id /\ s.operations[s.attempts[a].op] # None
  BY Fields DEF Sound, AttemptInfo, Ledger, AttemptSide, AttemptOwned
<1>2. CASE s1.attempts = s.attempts /\ s1.operations = s.operations
  BY <1>2 DEF KeepsFinished, Unfinished
<1>3. CASE \E a, info, status : AttemptEnded(s, s1, a, info, status)
  <2>1. PICK a, info, status : AttemptEnded(s, s1, a, info, status)
    BY <1>3
  <2>2. /\ \A b \in Id : b # a => s1.attempts[b] = s.attempts[b]
        /\ Unfinished(s, s.attempts[a].op) /\ s1.operations = s.operations
    BY <2>1, PersistClosing DEF AttemptEnded
  <2> QED BY <2>2 DEF KeepsFinished, Unfinished
<1>4. CASE \E op, info : OperationAdded(s, s1, op, info)
  <2>1. PICK op, info : OperationAdded(s, s1, op, info)
    BY <1>4
  <2>2. /\ s1.attempts = s.attempts /\ s.operations[op] = None
        /\ \A p \in Id : p # op => s1.operations[p] = s.operations[p]
    BY <2>1, Fields DEF Sound, OperationAdded, Ledger, AttemptSide, Unused
  <2> QED BY <1>1, <2>2 DEF KeepsFinished, Unfinished
<1>5. CASE \E op, step, attempt, new, info : AttemptAdded(s, s1, op, step, attempt, new, info)
  <2>1. PICK op, step, attempt, new, info : AttemptAdded(s, s1, op, step, attempt, new, info)
    BY <1>5
  <2>2. AttemptKept(s, s1, op, step, attempt, new, info)
    BY <2>1, SteppedKeeps DEF Ledger
  <2> SUFFICES ASSUME NEW a \in Id, s.attempts[a] # None, ~Unfinished(s, s.attempts[a].op)
               PROVE  s1.attempts[a] = s.attempts[a] /\ ~Unfinished(s1, s1.attempts[a].op)
    BY DEF KeepsFinished
  <2>3. s.attempts[a].op # op
    BY <2>2 DEF AttemptKept
  <2>4. a \notin AttemptsOfStep(s, step)
    <3>1. CASE Free(s, step)
      BY <3>1 DEF Ledger, AttemptSide, AttemptOwned, AttemptsOfStep, Free
    <3>2. CASE \E p \in Id : AttemptsOfStep(s, step) = {p} /\ s.attempts[p].op = op
      BY <2>3, <3>2
    <3> QED BY <2>1, <3>1, <3>2 DEF AttemptAdded
  <2>5. s1.attempts[a] = s.attempts[a]
    BY <2>2, <2>4 DEF AttemptKept
  <2>6. s1.operations[s.attempts[a].op] = s.operations[s.attempts[a].op]
    BY <1>1, <2>2, <2>3 DEF AttemptKept
  <2> QED BY <2>5, <2>6 DEF Unfinished
<1>6. CASE \E op, final, how, info : FinishAdded(s, s1, op, final, how, info)
  <2>1. PICK op, final, how, info : FinishAdded(s, s1, op, final, how, info)
    BY <1>6
  <2>2. /\ s1.attempts = s.attempts /\ info.finished
        /\ \A p \in Id : s1.operations[p] = IF p = op THEN info ELSE s.operations[p]
    BY <2>1, Fields DEF Sound, FinishAdded
  <2> QED BY <1>1, <2>2 DEF KeepsFinished, Unfinished
<1>7. CASE Effect(s, s1)
  <2>1. CASE \/ \E i, e : MessageAdded(s, s1, i, e)
             \/ \E t, e, done : ResultAdded(s, s1, t, e, done)
             \/ \E t, tool : ToolAdded(s, s1, t, tool)
             \/ AbortAdded(s, s1)
             \/ SameOperations(s, s1)
    <3>1. s1.attempts = s.attempts /\ s1.operations = s.operations
      BY <2>1 DEF MessageAdded, ResultAdded, ToolAdded, AbortAdded, SameOperations
    <3> QED BY <1>2, <3>1
  <2>2. CASE \/ \E i, a, e, info : AnswerAdded(s, s1, i, a, e, info)
             \/ \E i, a, e, info : SummaryAdded(s, s1, i, a, e, info)
             \/ \E a, info : FailureAdded(s, s1, a, info)
    <3>1. \E a, info, status : AttemptEnded(s, s1, a, info, status)
      BY <2>2 DEF AnswerAdded, SummaryAdded, FailureAdded
    <3> QED BY <1>3, <3>1
  <2> QED BY <1>4, <1>5, <1>6, <1>7, <2>1, <2>2 DEF Effect, Progress
<1> QED BY <1>6, <1>7 DEF Effect, Progress

(* What completes a run is the last answer of its latest step, after which  *)
(* no call is open.                                                         *)
LEMMA CompletesAnswered ==
  ASSUME NEW s, NEW s1, Sound(s), Ledger(s), NEW op, NEW final, NEW how, NEW info,
         FinishAdded(s, s1, op, final, how, info),
         how = "completed", s.operations[op].kind = "run"
  PROVE  s1.unanswered = {}
<1> DEFINE e == s.entries[final]
           a == e.attempt
<1>1. /\ final \in Id /\ e # None /\ e.op = op /\ a # None /\ e.stop = "stop"
      /\ s.attempts[a].step = s.operations[op].latest /\ s.attempts[a].settled = final
      /\ Unfinished(s, op)
  BY DEF FinishAdded, Completes
<1>2. a \in Id
  BY <1>1, Fields DEF Sound, Entry
<1>3. s.attempts[a] # None /\ s.attempts[a].op = op
  BY <1>1 DEF Ledger, AnswerSide, AnswerOwned
<1>4. s.attempts[a].kind = "run"
  BY <1>2, <1>3 DEF Ledger, AttemptSide, AttemptOwned
<1>5. s.attempts[a].settled # None
  BY <1>1, NoneAssumption
<1>6. s.unanswered = {}
  BY <1>1, <1>2, <1>3, <1>4, <1>5 DEF Ledger, AnswerSide, AnswerIsLast
<1> QED BY <1>6 DEF FinishAdded, SameRest

=============================================================================
