--------------------------- MODULE ReducerLogProofs ---------------------------
(***************************************************************************)
(* Theorems about ReducerLog, for every choice of its constants.  Every    *)
(* extension of the log is one accepted fact, so what SessionReducerProofs *)
(* to SessionLineProofs say of a fact holds of the log; what is left is *)
(* the history of outcomes and the refinement of SessionProtocol.          *)
(***************************************************************************)
EXTENDS ReducerLog, SessionLineProofs

-----------------------------------------------------------------------------
(* Every step of the log is one accepted fact *)

(* Whatever identities a log is offered are identities.                     *)
LEMMA FreshIds == Fresh \subseteq Id /\ \A i : FreshAfter(i) \subseteq Id
<1>1. \A S \in SUBSET Id : Offered(S) \subseteq Id
  BY OfferedAssumption
<1>2. {i \in Id : s.use[i] = "free"} \in SUBSET Id
  OBVIOUS
<1>3. \A i : {j \in Id : s.use[j] = "free"} \ {i} \in SUBSET Id
  OBVIOUS
<1> QED BY <1>1, <1>2, <1>3 DEF Fresh, FreshAfter

(* What the log accepts, the reducer reduces.                               *)
LEMMA Accepted == \A f : Accept(f) => Reduces(s, s', f)
BY DEF Accept, Reduces

(* Each way to extend the log is one of the facts of SessionReducerProofs.  *)
LEMMA NextAdds ==
  ASSUME Next, s \in State, Linked(s)
  PROVE  (AddsProgress(s, s') /\ outcome' = outcome) \/ AddOperationFinished
<1>1. AddUser => AddsUser(s, s')
  BY FreshIds, Accepted, Reduced DEF AddUser, AddsUser
<1>2. AddAssistant => AddsAssistant(s, s')
  BY FreshIds, Accepted, Reduced, CallListsAssumption DEF AddAssistant, AddsAssistant
<1>3. AddSynthetic => AddsSynthetic(s, s')
  BY FreshIds, Accepted, Reduced DEF AddSynthetic, AddsSynthetic
<1>4. AddResult => AddsResult(s, s')
  BY FreshIds, Accepted, Reduced DEF AddResult, AddsResult
<1>5. AddCompaction => AddsCompaction(s, s')
  BY FreshIds, Accepted, Reduced DEF AddCompaction, AddsCompaction
<1>6. AddRunStarted => AddsRunStarted(s, s')
  BY FreshIds, Accepted, Reduced DEF AddRunStarted, AddsRunStarted
<1>7. AddCompactionStarted => AddsCompactionStarted(s, s')
  BY FreshIds, Accepted, Reduced DEF AddCompactionStarted, AddsCompactionStarted
<1>8. AddStepAttempt => AddsStepAttempt(s, s')
  BY FreshIds, Accepted, Reduced DEF AddStepAttempt, AddsStepAttempt
<1>9. AddStepFailed => AddsStepFailed(s, s')
  BY FreshIds, Accepted, Reduced DEF AddStepFailed, AddsStepFailed
<1>10. AddToolStarted => AddsToolStarted(s, s')
  <2>1. \A e \in Id : s.entries[e] # None =>
          \A n \in DOMAIN s.entries[e].calls : s.entries[e].calls[n].args \in Arguments
    BY CallTypes DEF Call
  <2> SUFFICES ASSUME AddToolStarted PROVE AddsToolStarted(s, s')
    OBVIOUS
  <2>2. PICK i \in Fresh, e \in {j \in Id : s.entries[j] # None},
             replay \in {"safe", "never"}, key \in ReplayKey, env \in Environment :
        \E n \in DOMAIN s.entries[e].calls, result \in FreshAfter(i) :
          Accept([type |-> "toolStarted", id |-> i, op |-> s.entries[e].op,
                  step |-> s.entries[e].step, assistant |-> e, index |-> n,
                  call |-> s.entries[e].calls[n].id,
                  name |-> s.entries[e].calls[n].name,
                  args |-> s.entries[e].calls[n].args,
                  replay |-> replay, key |-> key, env |-> env,
                  result |-> result])
    BY DEF AddToolStarted
  <2>3. PICK n \in DOMAIN s.entries[e].calls, result \in FreshAfter(i) :
          Accept([type |-> "toolStarted", id |-> i, op |-> s.entries[e].op,
                  step |-> s.entries[e].step, assistant |-> e, index |-> n,
                  call |-> s.entries[e].calls[n].id,
                  name |-> s.entries[e].calls[n].name,
                  args |-> s.entries[e].calls[n].args,
                  replay |-> replay, key |-> key, env |-> env,
                  result |-> result])
    BY <2>2
  <2> DEFINE args == s.entries[e].calls[n].args
             f == [type |-> "toolStarted", id |-> i, op |-> s.entries[e].op,
                   step |-> s.entries[e].step, assistant |-> e, index |-> n,
                   call |-> s.entries[e].calls[n].id,
                   name |-> s.entries[e].calls[n].name,
                   args |-> args, replay |-> replay, key |-> key, env |-> env,
                   result |-> result]
  <2>4. f.type = "toolStarted" /\ Reduces(s, s', f)
    BY <2>3, Accepted, Zenon
  <2>5. ReducesToolStarted(s, s', f)
    <3> HIDE DEF f
    <3> QED BY <2>4, Reduced
  <2>6. i \in Id /\ result \in Id /\ args \in Arguments
    BY <2>1, FreshIds
  <2> HIDE DEF args
  <2> QED BY <2>5, <2>6, Zenon DEF AddsToolStarted
<1>11. AddAbortRequested => AddsAbortRequested(s, s')
  BY FreshIds, Accepted, Reduced DEF AddAbortRequested, AddsAbortRequested
<1>12. AddUsage => AddsUsage(s, s')
  BY FreshIds, Accepted, Reduced DEF AddUsage, AddsUsage
<1> QED BY <1>1, <1>2, <1>3, <1>4, <1>5, <1>6, <1>7, <1>8, <1>9, <1>10, <1>11, <1>12
        DEF Next, AddsProgress

(* The history changes only when an operation finishes, and says how.       *)
LEMMA NextEffect ==
  ASSUME Sound(s), Ledger(s), Next
  PROVE  \/ Progress(s, s') /\ outcome' = outcome
         \/ \E op, final, how, info :
              /\ FinishAdded(s, s', op, final, how, info)
              /\ outcome' = [outcome EXCEPT ![op] = how]
<1>1. CASE ~AddOperationFinished
  BY <1>1, NextAdds, ProgressEffect DEF Sound
<1>2. CASE AddOperationFinished
  <2>1. PICK op \in Id, final \in Id \cup {None}, how \in Outcome :
          /\ Accept([type |-> "operationFinished", op |-> op,
                     kind |-> s.operations[op].kind, outcome |-> how,
                     final |-> final])
          /\ outcome' = [outcome EXCEPT ![op] = how]
    BY <1>2 DEF AddOperationFinished
  <2> DEFINE f == [type |-> "operationFinished", op |-> op,
                   kind |-> s.operations[op].kind, outcome |-> how,
                   final |-> final]
  <2>2. f.type = "operationFinished" /\ f.op = op /\ f.outcome = how /\ f.final = final
    OBVIOUS
  <2>3. Reduces(s, s', f)
    BY <2>1, Accepted
  <2> HIDE DEF f
  <2>4. ReducesOperationFinished(s, s', f)
    BY <2>2, <2>3, Reduced
  <2>5. \E info : FinishAdded(s, s', op, final, how, info)
    BY <2>2, <2>4, FinishedEffect
  <2> QED BY <2>1, <2>5
<1> QED BY <1>1, <1>2

(* What every fact preserves, every step of the log preserves.              *)
LEMMA NextSound ==
  ASSUME Sound(s), Ledger(s), Next
  PROVE  Sound(s') /\ Messages(s, s')
<1>1. CASE AddsProgress(s, s')
  BY <1>1, SoundNext, AddsMessages DEF Adds
<1>2. CASE AddOperationFinished
  <2>1. AddsOperationFinished(s, s')
    BY <1>2, Accepted, Reduced DEF AddOperationFinished, AddsOperationFinished
  <2> QED BY <2>1, SoundNext, AddsMessages DEF Adds
<1> QED BY <1>1, <1>2, NextAdds DEF Sound

-----------------------------------------------------------------------------
(* The invariant *)

(* An identity that was not used has no outcome.                            *)
History ==
  /\ outcome \in [Id -> Outcome \cup {None}]
  /\ \A i \in Id : Free(s, i) => outcome[i] = None

Inv == Sound(s) /\ Ledger(s) /\ TranscriptSide(s) /\ History

(* The empty log satisfies it.                                              *)
LEMMA InvInit == Init => Inv
<1> SUFFICES ASSUME Init PROVE Inv
  OBVIOUS
<1>1. s = InitialState /\ outcome = [i \in Id |-> None]
  BY DEF Init
<1>2. Sound(s) /\ Ledger(s) /\ TranscriptSide(s)
  BY <1>1, InitialSound, InitialLedger, InitialTranscript
<1> QED BY <1>1, <1>2 DEF Inv, History

(* Every accepted fact preserves it.                                        *)
LEMMA InvNext == Inv /\ [Next]_vars => Inv'
<1>1. ASSUME Inv, Next PROVE Inv'
  <2>1. Sound(s) /\ Ledger(s) /\ TranscriptSide(s) /\ History
    BY <1>1 DEF Inv
  <2>2. Effect(s, s')
    BY <1>1, <2>1, NextEffect DEF Effect
  <2>3. Sound(s') /\ Ledger(s') /\ TranscriptSide(s')
    BY <1>1, <2>1, <2>2, NextSound, EffectLedger, MessagesTranscript DEF Sound
  <2>4. \A i \in Id : Free(s', i) => Free(s, i)
    BY <2>1, <2>2, EffectGrows
  <2>5. CASE outcome' = outcome
    BY <2>1, <2>3, <2>4, <2>5 DEF Inv, History
  <2>6. CASE \E op, final, how, info :
               /\ FinishAdded(s, s', op, final, how, info)
               /\ outcome' = [outcome EXCEPT ![op] = how]
    <3>1. PICK op, final, how, info :
               /\ FinishAdded(s, s', op, final, how, info)
               /\ outcome' = [outcome EXCEPT ![op] = how]
      BY <2>6
    <3>2. op \in Id /\ how \in Outcome /\ ~Free(s, op)
      <4>1. op \in Id /\ how \in Outcome /\ s.operations[op] # None
        BY <3>1 DEF FinishAdded, Unfinished
      <4> QED BY <2>1, <4>1 DEF Ledger, AttemptSide, Unused
    <3>3. History'
      BY <2>1, <2>4, <3>1, <3>2 DEF History
    <3> QED BY <2>3, <3>3 DEF Inv
  <2> QED BY <1>1, <2>1, <2>5, <2>6, NextEffect
<1>2. ASSUME Inv, UNCHANGED vars PROVE Inv'
  BY <1>2 DEF vars, Inv, History
<1> QED BY <1>1, <1>2

(* The reduced state of every accepted log is sound and its ledger kept.    *)
THEOREM Invariance == Spec => []Inv
<1> QED BY InvInit, InvNext, PTL DEF Spec

(* The state of every accepted log is well typed: no handler stores a value *)
(* of the wrong kind, whatever facts a session file holds.                  *)
THEOREM TypeCorrect == Spec => []TypeOK
<1>1. Inv => TypeOK
  BY DEF Inv, Sound, History, TypeOK
<1> QED BY <1>1, Invariance, PTL

(* At most one operation is unfinished and it is the current one, so the    *)
(* two guards the handlers use for it (the map of operations and the public *)
(* register) can never disagree.                                            *)
THEOREM OneUnfinishedAlways == Spec => []OneUnfinished
<1>1. Inv => OneUnfinished
  BY DEF Inv, Sound, OneCurrent, OneUnfinished
<1> QED BY <1>1, Invariance, PTL

(* No handler ever follows a name to nothing: the kind, the attempt and the *)
(* operation that the current operation, a compaction and an answer with    *)
(* calls refer to are there and agree.                                      *)
THEOREM ReferencesAlways == Spec => []References
<1>1. Inv => References
  BY DEF Inv, Sound, Linked, References
<1> QED BY <1>1, Invariance, PTL

(* In every accepted log an attempt of the unfinished operation that is     *)
(* still open is the one its current step names, and the step says so: no   *)
(* answer can settle a superseded attempt.                                  *)
THEOREM OpenAttemptIsCurrentAlways == Spec => []OpenAttemptIsCurrent
<1>1. Inv => OpenAttemptIsCurrent
  BY DEF Inv, Ledger, AttemptSide, OpenIsCurrent, OpenAttemptIsCurrent
<1> QED BY <1>1, Invariance, PTL

(* In every accepted log a started tool waits for exactly its provisioned   *)
(* result, and no call is started twice.                                    *)
THEOREM IntentMatchesResultAlways == Spec => []IntentMatchesResult
<1>1. Inv => IntentMatchesResult
  BY DEF Inv, Ledger, ToolSide, IntentsMatch, IntentMatchesResult
<1> QED BY <1>1, Invariance, PTL

-----------------------------------------------------------------------------
(* What no fact may do *)

(* In every accepted log no fact settles, fails or reopens an attempt of a  *)
(* finished operation.                                                      *)
THEOREM FinishedIsFinalAlways == Spec => FinishedIsFinal
<1>1. Inv /\ [Next]_vars =>
        [\A a \in Id :
           s.attempts[a] # None /\ ~Unfinished(s, s.attempts[a].op)
             => s'.attempts[a] = s.attempts[a]
                /\ ~Unfinished(s', s'.attempts[a].op)]_vars
  <2> SUFFICES ASSUME Inv, Next PROVE KeepsFinished(s, s')
    BY DEF KeepsFinished
  <2>1. Sound(s) /\ Ledger(s)
    BY DEF Inv
  <2> QED BY <2>1, NextEffect, FinishedKept DEF Effect
<1> QED BY <1>1, Invariance, PTL DEF Spec, FinishedIsFinal

(* In every accepted log a run completes only when every tool call in the   *)
(* transcript has its answer.                                               *)
THEOREM CompletedRunAnsweredAlways == Spec => CompletedRunAnswered
<1>1. Inv /\ [Next]_vars =>
        [\A op \in Id : Finishing(op, "completed") /\ s'.operations[op].kind = "run"
           => s'.unanswered = {}]_vars
  <2> SUFFICES ASSUME Inv, Next, NEW op \in Id, Finishing(op, "completed"),
                      s'.operations[op].kind = "run"
               PROVE  s'.unanswered = {}
    OBVIOUS
  <2>0. Sound(s) /\ Ledger(s) /\ History
    BY DEF Inv
  <2>1. outcome' # outcome
    BY OutcomeAssumption DEF Finishing, Outcome
  <2>2. PICK p, final, how, info :
               /\ FinishAdded(s, s', p, final, how, info)
               /\ outcome' = [outcome EXCEPT ![p] = how]
    BY <2>0, <2>1, NextEffect
  <2>3. p \in Id
    BY <2>2 DEF FinishAdded
  <2>4. p = op /\ how = "completed"
    <3>1. outcome \in [Id -> Outcome \cup {None}]
      BY <2>0 DEF History
    <3> QED BY <2>2, <2>3, <3>1, OutcomeAssumption DEF Finishing, Outcome
  <2>5. s'.operations[op] = info /\ info.kind = s.operations[op].kind
    BY <2>0, <2>2, <2>4, Fields DEF Sound, FinishAdded
  <2> QED BY <2>0, <2>2, <2>4, <2>5, CompletesAnswered
<1> QED BY <1>1, Invariance, PTL DEF Spec, CompletedRunAnswered

-----------------------------------------------------------------------------
(* The refinement: every effect is a step of the protocol, or none *)

ProtocolStep == [Protocol!Next]_(Protocol!vars)

(* The empty log is where the protocol begins.                              *)
LEMMA ProtocolInit == Init => Protocol!Init
BY DEF Init, InitialState, Protocol!Init, Idle, Unfinished

(* Messages and usage are not steps of the protocol.                        *)
LEMMA SilentStep ==
  ASSUME SameOperations(s, s'), s'.tools = s.tools, outcome' = outcome
  PROVE  ProtocolStep
<1>1. s'.operation = s.operation /\ s'.operations = s.operations
  BY DEF SameOperations
<1>2. Idle(s') = Idle(s) /\ Attempting(s') = Attempting(s)
  BY <1>1 DEF Idle, Attempting
<1>3. PendingTools(s') = PendingTools(s)
  BY <1>1 DEF PendingTools, ToolsOf
<1>4. \A i : Unfinished(s', i) = Unfinished(s, i)
  BY <1>1 DEF Unfinished
<1> QED BY <1>1, <1>2, <1>3, <1>4 DEF ProtocolStep, Protocol!vars

(* A result answers a tool of the current operation, or one that an         *)
(* operation left behind.                                                   *)
LEMMA ResultStep ==
  ASSUME Sound(s), NEW t, NEW e, NEW done, ResultAdded(s, s', t, e, done), outcome' = outcome
  PROVE  ProtocolStep
<1>1. /\ s'.operation = s.operation /\ s'.operations = s.operations /\ t \in Id
      /\ \A u \in Id : s'.tools[u] = IF u = t THEN done ELSE s.tools[u]
      /\ s.tools[t] # None /\ done # None /\ done.op = s.tools[t].op
      /\ done.status = "completed" /\ s.tools[t].status = "pending"
  BY Fields, NoneAssumption DEF Sound, ResultAdded, SameOperations
<1>2. Idle(s') = Idle(s) /\ Attempting(s') = Attempting(s)
  BY <1>1 DEF Idle, Attempting
<1>3. \A i : Unfinished(s', i) = Unfinished(s, i)
  BY <1>1 DEF Unfinished
<1>4. CASE ~Idle(s) /\ s.tools[t].op = s.operation.id
  <2>1. t \in PendingTools(s) /\ PendingTools(s') = PendingTools(s) \ {t}
    BY <1>1, <1>4 DEF PendingTools, ToolsOf
  <2>2. Protocol!AnswerTool(t)
    BY <1>1, <1>2, <1>3, <1>4, <2>1 DEF Protocol!AnswerTool
  <2> QED BY <1>1, <2>2 DEF ProtocolStep, Protocol!Next
<1>5. CASE ~(~Idle(s) /\ s.tools[t].op = s.operation.id)
  <2>1. ~Idle(s) => PendingTools(s') = PendingTools(s)
    BY <1>1, <1>5 DEF PendingTools, ToolsOf
  <2> QED BY <1>1, <1>2, <1>3, <2>1 DEF ProtocolStep, Protocol!vars
<1> QED BY <1>4, <1>5

(* An answer, a summary and a failure close the open attempt.               *)
LEMMA ClosingStep ==
  ASSUME Sound(s), Ledger(s), NEW a, NEW info, NEW status \in {"settled", "failed"},
         AttemptEnded(s, s', a, info, status), outcome' = outcome
  PROVE  ProtocolStep
<1>1. /\ s.operation.step = [attempt |-> a, status |-> "attempting"]
      /\ ~Idle(s') /\ s'.operation.id = s.operation.id
      /\ s'.operation.abort = s.operation.abort
      /\ s'.operation.step = [attempt |-> a, status |-> status]
      /\ s.operation.step # None
  BY ClosesCurrent DEF Ledger, AttemptSide
<1>2. ~Idle(s) /\ a \in Id /\ s'.operations = s.operations /\ s'.tools = s.tools
  BY DEF AttemptEnded
<1>3. /\ s.operation.step.attempt = a /\ s.operation.step.status = "attempting"
      /\ s'.operation.step.status = status
  BY <1>1
<1>4. Attempting(s) /\ ~Attempting(s')
  BY <1>1, <1>3 DEF Attempting
<1>5. PendingTools(s') = PendingTools(s)
  BY <1>1, <1>2 DEF PendingTools, ToolsOf
<1>6. \A i : Unfinished(s', i) = Unfinished(s, i)
  BY <1>2 DEF Unfinished
<1>7. Protocol!CloseAttempt
  BY <1>1, <1>2, <1>3, <1>4, <1>5, <1>6, NoneAssumption DEF Protocol!CloseAttempt
<1> QED BY <1>7 DEF ProtocolStep, Protocol!Next

(* A started operation begins.                                              *)
LEMMA StartedStep ==
  ASSUME Sound(s), Ledger(s), History, NEW op, NEW info, OperationAdded(s, s', op, info),
         outcome' = outcome
  PROVE  ProtocolStep
<1>1. /\ op \in Id /\ Idle(s) /\ s.operations[op] = None /\ outcome[op] = None
      /\ ~Idle(s') /\ s'.operation.id = op /\ s'.operation.step = None
      /\ s'.operation.abort = FALSE /\ s'.tools = s.tools /\ info # None /\ ~info.finished
      /\ \A p \in Id : s'.operations[p] = IF p = op THEN info ELSE s.operations[p]
  BY Fields, NoneAssumption DEF Sound, OperationAdded, SameRest, Ledger, AttemptSide,
                                Unused, Idle, History
<1>2. ~Attempting(s')
  BY <1>1 DEF Attempting
<1>3. PendingTools(s') = {}
  BY <1>1, ToolFields DEF PendingTools, ToolsOf, Ledger, ToolSide, ToolOwned
<1>4. /\ \A p \in Id : ~Unfinished(s, p)
      /\ \A p \in Id : Unfinished(s', p) <=> p = op
  BY <1>1 DEF Unfinished, Sound, OneCurrent
<1>5. Protocol!Begin(op)
  BY <1>1, <1>2, <1>3, <1>4 DEF Protocol!Begin
<1> QED BY <1>1, <1>5 DEF ProtocolStep, Protocol!Next

(* A step attempt is one of the protocol: when none is open and the step    *)
(* does not follow a settled one, no tool was started.                      *)
LEMMA SteppedStep ==
  ASSUME Sound(s), Ledger(s), NEW op, NEW step, NEW attempt, NEW new, NEW info,
         AttemptAdded(s, s', op, step, attempt, new, info), outcome' = outcome
  PROVE  ProtocolStep
<1>0. AttemptKept(s, s', op, step, attempt, new, info)
  BY SteppedKeeps DEF Ledger
<1>1. /\ op \in Id /\ attempt \in Id /\ s.attempts[attempt] = None
      /\ ~Idle(s) /\ s.operation.id = op /\ Unfinished(s, op)
      /\ s'.operation.step = [attempt |-> attempt, status |-> "attempting"]
      /\ info # None
      /\ \A q \in Id : s'.operations[q] = IF q = op THEN info ELSE s.operations[q]
  BY <1>0 DEF AttemptKept
<1>2. /\ ~Idle(s') /\ s'.operation.id = op /\ s'.operation.abort = s.operation.abort
      /\ s'.tools = s.tools /\ ~info.finished
  BY DEF AttemptAdded, SameRest
<1>3. PendingTools(s') = PendingTools(s)
  BY <1>1, <1>2 DEF PendingTools, ToolsOf
<1>4. \A p \in Id : Unfinished(s', p) <=> Unfinished(s, p)
  BY <1>1, <1>2 DEF Unfinished
<1>5. Attempting(s') /\ s'.operation.step.attempt = attempt
  <2>1. [attempt |-> attempt, status |-> "attempting"] \in StepState
    BY <1>1 DEF StepState
  <2>2. s'.operation.step # None
    BY <1>1, <2>1, NoneAssumption
  <2>3. s'.operation.step.attempt = attempt /\ s'.operation.step.status = "attempting"
    BY <1>1
  <2> QED BY <2>2, <2>3 DEF Attempting
<1>6. Attempting(s) => s.operation.step.attempt \in Id /\ s.operation.step.attempt # attempt
  <2> SUFFICES ASSUME Attempting(s)
               PROVE  s.operation.step.attempt \in Id /\ s.operation.step.attempt # attempt
    OBVIOUS
  <2>1. s.operation.step # None /\ s.operation \in OperationState
    BY <1>1, CurrentType DEF Attempting, Sound
  <2>2. s.operation.step.attempt \in Id
    BY <2>1 DEF OperationState, StepState
  <2>3. s.attempts[s.operation.step.attempt] # None
    BY <1>1, <2>1 DEF Sound, Linked
  <2> QED BY <1>1, <2>2, <2>3
<1>7. ~Attempting(s) => PendingTools(s) = {}
  <2> SUFFICES ASSUME ~Attempting(s) PROVE PendingTools(s) = {}
    OBVIOUS
  <2>1. CASE s.operation.step # None /\ PendingTools(s) = {}
    BY <2>1
  <2>2. CASE s.operation.step = None
    <3>1. \A a \in Id : s.attempts[a] # None => s.attempts[a].op # op
      BY <1>1, <2>2 DEF Ledger, AttemptSide, StepNamed
    <3> QED BY <1>1, <3>1 DEF PendingTools, ToolsOf, Ledger, ToolSide, ToolOwned
  <2>3. CASE \E p \in Id : /\ AttemptsOfStep(s, step) = {p} /\ ~s.attempts[p].copyClosed
                           /\ s.attempts[p].op = op
    <3>1. PICK p \in Id : /\ AttemptsOfStep(s, step) = {p} /\ ~s.attempts[p].copyClosed
                          /\ s.attempts[p].op = op
      BY <2>3
    <3>2. step \in Id
      BY DEF AttemptAdded
    <3>3. /\ s.attempts[p] # None
          /\ s.attempts[p].closed => s.attempts[p].kind = "compaction"
      BY <1>1, <3>1, <3>2, RetriedStep DEF Ledger
    <3>4. s.attempts[p].closed
      <4> SUFFICES ASSUME ~s.attempts[p].closed PROVE FALSE
        OBVIOUS
      <4>1. s.operation.step = [attempt |-> p, status |-> "attempting"]
        BY <1>1, <3>1, <3>3 DEF Ledger, AttemptSide, OpenIsCurrent
      <4>2. [attempt |-> p, status |-> "attempting"] \in StepState
        BY DEF StepState
      <4>3. s.operation.step # None
        BY <4>1, <4>2, NoneAssumption
      <4>4. s.operation.step.status = "attempting"
        BY <4>1
      <4> QED BY <4>3, <4>4 DEF Attempting
    <3>5. s.operations[op].kind = "compaction"
      BY <3>1, <3>3, <3>4 DEF Ledger, AttemptSide, AttemptOwned
    <3> QED BY <1>1, <3>5 DEF PendingTools, ToolsOf, Ledger, ToolSide, ToolOwned
  <2> QED BY <2>1, <2>2, <2>3 DEF AttemptAdded
<1>8. Protocol!Attempt(attempt)
  BY <1>1, <1>2, <1>3, <1>4, <1>5, <1>6, <1>7, NoneAssumption DEF Protocol!Attempt
<1> QED BY <1>1, <1>8 DEF ProtocolStep, Protocol!Next

(* A started tool is pending from then on.                                 *)
LEMMA ToolStartStep ==
  ASSUME Sound(s), Ledger(s), NEW t, NEW tool, ToolAdded(s, s', t, tool), outcome' = outcome
  PROVE  ProtocolStep
<1>1. /\ s'.operation = s.operation /\ s'.operations = s.operations /\ t \in Id
      /\ \A u \in Id : s'.tools[u] = IF u = t THEN tool ELSE s.tools[u]
      /\ s.tools[t] = None /\ tool # None /\ tool.status = "pending"
      /\ ~Idle(s) /\ tool.op = s.operation.id
  BY Fields, NoneAssumption DEF Sound, ToolAdded, SameOperations, CurrentIs, Ledger,
                                AttemptSide, Unused
<1>2. Idle(s') = Idle(s) /\ Attempting(s') = Attempting(s)
  BY <1>1 DEF Idle, Attempting
<1>3. \A i : Unfinished(s', i) = Unfinished(s, i)
  BY <1>1 DEF Unfinished
<1>4. t \notin PendingTools(s) /\ PendingTools(s') = PendingTools(s) \cup {t}
  BY <1>1 DEF PendingTools, ToolsOf
<1>5. s.operation.id # None
  BY <1>1, CurrentType, NoneAssumption DEF Sound, OperationState
<1>6. Protocol!StartTool(t)
  BY <1>1, <1>2, <1>3, <1>4, <1>5 DEF Protocol!StartTool
<1> QED BY <1>1, <1>6 DEF ProtocolStep, Protocol!Next

(* An abort request is one of the protocol.                                *)
LEMMA AbortStep ==
  ASSUME Sound(s), AbortAdded(s, s'), outcome' = outcome
  PROVE  ProtocolStep
<1>1. /\ ~Idle(s) /\ ~Idle(s') /\ ~s.operation.abort /\ s'.operation.abort = TRUE
      /\ s'.operation.id = s.operation.id /\ s'.operation.step = s.operation.step
      /\ s'.operations = s.operations /\ s'.tools = s.tools
  BY DEF AbortAdded, SameRest
<1>2. Attempting(s') = Attempting(s)
  BY <1>1 DEF Attempting
<1>3. PendingTools(s') = PendingTools(s)
  BY <1>1 DEF PendingTools, ToolsOf
<1>4. \A i : Unfinished(s', i) = Unfinished(s, i)
  BY <1>1 DEF Unfinished
<1>5. s.operation.id # None
  BY <1>1, CurrentType, NoneAssumption DEF Sound, OperationState
<1>6. Protocol!RequestAbort
  BY <1>1, <1>2, <1>3, <1>4, <1>5 DEF Protocol!RequestAbort
<1> QED BY <1>6 DEF ProtocolStep, Protocol!Next

(* An operation that completes or is aborted leaves no tool pending.        *)
LEMMA FinishedStep ==
  ASSUME Sound(s), Ledger(s), NEW op, NEW final, NEW how, NEW info,
         FinishAdded(s, s', op, final, how, info), History,
         outcome' = [outcome EXCEPT ![op] = how]
  PROVE  ProtocolStep
<1>1. /\ op \in Id /\ ~Idle(s) /\ s.operation.id = op /\ Idle(s') /\ info.finished
      /\ Unfinished(s, op) /\ how \in Protocol!Ending
      /\ \A p \in Id : s'.operations[p] = IF p = op THEN info ELSE s.operations[p]
      /\ outcome' = [outcome EXCEPT ![op] = how] /\ outcome \in [Id -> Outcome \cup {None}]
  BY Fields DEF Sound, FinishAdded, Protocol!Ending, Outcome, History
<1>2. /\ \A p \in Id : ~Unfinished(s', p)
      /\ \A p \in Id : Unfinished(s, p) <=> p = op
  BY <1>1 DEF Unfinished, Sound, OneCurrent
<1>3. how = "completed" => PendingTools(s) = {}
  <2> SUFFICES ASSUME how = "completed" PROVE PendingTools(s) = {}
    OBVIOUS
  <2>1. CASE s.operations[op].kind = "run"
    BY <2>1 DEF FinishAdded, Completes
  <2>2. CASE s.operations[op].kind # "run"
    BY <1>1, <2>2 DEF PendingTools, ToolsOf, Ledger, ToolSide, ToolOwned
  <2> QED BY <2>1, <2>2
<1>4. how = "aborted" => s.operation.abort /\ PendingTools(s) = {} /\ ~Attempting(s)
  BY DEF FinishAdded
<1>5. op # None
  BY <1>1, NoneAssumption
<1>6. Protocol!End(how)
  BY <1>1, <1>2, <1>3, <1>4, <1>5 DEF Protocol!End
<1> QED BY <1>1, <1>6 DEF ProtocolStep, Protocol!Next

(* Every accepted fact is a step of the protocol or none of its business.   *)
LEMMA ProtocolNext ==
  ASSUME Sound(s), Ledger(s), History, [Next]_vars
  PROVE  ProtocolStep
<1>1. CASE Next
  <2>1. CASE \E op, final, how, info :
               /\ FinishAdded(s, s', op, final, how, info)
               /\ outcome' = [outcome EXCEPT ![op] = how]
    BY <2>1, FinishedStep
  <2>2. CASE Progress(s, s') /\ outcome' = outcome
    <3>1. CASE \/ \E i, e : MessageAdded(s, s', i, e)
               \/ SameOperations(s, s') /\ SameRest(s, s')
      <4>1. SameOperations(s, s') /\ s'.tools = s.tools
        BY <3>1 DEF MessageAdded, SameRest
      <4> QED BY <2>2, <4>1, SilentStep
    <3>2. CASE \E t, e, done : ResultAdded(s, s', t, e, done)
      BY <2>2, <3>2, ResultStep
    <3>3. CASE \/ \E i, a, e, info : AnswerAdded(s, s', i, a, e, info)
               \/ \E i, a, e, info : SummaryAdded(s, s', i, a, e, info)
      <4>1. \E a, info : AttemptEnded(s, s', a, info, "settled")
        BY <3>3 DEF AnswerAdded, SummaryAdded
      <4> QED BY <2>2, <4>1, ClosingStep
    <3>4. CASE \E a, info : FailureAdded(s, s', a, info)
      BY <2>2, <3>4, ClosingStep DEF FailureAdded
    <3>5. CASE \E op, info : OperationAdded(s, s', op, info)
      BY <2>2, <3>5, StartedStep
    <3>6. CASE \E op, step, attempt, new, info : AttemptAdded(s, s', op, step, attempt, new, info)
      BY <2>2, <3>6, SteppedStep
    <3>7. CASE \E t, tool : ToolAdded(s, s', t, tool)
      BY <2>2, <3>7, ToolStartStep
    <3>8. CASE AbortAdded(s, s')
      BY <2>2, <3>8, AbortStep
    <3> QED BY <2>2, <3>1, <3>2, <3>3, <3>4, <3>5, <3>6, <3>7, <3>8 DEF Progress
  <2> QED BY <1>1, <2>1, <2>2, NextEffect
<1>2. CASE UNCHANGED vars
  <2>1. SameOperations(s, s') /\ s'.tools = s.tools /\ outcome' = outcome
    BY <1>2 DEF vars, SameOperations
  <2> QED BY <2>1, SilentStep
<1> QED BY <1>1, <1>2

(* The reducer implements the protocol: whoever wrote the file, a log it    *)
(* accepts has one operation at a time, one open attempt at a time, no new  *)
(* step over a pending tool, and no operation completed or aborted over     *)
(* one.                                                                     *)
THEOREM ProtocolImplemented == Spec => ImplementsProtocol
<1>1. Init => Protocol!Init
  BY ProtocolInit
<1>2. Inv /\ [Next]_vars => [Protocol!Next]_(Protocol!vars)
  BY ProtocolNext DEF ProtocolStep, Inv
<1> QED BY <1>1, <1>2, Invariance, PTL
       DEF Spec, ImplementsProtocol, Protocol!Spec

=============================================================================
