-------------------------- MODULE SessionLineProofs --------------------------
(***************************************************************************)
(* What a fact, and a line of facts, does to the messages of a session,    *)
(* for every choice of the constants of SessionReducer; and what a fact    *)
(* opens and closes, by its type.                                          *)
(***************************************************************************)
EXTENDS SessionReducerProofs, WellFoundedInduction

(* Induction over the natural numbers, for a set of them.                   *)
LEMMA SetInduction ==
  ASSUME NEW T \in SUBSET Nat, 0 \in T, \A n \in T : n + 1 \in T
  PROVE  Nat \subseteq T
<1> DEFINE R == {p \in Nat \X Nat : p[1] < p[2]}
<1>1. IsWellFoundedOn(R, Nat)
  BY NatLessThanWellFounded, Zenon DEF OpToRel
<1> SUFFICES ASSUME Nat \ T # {} PROVE FALSE
  OBVIOUS
<1>2. Nat \ T \subseteq Nat
  OBVIOUS
<1> HIDE DEF R
<1>3. PICK x \in Nat \ T : \A y \in Nat \ T : <<y, x>> \notin R
  BY <1>1, <1>2, WFMin, Zenon
<1> USE DEF R
<1>4. x # 0 /\ x - 1 \in Nat
  OBVIOUS
<1>5. <<x - 1, x>> \in R
  BY <1>4
<1>6. x - 1 \in T
  BY <1>3, <1>4, <1>5
<1> QED BY <1>6

-----------------------------------------------------------------------------
(* What a fact does to the messages *)

(* Nothing; identities that were used stay used.                            *)
Silent(s, s1) ==
  /\ s1.entries = s.entries /\ s1.order = s.order
  /\ s1.transcript = s.transcript /\ s1.context = s.context
  /\ s1.through = s.through /\ s1.unanswered = s.unanswered
  /\ \A i \in Id : s.use[i] = "used" => s1.use[i] = "used"

(* The parts of the state that a message changes are those of p.            *)
MessagesOf(s1, p) ==
  /\ s1.use = p.use /\ s1.entries = p.entries /\ s1.order = p.order
  /\ s1.transcript = p.transcript /\ s1.context = p.context
  /\ s1.through = p.through /\ s1.unanswered = p.unanswered

(* A message at the end, that the calls left open allow.                    *)
Pushed(s, s1, i, e) ==
  /\ i \in Id /\ e \in Entry /\ e.type # "compaction"
  /\ s.use[i] \in {"free", "toolResult"}
  /\ Legal(e, s.unanswered)
  /\ MessagesOf(s1, Push(s, i, e))

(* A summary: the context is what it retains.                               *)
Summarised(s, s1, i, e, through) ==
  /\ i \in Id /\ e \in Entry /\ e.type = "compaction" /\ e.calls = << >>
  /\ through \in Id
  /\ s.use[i] = "compactionResult"
  /\ ~Idle(s)
  /\ s1.use = [s.use EXCEPT ![i] = "used"]
  /\ s1.entries = [s.entries EXCEPT ![i] = e]
  /\ s1.order = Append(s.order, i) /\ s1.transcript = s.transcript
  /\ s1.context = <<i>> \o Retained(s, through)
  /\ s1.through = s.operation.input /\ s1.unanswered = s.unanswered

Messages(s, s1) ==
  \/ Silent(s, s1)
  \/ \E i, e : Pushed(s, s1, i, e)
  \/ \E i, e, through : Summarised(s, s1, i, e, through)

(* A user message is pushed.                                                *)
LEMMA UserMessages ==
  ASSUME NEW s, NEW s1, Sound(s), AddsUser(s, s1)
  PROVE  \E i, e : Pushed(s, s1, i, e)
<1> PICK i \in Id : ReducesUser(s, s1, [type |-> "user", id |-> i])
  BY DEF AddsUser
<1> DEFINE e == UserEntry([type |-> "user", id |-> i])
<1>1. e \in Entry /\ e.type = "user"
  BY DEF UserEntry, Entry
<1>2. Free(s, i) /\ Legal(e, s.unanswered) /\ s1 = Push(s, i, e)
  BY DEF ReducesUser, CanUser, DoUser
<1> HIDE DEF e
<1> QED BY <1>1, <1>2 DEF Pushed, MessagesOf, Free

(* A tool message is an entry.                                              *)
LEMMA ToolEntryType ==
  ASSUME NEW op \in Id, NEW step \in Id, NEW call \in CallId
  PROVE  ToolEntry(op, step, call) \in Entry /\ ToolEntry(op, step, call).type = "tool"
BY DEF ToolEntry, Entry

(* A synthetic result is pushed.                                            *)
LEMMA SyntheticMessages ==
  ASSUME NEW s, NEW s1, Sound(s), AddsSynthetic(s, s1)
  PROVE  \E i, e : Pushed(s, s1, i, e)
<1> PICK i \in Id, a \in {j \in Id : s.entries[j] # None} :
      \E n \in DOMAIN s.entries[a].calls :
      LET f == [type |-> "synthetic", id |-> i, step |-> s.entries[a].step,
                assistant |-> a, index |-> n,
                call |-> s.entries[a].calls[n].id,
                name |-> s.entries[a].calls[n].name]
      IN  CanSynthetic(s, f) /\ s1 = DoSynthetic(s, f)
  BY DEF AddsSynthetic, ReducesSynthetic
<1> PICK n \in DOMAIN s.entries[a].calls :
      LET f == [type |-> "synthetic", id |-> i, step |-> s.entries[a].step,
                assistant |-> a, index |-> n,
                call |-> s.entries[a].calls[n].id,
                name |-> s.entries[a].calls[n].name]
      IN  CanSynthetic(s, f) /\ s1 = DoSynthetic(s, f)
  OBVIOUS
<1> DEFINE e == ToolEntry(s.operation.id, s.entries[a].step, s.entries[a].calls[n].id)
<1>0. s \in State
  BY DEF Sound
<1>1. s.entries[a].step \in Id /\ s.entries[a].calls[n].id \in CallId
  BY CallTypes DEF Call, Sound
<1>2. s.operation.id \in Id
  BY CurrentType DEF Sound, OperationState, CanSynthetic
<1>3. e \in Entry /\ e.type = "tool" /\ i \in Id
  BY <1>1, <1>2, ToolEntryType, Zenon
<1>4. Free(s, i) /\ Legal(e, s.unanswered)
  BY DEF CanSynthetic
<1>5. s1 = [Push(s, i, e) EXCEPT !.pairs = @ \cup {<<a, n>>}]
  BY DEF DoSynthetic
<1> HIDE DEF e
<1>6. Push(s, i, e) \in State
  BY <1>0, <1>3, PushType
<1>7. MessagesOf(s1, Push(s, i, e))
  BY <1>5, <1>6, Zenon DEF State, MessagesOf
<1> QED BY <1>3, <1>4, <1>7 DEF Pushed, Free

(* The result of a started tool is pushed under the identity reserved for   *)
(* it.                                                                      *)
LEMMA ResultMessages ==
  ASSUME NEW s, NEW s1, Sound(s), AddsResult(s, s1)
  PROVE  \E i, e : Pushed(s, s1, i, e)
<1> PICK t \in Id :
      LET f == [type |-> "result", id |-> s.tools[t].result,
                step |-> s.tools[t].step, started |-> t,
                call |-> s.tools[t].call]
      IN  s.tools[t] # None /\ CanResult(s, f) /\ s1 = DoResult(s, f)
  BY DEF AddsResult, ReducesResult
<1> DEFINE e == ToolEntry(s.tools[t].op, s.tools[t].step, s.tools[t].call)
           i == s.tools[t].result
<1>0. s \in State
  BY DEF Sound
<1>1. s.tools[t] \in ToolCallState
  BY <1>0, Fields
<1>2. e \in Entry /\ e.type = "tool" /\ i \in Id
  BY <1>1 DEF ToolEntry, Entry, ToolCallState
<1>3. s1 = [Push(s, i, e) EXCEPT !.tools[t].status = "completed"]
  BY DEF DoResult
<1>4. s.use[i] = "toolResult" /\ Legal(e, s.unanswered)
  BY DEF CanResult
<1> HIDE DEF e, i
<1>5. Push(s, i, e) \in State
  BY <1>0, <1>2, PushType
<1>6. MessagesOf(s1, Push(s, i, e))
  BY <1>3, <1>5, Zenon DEF State, MessagesOf
<1> QED BY <1>2, <1>4, <1>6 DEF Pushed

(* An answer is pushed.                                                     *)
LEMMA AssistantMessages ==
  ASSUME NEW s, NEW s1, Sound(s), AddsAssistant(s, s1)
  PROVE  \E i, e : Pushed(s, s1, i, e)
<1> PICK i \in Id, a \in Id, stop \in Stop, calls \in Seq(Call), text \in BOOLEAN :
      LET f == [type |-> "assistant", id |-> i, step |-> s.attempts[a].step,
                attempt |-> a, stop |-> stop, calls |-> calls, text |-> text]
      IN  s.attempts[a] # None /\ CanAssistant(s, f) /\ s1 = DoAssistant(s, f)
  BY DEF AddsAssistant, ReducesAssistant
<1> DEFINE f == [type |-> "assistant", id |-> i, step |-> s.attempts[a].step,
                 attempt |-> a, stop |-> stop, calls |-> calls, text |-> text]
           e == AssistantEntry(s, f)
           info == [s.attempts[a] EXCEPT !.closed = TRUE, !.copyClosed = TRUE,
                                         !.settled = i]
           o == WithStatus(s.operation, a, "settled")
           p == Push(s, i, e)
<1>0. s \in State
  BY DEF Sound
<1>1. s.attempts[a] \in AttemptInfo
  BY <1>0, Fields
<1>2. e \in Entry /\ e.type = "assistant"
  BY <1>1 DEF AssistantEntry, Entry, AttemptInfo
<1>3. Free(s, i) /\ Legal(e, s.unanswered)
  BY DEF CanAssistant
<1>4. s1 = DoAssistant(s, f)
  OBVIOUS
<1>5. p \in State /\ p.attempts = s.attempts /\ p.operation = s.operation
  <2> HIDE DEF e
  <2>1. p \in State
    BY <1>0, <1>2, PushType
  <2> QED BY <1>0, <2>1, Zenon DEF Push, State
<1> HIDE DEF p, info, o
<1>6. s1 = [p EXCEPT !.attempts = [s.attempts EXCEPT ![a] = info], !.operation = o]
  BY <1>4, <1>5 DEF DoAssistant, p, info, o
<1>7. MessagesOf(s1, p)
  BY <1>5, <1>6, Zenon DEF State, MessagesOf
<1> HIDE DEF e
<1> QED BY <1>2, <1>3, <1>7 DEF Pushed, Free, p

(* A compaction entry retains the messages after those it summarises.       *)
LEMMA CompactionMessages ==
  ASSUME NEW s, NEW s1, Sound(s), AddsCompaction(s, s1)
  PROVE  \E i, e, through : Summarised(s, s1, i, e, through)
<1> PICK through \in Id :
      LET f == [type |-> "compaction",
                id |-> s.operations[s.operation.id].result,
                op |-> s.operation.id, through |-> through,
                retained |-> Retained(s, through)]
      IN  ~Idle(s) /\ CanCompaction(s, f) /\ s1 = DoCompaction(s, f)
  BY DEF AddsCompaction, ReducesCompaction
<1> DEFINE a == s.operation.step.attempt
           i == s.operations[s.operation.id].result
           e == [type |-> "compaction", op |-> s.operation.id,
                 step |-> s.attempts[a].step, attempt |-> a,
                 stop |-> "none", calls |-> << >>, text |-> TRUE, call |-> None]
<1>0. s \in State
  BY DEF Sound
<1>1. s.operation \in OperationState /\ s.operation.step # None
  BY CurrentType DEF Sound, CanCompaction
<1>2. s.operation.step \in StepState /\ a \in Id
  BY <1>1 DEF OperationState, StepState
<1>3. s.attempts[a] \in AttemptInfo
  BY <1>0, <1>1, <1>2, Fields DEF Sound, Linked, Idle
<1>4. s.operation.id \in Id
  BY <1>1 DEF OperationState
<1>5. i \in Id
  <2>1. Unfinished(s, s.operation.id) /\ s.operation.kind = "compaction"
    BY DEF CanCompaction, CurrentIs
  <2>2. /\ s.operations[s.operation.id] \in OperationInfo
        /\ s.operations[s.operation.id] # None
        /\ s.operations[s.operation.id].kind = "compaction"
    BY <1>0, <1>4, <2>1, Fields DEF Unfinished, Sound, Linked
  <2>3. i \in Id \cup {None}
    BY <2>2 DEF OperationInfo
  <2> QED BY <1>4, <2>2, <2>3 DEF Sound, Linked
<1>6. e \in Entry /\ e.type = "compaction" /\ e.calls = << >>
  BY <1>2, <1>3, <1>4 DEF Entry, AttemptInfo
<1>7. s.use[i] = "compactionResult"
  BY DEF CanCompaction
<1>8. /\ s1.use = [s.use EXCEPT ![i] = "used"]
      /\ s1.entries = [s.entries EXCEPT ![i] = e]
      /\ s1.order = Append(s.order, i)
  BY <1>0, ZenonT(60) DEF DoCompaction, State
<1>9. /\ s1.transcript = s.transcript /\ s1.unanswered = s.unanswered
      /\ s1.context = <<i>> \o Retained(s, through)
      /\ s1.through = s.operation.input
  BY <1>0, ZenonT(60) DEF DoCompaction, State
<1>10. ~Idle(s) /\ through \in Id
  OBVIOUS
<1> HIDE DEF e, i
<1>11. Summarised(s, s1, i, e, through)
  BY <1>5, <1>6, <1>7, <1>8, <1>9, <1>10 DEF Summarised
<1> QED BY <1>11

(* Every other fact leaves the messages alone.                              *)
LEMMA OtherMessages ==
  ASSUME NEW s, NEW s1, Sound(s), Ledger(s),
         \/ AddsRunStarted(s, s1) \/ AddsCompactionStarted(s, s1)
         \/ AddsStepAttempt(s, s1) \/ AddsStepFailed(s, s1)
         \/ AddsToolStarted(s, s1) \/ AddsAbortRequested(s, s1)
         \/ AddsOperationFinished(s, s1) \/ AddsUsage(s, s1)
  PROVE  Silent(s, s1)
<1> DEFINE Same(t) == /\ t.entries = s.entries /\ t.order = s.order
                      /\ t.transcript = s.transcript /\ t.context = s.context
                      /\ t.through = s.through /\ t.unanswered = s.unanswered
<1>0. s \in State /\ s.use \in [Id -> Use]
  BY Fields DEF Sound
<1>1. CASE AddsRunStarted(s, s1)
  <2>1. PICK f : CanRunStarted(s, f) /\ s1 = DoRunStarted(s, f)
    BY <1>1, Zenon DEF AddsRunStarted, ReducesRunStarted
  <2>2. Same(s1) /\ s1.use = [s.use EXCEPT ![f.op] = "identity"]
    BY <1>0, <2>1, Zenon DEF DoRunStarted, State
  <2> QED BY <1>0, <2>1, <2>2 DEF Silent, Free, CanRunStarted
<1>2. CASE AddsCompactionStarted(s, s1)
  <2>1. PICK f : CanCompactionStarted(s, f) /\ s1 = DoCompactionStarted(s, f)
    BY <1>2, Zenon DEF AddsCompactionStarted, ReducesCompactionStarted
  <2>2. Same(s1) /\ s1.use = [s.use EXCEPT ![f.op] = "identity", ![f.result] = "compactionResult"]
    BY <1>0, <2>1, Zenon DEF DoCompactionStarted, State
  <2> QED BY <1>0, <2>1, <2>2 DEF Silent, Free, CanCompactionStarted
<1>3. CASE AddsStepAttempt(s, s1)
  <2>1. PICK f : CanStepAttempt(s, f) /\ s1 = DoStepAttempt(s, f)
    BY <1>3, Zenon DEF AddsStepAttempt, ReducesStepAttempt
  <2>2. Same(s1) /\ s1.use = [s.use EXCEPT ![f.attempt] = "identity", ![f.step] = "identity"]
    BY <1>0, <2>1, Zenon DEF DoStepAttempt, State
  <2>3. s.use[f.attempt] # "used"
    BY <2>1 DEF CanStepAttempt, Free
  <2>4. s.use[f.step] # "used"
    <3>1. CASE MayStartStep(s, f)
      BY <3>1 DEF MayStartStep, Free
    <3>2. CASE MayRetryStep(s, f)
      <4>1. PICK p \in Id : p \in AttemptsOfStep(s, f.step)
        BY <3>2 DEF MayRetryStep
      <4>2. s.attempts[p] # None /\ s.attempts[p].step = f.step
        BY <4>1 DEF AttemptsOfStep
      <4> QED BY <4>2 DEF Ledger, AttemptSide, AttemptOwned
    <3> QED BY <2>1, <3>1, <3>2 DEF CanStepAttempt
  <2> QED BY <1>0, <2>2, <2>3, <2>4 DEF Silent
<1>4. CASE AddsStepFailed(s, s1)
  <2>1. PICK f : s1 = DoStepFailed(s, f)
    BY <1>4, Zenon DEF AddsStepFailed, ReducesStepFailed
  <2>2. Same(s1) /\ s1.use = s.use
    BY <1>0, <2>1, Zenon DEF DoStepFailed, State
  <2> QED BY <2>2 DEF Silent
<1>5. CASE AddsToolStarted(s, s1)
  <2>0. \E f : ReducesToolStarted(s, s1, f)
    BY <1>5 DEF AddsToolStarted
  <2>1. PICK f : CanToolStarted(s, f) /\ s1 = DoToolStarted(s, f)
    BY <2>0 DEF ReducesToolStarted
  <2>2. Same(s1) /\ s1.use = [s.use EXCEPT ![f.id] = "used", ![f.result] = "toolResult"]
    BY <1>0, <2>1, Zenon DEF DoToolStarted, State
  <2>3. s.use[f.id] # "used" /\ s.use[f.result] # "used"
    BY <2>1 DEF CanToolStarted, Free
  <2> QED BY <1>0, <2>2, <2>3 DEF Silent
<1>6. CASE AddsAbortRequested(s, s1)
  <2>1. PICK f : s1 = DoAbortRequested(s, f)
    BY <1>6, Zenon DEF AddsAbortRequested, ReducesAbortRequested
  <2>2. Same(s1) /\ s1.use = s.use
    BY <1>0, <2>1, Zenon DEF DoAbortRequested, State
  <2> QED BY <2>2 DEF Silent
<1>7. CASE AddsOperationFinished(s, s1)
  <2>1. PICK f : s1 = DoOperationFinished(s, f)
    BY <1>7, Zenon DEF AddsOperationFinished, ReducesOperationFinished
  <2>2. Same(s1) /\ s1.use = s.use
    BY <1>0, <2>1, Zenon DEF DoOperationFinished, State
  <2> QED BY <2>2 DEF Silent
<1>8. CASE AddsUsage(s, s1)
  <2>1. PICK f : s1 = DoUsage(s, f)
    BY <1>8, Zenon DEF AddsUsage, ReducesUsage
  <2>2. Same(s1) /\ s1.use = s.use
    BY <1>0, <2>1, Zenon DEF DoUsage, State
  <2> QED BY <2>2 DEF Silent
<1> QED BY <1>1, <1>2, <1>3, <1>4, <1>5, <1>6, <1>7, <1>8

(* Whatever fact is accepted does one of the three.                         *)
LEMMA AddsMessages ==
  ASSUME NEW s, NEW s1, Sound(s), Ledger(s), Adds(s, s1)
  PROVE  Messages(s, s1)
<1>1. CASE AddsUser(s, s1) \/ AddsAssistant(s, s1) \/ AddsSynthetic(s, s1) \/ AddsResult(s, s1)
  BY <1>1, UserMessages, AssistantMessages, SyntheticMessages, ResultMessages DEF Messages
<1>2. CASE AddsCompaction(s, s1)
  BY <1>2, CompactionMessages DEF Messages
<1>3. CASE ~AddsUser(s, s1) /\ ~AddsAssistant(s, s1) /\ ~AddsSynthetic(s, s1)
           /\ ~AddsResult(s, s1) /\ ~AddsCompaction(s, s1)
  BY <1>3, OtherMessages DEF Messages, Adds, AddsProgress
<1> QED BY <1>1, <1>2, <1>3

-----------------------------------------------------------------------------
(* The transcript *)

(* f is the set of calls left open after each of the messages ids.          *)
OpenAfter(s, ids, f) ==
  f = [n \in 0..Len(ids) |->
         IF n = 0 THEN {} ELSE Unanswered(s.entries[ids[n]], f[n - 1])]

(* Each message is legal after the ones before it, the calls they leave     *)
(* open are those the session keeps, and the entry of a message is not one  *)
(* that a later fact could write.                                           *)
TranscriptSide(s) ==
  /\ \A n \in DOMAIN s.transcript : s.use[s.transcript[n]] = "used"
  /\ \E f : /\ OpenAfter(s, s.transcript, f)
            /\ f[Len(s.transcript)] = s.unanswered
            /\ \A n \in 1..Len(s.transcript) : Legal(s.entries[s.transcript[n]], f[n - 1])

(* An empty session has no messages.                                        *)
LEMMA InitialTranscript == TranscriptSide(InitialState)
<1> DEFINE f == [n \in 0..0 |-> {}]
           ids == InitialState.transcript
<1>1. ids = << >> /\ Len(ids) = 0 /\ DOMAIN ids = {} /\ InitialState.unanswered = {}
  BY DEF InitialState
<1>2. OpenAfter(InitialState, ids, f)
  BY <1>1 DEF OpenAfter
<1>3. f[Len(ids)] = InitialState.unanswered
  BY <1>1
<1>4. \A n \in 1..Len(ids) : Legal(InitialState.entries[ids[n]], f[n - 1])
  BY <1>1
<1> QED BY <1>1, <1>2, <1>3, <1>4 DEF TranscriptSide

(* Entries that nothing may write again stay, and a message is one more.    *)
LEMMA PushedTranscript ==
  ASSUME NEW s, NEW s1, s \in State, TranscriptSide(s), NEW i, NEW e, Pushed(s, s1, i, e)
  PROVE  TranscriptSide(s1)
<1> DEFINE ids == s.transcript
           L == Len(ids)
           ids1 == s1.transcript
<1>0. /\ i \in Id /\ s.use[i] # "used" /\ Legal(e, s.unanswered)
      /\ s1.use = [s.use EXCEPT ![i] = "used"] /\ s1.entries = [s.entries EXCEPT ![i] = e]
      /\ s1.transcript = Append(s.transcript, i)
      /\ s1.unanswered = Unanswered(e, s.unanswered)
  <2>1. /\ Push(s, i, e).use = [s.use EXCEPT ![i] = "used"]
        /\ Push(s, i, e).entries = [s.entries EXCEPT ![i] = e]
        /\ Push(s, i, e).transcript = Append(s.transcript, i)
        /\ Push(s, i, e).unanswered = Unanswered(e, s.unanswered)
    BY Zenon DEF Push, State
  <2> QED BY <2>1 DEF Pushed, MessagesOf
<1>1. PICK f : /\ OpenAfter(s, ids, f)
               /\ f[L] = s.unanswered
               /\ \A n \in 1..L : Legal(s.entries[ids[n]], f[n - 1])
  BY DEF TranscriptSide
<1>2. /\ ids \in Seq(Id) /\ L \in Nat /\ DOMAIN ids = 1..L
      /\ s.use \in [Id -> Use] /\ s.entries \in [Id -> Entry \cup {None}]
  BY Fields
<1>3. /\ ids1 \in Seq(Id) /\ Len(ids1) = L + 1 /\ DOMAIN ids1 = 1..(L + 1)
      /\ \A n \in 1..L : ids1[n] = ids[n]
      /\ ids1[L + 1] = i
  BY <1>0, <1>2
<1>4. \A n \in 1..L : ids[n] # i /\ ids[n] \in Id
  BY <1>0, <1>2 DEF TranscriptSide
<1>5. /\ \A n \in 1..L : s1.entries[ids1[n]] = s.entries[ids[n]]
      /\ s1.entries[ids1[L + 1]] = e
  BY <1>0, <1>2, <1>3, <1>4
<1>6. \A n \in DOMAIN ids1 : s1.use[ids1[n]] = "used"
  <2>1. \A n \in 1..L : s1.use[ids1[n]] = "used"
    <3>1. \A n \in 1..L : s.use[ids[n]] = "used"
      BY <1>2 DEF TranscriptSide
    <3> QED BY <1>0, <1>2, <1>3, <1>4, <3>1
  <2>2. s1.use[ids1[L + 1]] = "used"
    BY <1>0, <1>2, <1>3
  <2> QED BY <1>2, <1>3, <2>1, <2>2
<1> DEFINE g == [n \in 0..(L + 1) |-> IF n <= L THEN f[n] ELSE Unanswered(e, f[L])]
<1>7. /\ \A n \in 0..L : g[n] = f[n]
      /\ g[L + 1] = Unanswered(e, f[L])
  BY <1>2
<1>8. \A n \in 0..L : f[n] = IF n = 0 THEN {} ELSE Unanswered(s.entries[ids[n]], f[n - 1])
  BY <1>1, Zenon DEF OpenAfter
<1>9. \A n \in 0..(L + 1) :
        g[n] = IF n = 0 THEN {} ELSE Unanswered(s1.entries[ids1[n]], g[n - 1])
  <2> HIDE DEF g
  <2>1. g[0] = {}
    BY <1>2, <1>7, <1>8
  <2>2. ASSUME NEW n \in 1..L PROVE g[n] = Unanswered(s1.entries[ids1[n]], g[n - 1])
    <3>1. n \in 0..L /\ n - 1 \in 0..L /\ n # 0
      BY <1>2
    <3>2. g[n] = f[n] /\ g[n - 1] = f[n - 1]
      BY <1>7, <3>1
    <3>3. f[n] = Unanswered(s.entries[ids[n]], f[n - 1])
      BY <1>8, <3>1, Zenon
    <3> QED BY <1>5, <3>2, <3>3
  <2>3. g[L + 1] = Unanswered(s1.entries[ids1[L + 1]], g[(L + 1) - 1])
    <3>1. (L + 1) - 1 = L /\ L \in 0..L
      BY <1>2
    <3> QED BY <1>5, <1>7, <3>1
  <2>4. \A n \in 0..(L + 1) : n = 0 \/ n \in 1..L \/ n = L + 1
    BY <1>2
  <2> QED BY <2>1, <2>2, <2>3, <2>4
<1>10. OpenAfter(s1, ids1, g)
  <2>1. g = [n \in 0..(L + 1) |-> g[n]]
    OBVIOUS
  <2>2. [n \in 0..(L + 1) |-> g[n]] =
          [n \in 0..(L + 1) |->
             IF n = 0 THEN {} ELSE Unanswered(s1.entries[ids1[n]], g[n - 1])]
    <3> HIDE DEF g
    <3> QED BY <1>9, Zenon
  <2> HIDE DEF g
  <2> QED BY <1>3, <2>1, <2>2 DEF OpenAfter
<1>11. g[Len(ids1)] = s1.unanswered
  BY <1>0, <1>1, <1>3, <1>7
<1>12. \A n \in 1..Len(ids1) : Legal(s1.entries[ids1[n]], g[n - 1])
  <2> HIDE DEF g
  <2>1. ASSUME NEW n \in 1..L PROVE Legal(s1.entries[ids1[n]], g[n - 1])
    <3>1. n - 1 \in 0..L
      BY <1>2
    <3> QED BY <1>1, <1>5, <1>7, <3>1
  <2>2. Legal(s1.entries[ids1[L + 1]], g[(L + 1) - 1])
    <3>1. (L + 1) - 1 = L /\ L \in 0..L
      BY <1>2
    <3> QED BY <1>0, <1>1, <1>5, <1>7, <3>1
  <2>3. \A n \in 1..(L + 1) : n \in 1..L \/ n = L + 1
    BY <1>2
  <2> QED BY <1>3, <2>1, <2>2, <2>3
<1> HIDE DEF g
<1> QED BY <1>6, <1>10, <1>11, <1>12 DEF TranscriptSide

(* No fact makes the transcript one that a provider would refuse.           *)
LEMMA MessagesTranscript ==
  ASSUME NEW s, NEW s1, s \in State, TranscriptSide(s), Messages(s, s1)
  PROVE  TranscriptSide(s1)
<1>1. CASE \E i, e : Pushed(s, s1, i, e)
  BY <1>1, PushedTranscript
<1>0. /\ s.use \in [Id -> Use] /\ s.entries \in [Id -> Entry \cup {None}]
      /\ \A n \in DOMAIN s.transcript : s.transcript[n] \in Id
  BY Fields
<1>2. ASSUME s1.transcript = s.transcript, s1.unanswered = s.unanswered,
             \A n \in DOMAIN s.transcript :
               /\ s1.use[s.transcript[n]] = "used"
               /\ s1.entries[s.transcript[n]] = s.entries[s.transcript[n]]
      PROVE  TranscriptSide(s1)
  <2> DEFINE ids == s.transcript
  <2>1. PICK f : /\ OpenAfter(s, ids, f)
                 /\ f[Len(ids)] = s.unanswered
                 /\ \A n \in 1..Len(ids) : Legal(s.entries[ids[n]], f[n - 1])
    BY DEF TranscriptSide
  <2>2. DOMAIN ids = 1..Len(ids) /\ Len(ids) \in Nat
    BY Fields
  <2>3. \A n \in 0..Len(ids) : n = 0 \/ n \in DOMAIN ids
    BY <2>2
  <2>4. [n \in 0..Len(ids) |-> IF n = 0 THEN {} ELSE Unanswered(s.entries[ids[n]], f[n - 1])]
        = [n \in 0..Len(ids) |-> IF n = 0 THEN {} ELSE Unanswered(s1.entries[ids[n]], f[n - 1])]
    BY <1>2, <2>3
  <2>5. OpenAfter(s1, ids, f)
    BY <2>1, <2>4 DEF OpenAfter
  <2> QED BY <1>2, <2>1, <2>2, <2>5 DEF TranscriptSide
<1>3. CASE Silent(s, s1)
  <2>1. \A n \in DOMAIN s.transcript : s.use[s.transcript[n]] = "used"
    BY DEF TranscriptSide
  <2> QED BY <1>0, <1>2, <1>3, <2>1 DEF Silent
<1>4. CASE \E i, e, through : Summarised(s, s1, i, e, through)
  <2>1. PICK i, e, through : Summarised(s, s1, i, e, through)
    BY <1>4
  <2>2. \A n \in DOMAIN s.transcript : s.use[s.transcript[n]] = "used"
    BY DEF TranscriptSide
  <2>3. /\ s1.transcript = s.transcript /\ s1.unanswered = s.unanswered
        /\ s1.use = [s.use EXCEPT ![i] = "used"] /\ s1.entries = [s.entries EXCEPT ![i] = e]
        /\ s.use[i] = "compactionResult"
    BY <2>1 DEF Summarised
  <2>4. \A n \in DOMAIN s.transcript :
          /\ s1.use[s.transcript[n]] = "used"
          /\ s1.entries[s.transcript[n]] = s.entries[s.transcript[n]]
    BY <1>0, <2>2, <2>3
  <2> QED BY <1>2, <2>3, <2>4
<1> QED BY <1>1, <1>3, <1>4 DEF Messages


-----------------------------------------------------------------------------
(* What a fact does to the calls of the answers *)

(* The entries stay, and a new one has no calls.                            *)
NoNewCalls(s, s1) ==
  \A i \in Id : \/ s1.entries[i] = s.entries[i]
                \/ s.entries[i] = None /\ s1.entries[i] # None /\ s1.entries[i].calls = << >>

CallsKept(s, s1) ==
  /\ NoNewCalls(s, s1)
  /\ s1.tools = s.tools /\ s1.pairs = s.pairs /\ s1.unanswered = s.unanswered

(* The answer i opens its calls, when no other is open.                     *)
CallsAsked(s, s1, i) ==
  /\ i \in Id /\ s.entries[i] = None /\ s1.entries[i] # None
  /\ \A j \in Id : j # i => s1.entries[j] = s.entries[j]
  /\ \A j, k \in DOMAIN s1.entries[i].calls :
       s1.entries[i].calls[j].id = s1.entries[i].calls[k].id => j = k
  /\ s.unanswered = {}
  /\ s1.unanswered = {s1.entries[i].calls[k].id : k \in DOMAIN s1.entries[i].calls}
  /\ s1.tools = s.tools /\ s1.pairs = s.pairs

(* Call n of the answer a is answered without having been started.          *)
CallSkipped(s, s1, a, n) ==
  /\ NoNewCalls(s, s1)
  /\ a \in Id /\ s.entries[a] # None /\ n \in DOMAIN s.entries[a].calls
  /\ <<a, n>> \notin s.pairs
  /\ s1.unanswered = s.unanswered \ {s.entries[a].calls[n].id}
  /\ s1.tools = s.tools /\ s1.pairs = s.pairs \cup {<<a, n>>}

(* The started tool t has its result.                                       *)
CallAnswered(s, s1, t) ==
  /\ NoNewCalls(s, s1)
  /\ t \in Id /\ s.tools[t] # None /\ s.tools[t].status = "pending"
  /\ s1.tools[t] # None /\ s1.tools[t] = [s.tools[t] EXCEPT !.status = "completed"]
  /\ \A u \in Id : u # t => s1.tools[u] = s.tools[u]
  /\ s1.unanswered = s.unanswered \ {s.tools[t].call}
  /\ s1.pairs = s.pairs

(* A call is started as the tool t.                                         *)
CallStarted(s, s1, t) ==
  /\ s1.entries = s.entries /\ s1.unanswered = s.unanswered
  /\ t \in Id /\ s.tools[t] = None /\ s1.tools[t] # None
  /\ \A u \in Id : u # t => s1.tools[u] = s.tools[u]
  /\ s1.tools[t].status = "pending"
  /\ s1.tools[t].assistant \in Id /\ s.entries[s1.tools[t].assistant] # None
  /\ s1.tools[t].index \in DOMAIN s.entries[s1.tools[t].assistant].calls
  /\ s.entries[s1.tools[t].assistant].calls[s1.tools[t].index].id = s1.tools[t].call
  /\ <<s1.tools[t].assistant, s1.tools[t].index>> \notin s.pairs
  /\ s1.pairs = s.pairs \cup {<<s1.tools[t].assistant, s1.tools[t].index>>}

Calls(s, s1) ==
  \/ CallsKept(s, s1)
  \/ \E i : CallsAsked(s, s1, i)
  \/ \E a, n : CallSkipped(s, s1, a, n)
  \/ \E t : CallAnswered(s, s1, t)
  \/ \E t : CallStarted(s, s1, t)

(* One entry is written.                                                    *)
Writes(s, s1, i, e) == \A j \in Id : s1.entries[j] = IF j = i THEN e ELSE s.entries[j]

(* A pushed entry without calls.                                            *)
LEMMA PushedCalls ==
  ASSUME NEW s, s \in State, Written(s), NEW i \in Id, s.use[i] # "used", NEW e \in Entry,
         e.calls = << >>, NEW s1, Writes(s, s1, i, e)
  PROVE  NoNewCalls(s, s1)
<1>1. s.entries[i] = None
  BY DEF Written
<1>2. e # None
  BY NoneAssumption
<1> QED BY <1>1, <1>2 DEF NoNewCalls, Writes

(* A user message asks nothing, and is legal only when no call is open.     *)
LEMMA UserCalls ==
  ASSUME NEW s, NEW s1, Sound(s), Ledger(s), AddsUser(s, s1)
  PROVE  CallsKept(s, s1)
<1> PICK i \in Id : ReducesUser(s, s1, [type |-> "user", id |-> i])
  BY DEF AddsUser
<1> DEFINE e == UserEntry([type |-> "user", id |-> i])
<1>0. s \in State /\ Written(s)
  BY DEF Sound, Ledger, AnswerSide
<1>1. e \in Entry /\ e.type = "user" /\ e.calls = << >>
  BY DEF UserEntry, Entry
<1>2. Free(s, i) /\ Legal(e, s.unanswered) /\ s1 = Push(s, i, e)
  BY DEF ReducesUser, CanUser, DoUser
<1> HIDE DEF e
<1>3. /\ s1.entries = [s.entries EXCEPT ![i] = e] /\ s1.tools = s.tools /\ s1.pairs = s.pairs
      /\ s1.unanswered = Unanswered(e, s.unanswered)
  <2>1. s \in State /\ i \in Id
    BY <1>0
  <2>2. Push(s, i, e).entries = [s.entries EXCEPT ![i] = e] /\ Push(s, i, e).tools = s.tools
    BY <2>1, Zenon DEF Push, State
  <2>3. /\ Push(s, i, e).pairs = s.pairs
        /\ Push(s, i, e).unanswered = Unanswered(e, s.unanswered)
    BY <2>1, Zenon DEF Push, State
  <2> QED BY <1>2, <2>2, <2>3
<1>4. s1.unanswered = s.unanswered
  BY <1>1, <1>2, <1>3 DEF Unanswered, Legal
<1>5. NoNewCalls(s, s1)
  <2>1. Writes(s, s1, i, e)
    BY <1>0, <1>3, Fields DEF Writes
  <2>2. s.use[i] # "used"
    BY <1>2 DEF Free
  <2> QED BY <1>0, <1>1, <2>1, <2>2, PushedCalls, Zenon
<1> QED BY <1>3, <1>4, <1>5 DEF CallsKept

(* An answer with calls opens them.                                         *)
LEMMA AssistantCalls ==
  ASSUME NEW s, NEW s1, Sound(s), Ledger(s), AddsAssistant(s, s1)
  PROVE  \E i : CallsAsked(s, s1, i)
<1> PICK i \in Id, a \in Id, stop \in Stop, calls \in Seq(Call), text \in BOOLEAN :
      LET f == [type |-> "assistant", id |-> i, step |-> s.attempts[a].step,
                attempt |-> a, stop |-> stop, calls |-> calls, text |-> text]
      IN  s.attempts[a] # None /\ CanAssistant(s, f) /\ s1 = DoAssistant(s, f)
  BY DEF AddsAssistant, ReducesAssistant
<1> DEFINE f == [type |-> "assistant", id |-> i, step |-> s.attempts[a].step,
                 attempt |-> a, stop |-> stop, calls |-> calls, text |-> text]
           e == AssistantEntry(s, f)
           info == [s.attempts[a] EXCEPT !.closed = TRUE, !.copyClosed = TRUE,
                                         !.settled = i]
           o == WithStatus(s.operation, a, "settled")
           p == Push(s, i, e)
<1>0. s \in State /\ Written(s)
  BY DEF Sound, Ledger, AnswerSide
<1>1. s.attempts[a] \in AttemptInfo
  BY <1>0, Fields
<1>2. e \in Entry /\ e.type = "assistant" /\ e.calls = calls
  BY <1>1 DEF AssistantEntry, Entry, AttemptInfo
<1>3. Free(s, i) /\ Legal(e, s.unanswered)
  BY DEF CanAssistant
<1>d. \A j, k \in DOMAIN calls : calls[j].id = calls[k].id => j = k
  BY DEF CanAssistant
<1>4. s1 = DoAssistant(s, f)
  OBVIOUS
<1>5. /\ p \in State /\ p.attempts = s.attempts /\ p.operation = s.operation
      /\ p.entries = [s.entries EXCEPT ![i] = e] /\ p.tools = s.tools /\ p.pairs = s.pairs
      /\ p.unanswered = Unanswered(e, s.unanswered)
  <2> HIDE DEF e
  <2>1. p \in State
    BY <1>0, <1>2, PushType
  <2>2. s \in State /\ i \in Id
    BY <1>0, <1>2
  <2>3. p.entries = [s.entries EXCEPT ![i] = e] /\ p.unanswered = Unanswered(e, s.unanswered)
    BY <2>2, Zenon DEF Push, State
  <2>4. p.tools = s.tools /\ p.pairs = s.pairs
    BY <2>2, Zenon DEF Push, State
  <2>5. p.attempts = s.attempts /\ p.operation = s.operation
    BY <2>2, Zenon DEF Push, State
  <2> QED BY <2>1, <2>3, <2>4, <2>5
<1> HIDE DEF p, info, o
<1>6. s1 = [p EXCEPT !.attempts = [s.attempts EXCEPT ![a] = info], !.operation = o]
  BY <1>4, <1>5 DEF DoAssistant, p, info, o
<1>7. /\ s1.entries = p.entries /\ s1.tools = p.tools /\ s1.pairs = p.pairs
      /\ s1.unanswered = p.unanswered
  BY <1>5, <1>6, Zenon DEF State
<1> HIDE DEF e
<1>8. \A j \in Id : s1.entries[j] = IF j = i THEN e ELSE s.entries[j]
  BY <1>0, <1>5, <1>7, Fields
<1>9. s.unanswered = {} /\ s1.unanswered = {e.calls[k].id : k \in DOMAIN e.calls}
  BY <1>2, <1>3, <1>5, <1>7 DEF Legal, Unanswered
<1>10. s.entries[i] = None /\ e # None
  BY <1>0, <1>2, <1>3, NoneAssumption DEF Free, Written
<1>11. CallsAsked(s, s1, i)
  <2>1. s1.entries[i] = e /\ \A j \in Id : j # i => s1.entries[j] = s.entries[j]
    BY <1>8
  <2>2. \A j, k \in DOMAIN e.calls : e.calls[j].id = e.calls[k].id => j = k
    BY <1>2, <1>d
  <2>3. s1.tools = s.tools /\ s1.pairs = s.pairs
    BY <1>5, <1>7
  <2>4. s1.unanswered = {s1.entries[i].calls[k].id : k \in DOMAIN s1.entries[i].calls}
    BY <1>9, <2>1
  <2>5. \A j, k \in DOMAIN s1.entries[i].calls :
          s1.entries[i].calls[j].id = s1.entries[i].calls[k].id => j = k
    BY <2>1, <2>2
  <2> HIDE DEF p, f
  <2> QED BY <1>9, <1>10, <2>1, <2>3, <2>4, <2>5, Zenon DEF CallsAsked
<1> QED BY <1>11

(* A synthetic result answers a call that was not started.                  *)
LEMMA SyntheticCalls ==
  ASSUME NEW s, NEW s1, Sound(s), Ledger(s), AddsSynthetic(s, s1)
  PROVE  \E a, n : CallSkipped(s, s1, a, n)
<1> PICK i \in Id, a \in {j \in Id : s.entries[j] # None} :
      \E n \in DOMAIN s.entries[a].calls :
      LET f == [type |-> "synthetic", id |-> i, step |-> s.entries[a].step,
                assistant |-> a, index |-> n,
                call |-> s.entries[a].calls[n].id,
                name |-> s.entries[a].calls[n].name]
      IN  CanSynthetic(s, f) /\ s1 = DoSynthetic(s, f)
  BY DEF AddsSynthetic, ReducesSynthetic
<1> PICK n \in DOMAIN s.entries[a].calls :
      LET f == [type |-> "synthetic", id |-> i, step |-> s.entries[a].step,
                assistant |-> a, index |-> n,
                call |-> s.entries[a].calls[n].id,
                name |-> s.entries[a].calls[n].name]
      IN  CanSynthetic(s, f) /\ s1 = DoSynthetic(s, f)
  OBVIOUS
<1> DEFINE e == ToolEntry(s.operation.id, s.entries[a].step, s.entries[a].calls[n].id)
           p == Push(s, i, e)
<1>0. s \in State /\ Written(s)
  BY DEF Sound, Ledger, AnswerSide
<1>1. s.entries[a].step \in Id /\ s.entries[a].calls[n].id \in CallId
  BY CallTypes DEF Call, Sound
<1>2. s.operation.id \in Id
  BY CurrentType DEF Sound, OperationState, CanSynthetic
<1>3. /\ e \in Entry /\ e.type = "tool" /\ e.calls = << >> /\ i \in Id
      /\ e.call = s.entries[a].calls[n].id
  <2>1. e \in Entry
    BY <1>1, <1>2, ToolEntryType, Zenon
  <2>2. e.type = "tool" /\ e.calls = << >> /\ e.call = s.entries[a].calls[n].id
    BY DEF ToolEntry
  <2> HIDE DEF e
  <2> QED BY <2>1, <2>2
<1>4. Free(s, i) /\ <<a, n>> \notin s.pairs
  BY DEF CanSynthetic, NamesCall
<1>5. s1 = [p EXCEPT !.pairs = @ \cup {<<a, n>>}]
  BY DEF DoSynthetic
<1> HIDE DEF e
<1>6. /\ p \in State /\ p.pairs = s.pairs /\ p.tools = s.tools
      /\ p.entries = [s.entries EXCEPT ![i] = e] /\ p.unanswered = Unanswered(e, s.unanswered)
  <2>1. p \in State
    BY <1>0, <1>3, PushType
  <2>2. s \in State /\ i \in Id
    BY <1>0, <1>3
  <2>3. p.entries = [s.entries EXCEPT ![i] = e] /\ p.unanswered = Unanswered(e, s.unanswered)
    BY <2>2, Zenon DEF Push, State
  <2>4. p.tools = s.tools /\ p.pairs = s.pairs
    BY <2>2, Zenon DEF Push, State
  <2> QED BY <2>1, <2>3, <2>4
<1> HIDE DEF p
<1>7. /\ s1.entries = p.entries /\ s1.tools = p.tools /\ s1.pairs = p.pairs \cup {<<a, n>>}
      /\ s1.unanswered = p.unanswered
  BY <1>5, <1>6, Zenon DEF State
<1>8. NoNewCalls(s, s1)
  <2>1. Writes(s, s1, i, e)
    BY <1>0, <1>6, <1>7, Fields DEF Writes
  <2>2. s.use[i] # "used"
    BY <1>4 DEF Free
  <2>3. s \in State /\ Written(s) /\ i \in Id /\ e \in Entry /\ e.calls = << >>
    BY <1>0, <1>3
  <2> QED BY <2>1, <2>2, <2>3, PushedCalls, Zenon
<1>9. s1.unanswered = s.unanswered \ {s.entries[a].calls[n].id}
  BY <1>3, <1>6, <1>7 DEF Unanswered
<1>10. CallSkipped(s, s1, a, n)
  BY <1>4, <1>6, <1>7, <1>8, <1>9 DEF CallSkipped
<1> QED BY <1>10

(* A result answers the call of its tool.                                   *)
LEMMA ResultCalls ==
  ASSUME NEW s, NEW s1, Sound(s), Ledger(s), AddsResult(s, s1)
  PROVE  \E t : CallAnswered(s, s1, t)
<1> PICK t \in Id :
      LET f == [type |-> "result", id |-> s.tools[t].result,
                step |-> s.tools[t].step, started |-> t,
                call |-> s.tools[t].call]
      IN  s.tools[t] # None /\ CanResult(s, f) /\ s1 = DoResult(s, f)
  BY DEF AddsResult, ReducesResult
<1> DEFINE e == ToolEntry(s.tools[t].op, s.tools[t].step, s.tools[t].call)
           i == s.tools[t].result
           p == Push(s, i, e)
<1>0. s \in State /\ Written(s)
  BY DEF Sound, Ledger, AnswerSide
<1>1. s.tools[t] \in ToolCallState
  BY <1>0, Fields
<1>2. /\ e \in Entry /\ e.type = "tool" /\ i \in Id /\ e.calls = << >>
      /\ e.call = s.tools[t].call
  BY <1>1 DEF ToolEntry, Entry, ToolCallState
<1>3. s1 = [p EXCEPT !.tools[t].status = "completed"]
  BY DEF DoResult
<1>4. s.use[i] # "used" /\ s.tools[t].status = "pending"
  BY DEF CanResult
<1> HIDE DEF e, i
<1>5. /\ p \in State /\ p.tools = s.tools /\ p.pairs = s.pairs
      /\ p.entries = [s.entries EXCEPT ![i] = e] /\ p.unanswered = Unanswered(e, s.unanswered)
  <2>1. p \in State
    BY <1>0, <1>2, PushType
  <2>2. s \in State /\ i \in Id
    BY <1>0, <1>2
  <2>3. p.entries = [s.entries EXCEPT ![i] = e] /\ p.unanswered = Unanswered(e, s.unanswered)
    BY <2>2, Zenon DEF Push, State
  <2>4. p.tools = s.tools /\ p.pairs = s.pairs
    BY <2>2, Zenon DEF Push, State
  <2> QED BY <2>1, <2>3, <2>4
<1> HIDE DEF p
<1> DEFINE done == [s.tools[t] EXCEPT !.status = "completed"]
<1>6. /\ s1.entries = p.entries /\ s1.pairs = p.pairs /\ s1.unanswered = p.unanswered
      /\ s1.tools = [s.tools EXCEPT ![t] = done]
  BY <1>3, <1>5, Zenon DEF State
<1>7. done \in ToolCallState
  BY <1>1 DEF ToolCallState
<1> HIDE DEF done
<1>8. s1.tools[t] = done /\ \A u \in Id : u # t => s1.tools[u] = s.tools[u]
  BY <1>0, <1>6, Fields
<1>9. NoNewCalls(s, s1)
  <2>1. Writes(s, s1, i, e)
    BY <1>0, <1>5, <1>6, Fields DEF Writes
  <2> QED BY <1>0, <1>2, <1>4, <2>1, PushedCalls, Zenon
<1>10. s1.unanswered = s.unanswered \ {s.tools[t].call}
  BY <1>2, <1>5, <1>6 DEF Unanswered
<1>11. s1.tools[t] # None /\ s1.tools[t] = [s.tools[t] EXCEPT !.status = "completed"]
  BY <1>7, <1>8, NoneAssumption DEF done
<1>12. CallAnswered(s, s1, t)
  BY <1>4, <1>5, <1>6, <1>8, <1>9, <1>10, <1>11 DEF CallAnswered
<1> QED BY <1>12

(* A summary has no calls.                                                  *)
LEMMA CompactionCalls ==
  ASSUME NEW s, NEW s1, Sound(s), Ledger(s), AddsCompaction(s, s1)
  PROVE  CallsKept(s, s1)
<1>0. s \in State /\ Written(s) /\ OpenIsCurrent(s)
  BY DEF Sound, Ledger, AnswerSide, AttemptSide
<1>1. PICK i, e, through : Summarised(s, s1, i, e, through)
  BY CompactionMessages
<1>2. s1.tools = s.tools /\ s1.pairs = s.pairs
  <2>1. \E j, b, d, info : SummaryAdded(s, s1, j, b, d, info)
    BY <1>0, SummaryEffect
  <2> QED BY <2>1 DEF SummaryAdded, AttemptEnded
<1>3. NoNewCalls(s, s1)
  <2>1. /\ i \in Id /\ e \in Entry /\ e.calls = << >> /\ s.use[i] # "used"
        /\ s1.entries = [s.entries EXCEPT ![i] = e]
    BY <1>1 DEF Summarised
  <2>2. Writes(s, s1, i, e)
    BY <1>0, <2>1, Fields DEF Writes
  <2>3. s \in State /\ Written(s) /\ i \in Id /\ e \in Entry /\ e.calls = << >> /\ s.use[i] # "used"
    BY <1>0, <2>1
  <2> QED BY <2>2, <2>3, PushedCalls, Zenon
<1> QED BY <1>1, <1>2, <1>3 DEF Summarised, CallsKept

(* A call is started once, as the entry of its answer has it.               *)
LEMMA ToolStartedCalls ==
  ASSUME NEW s, NEW s1, Sound(s), Ledger(s), AddsToolStarted(s, s1)
  PROVE  \E t : CallStarted(s, s1, t)
<1>0. PICK t \in Id, a \in {j \in Id : s.entries[j] # None}, args \in Arguments,
           replay \in {"safe", "never"}, key \in ReplayKey, env \in Environment :
        \E n \in DOMAIN s.entries[a].calls, result \in Id :
          ReducesToolStarted(s, s1,
            [type |-> "toolStarted", id |-> t, op |-> s.entries[a].op,
             step |-> s.entries[a].step, assistant |-> a, index |-> n,
             call |-> s.entries[a].calls[n].id,
             name |-> s.entries[a].calls[n].name,
             args |-> args, replay |-> replay, key |-> key, env |-> env,
             result |-> result])
  BY DEF AddsToolStarted
<1>1. PICK n \in DOMAIN s.entries[a].calls, result \in Id :
          ReducesToolStarted(s, s1,
            [type |-> "toolStarted", id |-> t, op |-> s.entries[a].op,
             step |-> s.entries[a].step, assistant |-> a, index |-> n,
             call |-> s.entries[a].calls[n].id,
             name |-> s.entries[a].calls[n].name,
             args |-> args, replay |-> replay, key |-> key, env |-> env,
             result |-> result])
  BY <1>0
<1> DEFINE f == [type |-> "toolStarted", id |-> t, op |-> s.entries[a].op,
                 step |-> s.entries[a].step, assistant |-> a, index |-> n,
                 call |-> s.entries[a].calls[n].id,
                 name |-> s.entries[a].calls[n].name,
                 args |-> args, replay |-> replay, key |-> key, env |-> env,
                 result |-> result]
           tool == [op |-> f.op, step |-> f.step, assistant |-> f.assistant,
                    index |-> f.index, call |-> f.call, name |-> f.name,
                    args |-> f.args, replay |-> f.replay, key |-> f.key,
                    env |-> f.env, result |-> f.result, status |-> "pending"]
<1>2. CanToolStarted(s, f) /\ s1 = DoToolStarted(s, f)
  BY <1>1 DEF ReducesToolStarted
<1>3. s \in State /\ a \in Id /\ Unused(s)
  BY DEF Sound, Ledger, AttemptSide
<1>4. /\ f.id = t /\ f.assistant = a /\ f.index = n
      /\ tool.assistant = a /\ tool.index = n /\ tool.call = s.entries[a].calls[n].id
      /\ tool.status = "pending"
  OBVIOUS
<1>5. Free(s, t) /\ <<a, n>> \notin s.pairs
  BY <1>2, <1>4 DEF CanToolStarted, NamesCall
<1>6. s.tools[t] = None
  BY <1>3, <1>5 DEF Unused
<1>7. tool \in ToolCallState
  <2>1. s.entries[a].op \in Id /\ s.entries[a].step \in Id /\ n \in Nat /\ s.entries[a].calls[n] \in Call
    BY <1>3, CallTypes DEF Sound
  <2> QED BY <1>3, <2>1 DEF ToolCallState, Call
<1> HIDE DEF tool
<1>8. /\ s1.entries = s.entries /\ s1.unanswered = s.unanswered
      /\ s1.tools = [s.tools EXCEPT ![f.id] = tool]
      /\ s1.pairs = s.pairs \cup {<<f.assistant, f.index>>}
  BY <1>2, <1>3, Zenon DEF DoToolStarted, State, tool
<1>9. s1.tools[t] = tool /\ \A u \in Id : u # t => s1.tools[u] = s.tools[u]
  BY <1>3, <1>4, <1>8, Fields
<1>10. tool # None
  BY <1>7, NoneAssumption
<1> HIDE DEF f
<1>11. CallStarted(s, s1, t)
  BY <1>3, <1>4, <1>5, <1>6, <1>8, <1>9, <1>10 DEF CallStarted
<1> QED BY <1>11

(* The facts about operations and attempts leave the calls alone.           *)
LEMMA OtherCalls ==
  ASSUME NEW s, NEW s1, Sound(s), Ledger(s),
         \/ AddsRunStarted(s, s1) \/ AddsCompactionStarted(s, s1)
         \/ AddsStepAttempt(s, s1) \/ AddsStepFailed(s, s1)
         \/ AddsAbortRequested(s, s1)
         \/ AddsOperationFinished(s, s1) \/ AddsUsage(s, s1)
  PROVE  CallsKept(s, s1)
<1>1. CASE AddsRunStarted(s, s1) \/ AddsCompactionStarted(s, s1)
  <2>1. \E op, info : OperationAdded(s, s1, op, info)
    BY <1>1, RunStartedEffect, CompactionStartedEffect
  <2> QED BY <2>1 DEF OperationAdded, SameRest, CallsKept, NoNewCalls
<1>2. CASE AddsStepAttempt(s, s1)
  <2>1. \E op, step, attempt, new, info : AttemptAdded(s, s1, op, step, attempt, new, info)
    BY <1>2, StepAttemptEffect
  <2> QED BY <2>1 DEF AttemptAdded, SameRest, CallsKept, NoNewCalls
<1>3. CASE AddsStepFailed(s, s1)
  <2>1. \E a, info : FailureAdded(s, s1, a, info)
    BY <1>3, FailureEffect
  <2> QED BY <2>1 DEF FailureAdded, AttemptEnded, CallsKept, NoNewCalls
<1>4. CASE AddsAbortRequested(s, s1)
  BY <1>4, AbortEffect DEF AbortAdded, SameRest, CallsKept, NoNewCalls
<1>5. CASE AddsOperationFinished(s, s1)
  <2>1. \E op, final, how, info : FinishAdded(s, s1, op, final, how, info)
    BY <1>5, FinishEffect
  <2> QED BY <2>1 DEF FinishAdded, SameRest, CallsKept, NoNewCalls
<1>6. CASE AddsUsage(s, s1)
  BY <1>6, UsageEffect DEF SameRest, CallsKept, NoNewCalls
<1> QED BY <1>1, <1>2, <1>3, <1>4, <1>5, <1>6

(* Whatever fact is accepted does one of the five.                          *)
LEMMA AddsCalls ==
  ASSUME NEW s, NEW s1, Sound(s), Ledger(s), Adds(s, s1)
  PROVE  Calls(s, s1)
<1>1. CASE AddsUser(s, s1) \/ AddsCompaction(s, s1)
  BY <1>1, UserCalls, CompactionCalls DEF Calls
<1>2. CASE AddsAssistant(s, s1)
  BY <1>2, AssistantCalls DEF Calls
<1>3. CASE AddsSynthetic(s, s1)
  BY <1>3, SyntheticCalls DEF Calls
<1>4. CASE AddsResult(s, s1)
  BY <1>4, ResultCalls DEF Calls
<1>5. CASE AddsToolStarted(s, s1)
  BY <1>5, ToolStartedCalls DEF Calls
<1>6. CASE ~AddsUser(s, s1) /\ ~AddsAssistant(s, s1) /\ ~AddsSynthetic(s, s1)
           /\ ~AddsResult(s, s1) /\ ~AddsCompaction(s, s1) /\ ~AddsToolStarted(s, s1)
  BY <1>6, OtherCalls DEF Calls, Adds, AddsProgress
<1> QED BY <1>1, <1>2, <1>3, <1>4, <1>5, <1>6

-----------------------------------------------------------------------------
(* The calls without a result *)

(* A call of an answer that was not answered, started or not.               *)
OpenCall(s, i, k) ==
  /\ i \in Id /\ s.entries[i] # None /\ k \in DOMAIN s.entries[i].calls
  /\ \/ <<i, k>> \notin s.pairs
     \/ \E t \in Id : /\ s.tools[t] # None /\ s.tools[t].status = "pending"
                      /\ s.tools[t].assistant = i /\ s.tools[t].index = k

(* The calls of an answer differ, and only an answer has pairs.             *)
CallsDiffer(s) ==
  /\ \A i \in Id : s.entries[i] # None =>
       \A j, k \in DOMAIN s.entries[i].calls :
         s.entries[i].calls[j].id = s.entries[i].calls[k].id => j = k
  /\ \A i \in Id : \A k : <<i, k>> \in s.pairs => s.entries[i] # None

(* A started tool names its call.                                           *)
ToolsNameCalls(s) ==
  \A t \in Id : s.tools[t] # None =>
    /\ s.tools[t].assistant \in Id /\ s.entries[s.tools[t].assistant] # None
    /\ s.tools[t].index \in DOMAIN s.entries[s.tools[t].assistant].calls
    /\ s.entries[s.tools[t].assistant].calls[s.tools[t].index].id = s.tools[t].call

(* The open calls are those of one answer, and they are the unanswered ones. *)
OpenUnanswered(s) ==
  \A i, k : OpenCall(s, i, k) =>
    /\ s.entries[i].calls[k].id \in s.unanswered
    /\ \A j, l : OpenCall(s, j, l) => j = i

UnansweredOpen(s) ==
  \A c \in s.unanswered : \E i, k : OpenCall(s, i, k) /\ s.entries[i].calls[k].id = c

CallSide(s) ==
  CallsDiffer(s) /\ ToolsNameCalls(s) /\ OpenUnanswered(s) /\ UnansweredOpen(s)

(* So the call of a pending tool is one the transcript still waits for.     *)
LEMMA PendingUnanswered ==
  ASSUME NEW s, CallSide(s), NEW t \in Id, s.tools[t] # None, s.tools[t].status = "pending"
  PROVE  s.tools[t].call \in s.unanswered
<1>1. OpenCall(s, s.tools[t].assistant, s.tools[t].index)
  BY DEF CallSide, ToolsNameCalls, OpenCall
<1> QED BY <1>1 DEF CallSide, ToolsNameCalls, OpenUnanswered

(* An empty session has no calls.                                           *)
LEMMA InitialCalls == CallSide(InitialState)
<1> DEFINE s == InitialState
<1>1. /\ \A i \in Id : s.entries[i] = None /\ s.tools[i] = None
      /\ s.pairs = {} /\ s.unanswered = {}
  BY DEF InitialState
<1> HIDE DEF s
<1>2. CallSide(s)
  BY <1>1 DEF CallSide, CallsDiffer, ToolsNameCalls, OpenUnanswered, UnansweredOpen, OpenCall
<1> QED BY <1>2 DEF s

(* Entries without calls add no open call, and those that were keep theirs. *)
LEMMA NoNewOpen ==
  ASSUME NEW s, NEW s1, NoNewCalls(s, s1)
  PROVE  /\ \A i \in Id : s.entries[i] # None => s1.entries[i] = s.entries[i]
         /\ \A i \in Id : \A k : s1.entries[i] # None /\ k \in DOMAIN s1.entries[i].calls
              => s.entries[i] # None /\ s1.entries[i] = s.entries[i]
BY DEF NoNewCalls

(* A fact that touches no call.                                             *)
LEMMA KeptCallSide ==
  ASSUME NEW s, NEW s1, CallSide(s), CallsKept(s, s1)
  PROVE  CallSide(s1)
<1>1. /\ \A i \in Id : s.entries[i] # None => s1.entries[i] = s.entries[i]
      /\ \A i \in Id : \A k : s1.entries[i] # None /\ k \in DOMAIN s1.entries[i].calls
              => s.entries[i] # None /\ s1.entries[i] = s.entries[i]
  BY NoNewOpen DEF CallsKept
<1>2. s1.tools = s.tools /\ s1.pairs = s.pairs /\ s1.unanswered = s.unanswered
  BY DEF CallsKept
<1>3. \A i, k : OpenCall(s1, i, k) <=> OpenCall(s, i, k)
  BY <1>1, <1>2 DEF OpenCall
<1>4. \A i, k : OpenCall(s, i, k) => s1.entries[i] = s.entries[i]
  BY <1>1 DEF OpenCall
<1>5. CallsDiffer(s1)
  BY <1>1, <1>2 DEF CallSide, CallsDiffer
<1>6. ToolsNameCalls(s1)
  BY <1>1, <1>2 DEF CallSide, ToolsNameCalls
<1>7. OpenUnanswered(s1)
  BY <1>2, <1>3, <1>4 DEF CallSide, OpenUnanswered
<1>8. UnansweredOpen(s1)
  BY <1>2, <1>3, <1>4 DEF CallSide, UnansweredOpen
<1> QED BY <1>5, <1>6, <1>7, <1>8 DEF CallSide

(* An answer opens its calls.                                               *)
LEMMA AskedCallSide ==
  ASSUME NEW s, NEW s1, CallSide(s), NEW i, CallsAsked(s, s1, i)
  PROVE  CallSide(s1)
<1>1. /\ i \in Id /\ s.entries[i] = None /\ s1.entries[i] # None
      /\ \A j \in Id : j # i => s1.entries[j] = s.entries[j]
      /\ s1.tools = s.tools /\ s1.pairs = s.pairs
      /\ s.unanswered = {}
      /\ s1.unanswered = {s1.entries[i].calls[k].id : k \in DOMAIN s1.entries[i].calls}
  BY DEF CallsAsked
<1>2. \A j, k : ~OpenCall(s, j, k)
  BY <1>1 DEF CallSide, OpenUnanswered
<1>3. \A k : <<i, k>> \notin s.pairs
  BY <1>1 DEF CallSide, CallsDiffer
<1>4. \A j, k : OpenCall(s1, j, k) => j = i /\ k \in DOMAIN s1.entries[i].calls
  <2> SUFFICES ASSUME NEW j, NEW k, OpenCall(s1, j, k), j # i PROVE FALSE
    BY DEF OpenCall
  <2>1. OpenCall(s, j, k)
    BY <1>1 DEF OpenCall
  <2> QED BY <1>2, <2>1
<1>5. \A k \in DOMAIN s1.entries[i].calls : OpenCall(s1, i, k)
  BY <1>1, <1>3 DEF OpenCall
<1>6. CallsDiffer(s1)
  <2>1. \A j \in Id : s1.entries[j] # None =>
          \A l, k \in DOMAIN s1.entries[j].calls :
            s1.entries[j].calls[l].id = s1.entries[j].calls[k].id => l = k
    BY <1>1 DEF CallSide, CallsDiffer, CallsAsked
  <2> QED BY <1>1, <2>1 DEF CallSide, CallsDiffer
<1>7. ToolsNameCalls(s1)
  <2>1. \A t \in Id : s.tools[t] # None => s.tools[t].assistant # i
    BY <1>1 DEF CallSide, ToolsNameCalls
  <2> QED BY <1>1, <2>1 DEF CallSide, ToolsNameCalls
<1>8. OpenUnanswered(s1)
  <2>1. \A k \in DOMAIN s1.entries[i].calls : s1.entries[i].calls[k].id \in s1.unanswered
    BY <1>1, Zenon
  <2>2. ASSUME NEW j, NEW k, OpenCall(s1, j, k)
        PROVE  s1.entries[j].calls[k].id \in s1.unanswered /\ \A l, m : OpenCall(s1, l, m) => l = j
    <3>1. j = i /\ k \in DOMAIN s1.entries[i].calls
      BY <1>4, <2>2, Zenon
    <3>2. \A l, m : OpenCall(s1, l, m) => l = i
      BY <1>4, Zenon
    <3> QED BY <2>1, <3>1, <3>2, Zenon
  <2> QED BY <2>2, Zenon DEF OpenUnanswered
<1>9. UnansweredOpen(s1)
  <2>1. \A c \in s1.unanswered : \E k \in DOMAIN s1.entries[i].calls : s1.entries[i].calls[k].id = c
    BY <1>1, Zenon
  <2> QED BY <1>5, <2>1, Zenon DEF UnansweredOpen
<1> QED BY <1>6, <1>7, <1>8, <1>9 DEF CallSide

(* A call that was not started is answered.                                 *)
LEMMA SkippedCallSide ==
  ASSUME NEW s, NEW s1, CallSide(s), ToolPaired(s), NEW a, NEW n, CallSkipped(s, s1, a, n)
  PROVE  CallSide(s1)
<1> DEFINE c == s.entries[a].calls[n].id
<1>1. /\ \A i \in Id : s.entries[i] # None => s1.entries[i] = s.entries[i]
      /\ \A i \in Id : \A k : s1.entries[i] # None /\ k \in DOMAIN s1.entries[i].calls
              => s.entries[i] # None /\ s1.entries[i] = s.entries[i]
  BY NoNewOpen DEF CallSkipped
<1>2. /\ a \in Id /\ s.entries[a] # None /\ n \in DOMAIN s.entries[a].calls
      /\ <<a, n>> \notin s.pairs
      /\ s1.tools = s.tools /\ s1.pairs = s.pairs \cup {<<a, n>>}
      /\ s1.unanswered = s.unanswered \ {c}
  BY DEF CallSkipped
<1>3. OpenCall(s, a, n)
  BY <1>2 DEF OpenCall
<1>4. \A t \in Id : s.tools[t] # None => <<s.tools[t].assistant, s.tools[t].index>> # <<a, n>>
  BY <1>2 DEF ToolPaired
<1>5. ~OpenCall(s1, a, n)
  BY <1>2, <1>4 DEF OpenCall
<1>6. \A i, k : OpenCall(s1, i, k) => OpenCall(s, i, k)
  BY <1>1, <1>2 DEF OpenCall
<1>7. \A i, k : OpenCall(s, i, k) /\ (i # a \/ k # n) => OpenCall(s1, i, k)
  BY <1>1, <1>2 DEF OpenCall
<1>8. \A i, k : OpenCall(s, i, k) => s1.entries[i] = s.entries[i]
  BY <1>1 DEF OpenCall
<1>9. CallsDiffer(s1)
  BY <1>1, <1>2 DEF CallSide, CallsDiffer
<1>10. ToolsNameCalls(s1)
  BY <1>1, <1>2 DEF CallSide, ToolsNameCalls
<1>11. OpenUnanswered(s1)
  <2> SUFFICES ASSUME NEW i, NEW k, OpenCall(s1, i, k)
               PROVE  /\ s1.entries[i].calls[k].id \in s1.unanswered
                      /\ \A j, l : OpenCall(s1, j, l) => j = i
    BY DEF OpenUnanswered
  <2>1. OpenCall(s, i, k) /\ i = a
    BY <1>3, <1>6 DEF CallSide, OpenUnanswered
  <2>2. s.entries[i].calls[k].id \in s.unanswered
    BY <2>1 DEF CallSide, OpenUnanswered
  <2>3. k # n
    BY <1>5, <2>1
  <2>4. s.entries[i].calls[k].id # c
    BY <1>2, <2>1, <2>3 DEF CallSide, CallsDiffer, OpenCall
  <2>5. \A j, l : OpenCall(s1, j, l) => j = i
    BY <1>6, <2>1 DEF CallSide, OpenUnanswered
  <2> QED BY <1>2, <1>8, <2>1, <2>2, <2>4, <2>5
<1>12. UnansweredOpen(s1)
  <2> SUFFICES ASSUME NEW d \in s1.unanswered
               PROVE  \E i, k : OpenCall(s1, i, k) /\ s1.entries[i].calls[k].id = d
    BY DEF UnansweredOpen
  <2>1. PICK i, k : OpenCall(s, i, k) /\ s.entries[i].calls[k].id = d
    BY <1>2 DEF CallSide, UnansweredOpen
  <2>2. i # a \/ k # n
    BY <1>2, <2>1
  <2> QED BY <1>7, <1>8, <2>1, <2>2
<1> QED BY <1>9, <1>10, <1>11, <1>12 DEF CallSide

(* A started tool has its result.                                           *)
LEMMA AnsweredCallSide ==
  ASSUME NEW s, NEW s1, s \in State, CallSide(s), ToolPaired(s), IntentsMatch(s), NEW t, CallAnswered(s, s1, t)
  PROVE  CallSide(s1)
<1> DEFINE a == s.tools[t].assistant
           n == s.tools[t].index
           c == s.tools[t].call
<1>1. /\ \A i \in Id : s.entries[i] # None => s1.entries[i] = s.entries[i]
      /\ \A i \in Id : \A k : s1.entries[i] # None /\ k \in DOMAIN s1.entries[i].calls
              => s.entries[i] # None /\ s1.entries[i] = s.entries[i]
  BY NoNewOpen DEF CallAnswered
<1>2. /\ t \in Id /\ s.tools[t] # None /\ s.tools[t].status = "pending"
      /\ s1.tools[t] # None /\ \A u \in Id : u # t => s1.tools[u] = s.tools[u]
      /\ s1.pairs = s.pairs /\ s1.unanswered = s.unanswered \ {c}
  BY DEF CallAnswered
<1>3. /\ s1.tools[t].assistant = a /\ s1.tools[t].index = n /\ s1.tools[t].call = c
      /\ s1.tools[t].status = "completed"
  <2>1. s.tools[t] \in ToolCallState
    BY <1>2, Fields
  <2> QED BY <2>1 DEF CallAnswered, ToolCallState
<1>4. /\ a \in Id /\ s.entries[a] # None /\ n \in DOMAIN s.entries[a].calls
      /\ s.entries[a].calls[n].id = c /\ <<a, n>> \in s.pairs
  BY <1>2 DEF CallSide, ToolsNameCalls, ToolPaired
<1>5. OpenCall(s, a, n)
  BY <1>2, <1>4 DEF OpenCall
<1>6. \A u \in Id : u # t /\ s.tools[u] # None =>
        s.tools[u].assistant # a \/ s.tools[u].index # n
  BY <1>2 DEF IntentsMatch
<1>7. ~OpenCall(s1, a, n)
  BY <1>2, <1>3, <1>4, <1>6 DEF OpenCall
<1>8. \A i, k : OpenCall(s1, i, k) => OpenCall(s, i, k)
  BY <1>1, <1>2, <1>3 DEF OpenCall
<1>9. \A i, k : OpenCall(s, i, k) /\ (i # a \/ k # n) => OpenCall(s1, i, k)
  BY <1>1, <1>2 DEF OpenCall
<1>10. \A i, k : OpenCall(s, i, k) => s1.entries[i] = s.entries[i]
  BY <1>1 DEF OpenCall
<1>11. CallsDiffer(s1)
  BY <1>1, <1>2 DEF CallSide, CallsDiffer
<1>12. ToolsNameCalls(s1)
  <2> SUFFICES ASSUME NEW u \in Id, s1.tools[u] # None
               PROVE  /\ s1.tools[u].assistant \in Id /\ s1.entries[s1.tools[u].assistant] # None
                      /\ s1.tools[u].index \in DOMAIN s1.entries[s1.tools[u].assistant].calls
                      /\ s1.entries[s1.tools[u].assistant].calls[s1.tools[u].index].id
                           = s1.tools[u].call
    BY DEF ToolsNameCalls
  <2>1. CASE u = t
    BY <1>1, <1>3, <1>4, <2>1
  <2>2. CASE u # t
    <3>1. s1.tools[u] = s.tools[u] /\ s.tools[u] # None
      BY <1>2, <2>2
    <3>2. /\ s.tools[u].assistant \in Id /\ s.entries[s.tools[u].assistant] # None
          /\ s.tools[u].index \in DOMAIN s.entries[s.tools[u].assistant].calls
          /\ s.entries[s.tools[u].assistant].calls[s.tools[u].index].id = s.tools[u].call
      BY <3>1, Zenon DEF CallSide, ToolsNameCalls
    <3>3. s1.entries[s.tools[u].assistant] = s.entries[s.tools[u].assistant]
      BY <1>1, <3>2, Zenon
    <3> QED BY <3>1, <3>2, <3>3, Zenon
  <2> QED BY <2>1, <2>2
<1>13. OpenUnanswered(s1)
  <2> SUFFICES ASSUME NEW i, NEW k, OpenCall(s1, i, k)
               PROVE  /\ s1.entries[i].calls[k].id \in s1.unanswered
                      /\ \A j, l : OpenCall(s1, j, l) => j = i
    BY DEF OpenUnanswered
  <2>1. OpenCall(s, i, k) /\ i = a
    BY <1>5, <1>8 DEF CallSide, OpenUnanswered
  <2>2. s.entries[i].calls[k].id \in s.unanswered
    BY <2>1 DEF CallSide, OpenUnanswered
  <2>3. k # n
    BY <1>7, <2>1
  <2>4. s.entries[i].calls[k].id # c
    BY <1>4, <2>1, <2>3 DEF CallSide, CallsDiffer, OpenCall
  <2>5. \A j, l : OpenCall(s1, j, l) => j = i
    BY <1>8, <2>1 DEF CallSide, OpenUnanswered
  <2> QED BY <1>2, <1>10, <2>1, <2>2, <2>4, <2>5
<1>14. UnansweredOpen(s1)
  <2> SUFFICES ASSUME NEW d \in s1.unanswered
               PROVE  \E i, k : OpenCall(s1, i, k) /\ s1.entries[i].calls[k].id = d
    BY DEF UnansweredOpen
  <2>1. PICK i, k : OpenCall(s, i, k) /\ s.entries[i].calls[k].id = d
    BY <1>2 DEF CallSide, UnansweredOpen
  <2>2. i # a \/ k # n
    BY <1>2, <1>4, <2>1
  <2> QED BY <1>9, <1>10, <2>1, <2>2
<1> QED BY <1>11, <1>12, <1>13, <1>14 DEF CallSide

(* A call is started: it is pending instead of not started.                 *)
LEMMA StartedCallSide ==
  ASSUME NEW s, NEW s1, CallSide(s), NEW t, CallStarted(s, s1, t)
  PROVE  CallSide(s1)
<1> DEFINE a == s1.tools[t].assistant
           n == s1.tools[t].index
<1>1. /\ s1.entries = s.entries /\ s1.unanswered = s.unanswered
      /\ t \in Id /\ s.tools[t] = None /\ s1.tools[t] # None
      /\ \A u \in Id : u # t => s1.tools[u] = s.tools[u]
      /\ s1.tools[t].status = "pending"
      /\ s1.pairs = s.pairs \cup {<<a, n>>}
  BY DEF CallStarted
<1>2. /\ a \in Id /\ s.entries[a] # None /\ n \in DOMAIN s.entries[a].calls
      /\ s.entries[a].calls[n].id = s1.tools[t].call /\ <<a, n>> \notin s.pairs
  BY DEF CallStarted
<1>3. OpenCall(s, a, n) /\ OpenCall(s1, a, n)
  BY <1>1, <1>2 DEF OpenCall
<1>4. \A i, k : OpenCall(s1, i, k) => OpenCall(s, i, k)
  BY <1>1, <1>3 DEF OpenCall
<1>5. \A i, k : OpenCall(s, i, k) => OpenCall(s1, i, k)
  <2> SUFFICES ASSUME NEW i, NEW k, OpenCall(s, i, k), ~(i = a /\ k = n) PROVE OpenCall(s1, i, k)
    BY <1>3
  <2> QED BY <1>1 DEF OpenCall
<1>6. CallsDiffer(s1)
  BY <1>1, <1>2 DEF CallSide, CallsDiffer
<1>7. ToolsNameCalls(s1)
  BY <1>1, <1>2 DEF CallSide, ToolsNameCalls
<1>8. OpenUnanswered(s1)
  BY <1>1, <1>4 DEF CallSide, OpenUnanswered
<1>9. UnansweredOpen(s1)
  BY <1>1, <1>5 DEF CallSide, UnansweredOpen
<1> QED BY <1>6, <1>7, <1>8, <1>9 DEF CallSide

(* No fact loses a call or answers one twice.                               *)
LEMMA CallsCallSide ==
  ASSUME NEW s, NEW s1, Sound(s), Ledger(s), CallSide(s), Calls(s, s1)
  PROVE  CallSide(s1)
<1>1. s \in State /\ ToolPaired(s) /\ IntentsMatch(s)
  BY DEF Sound, Ledger, ToolSide
<1> QED BY <1>1, KeptCallSide, AskedCallSide, SkippedCallSide, AnsweredCallSide, StartedCallSide
        DEF Calls


-----------------------------------------------------------------------------
(* Answers and their attempts *)

(* A settled attempt is closed, and what settled it is its own answer.      *)
SettledSide(s) ==
  \A a \in Id : s.attempts[a] # None /\ s.attempts[a].settled # None =>
    /\ s.attempts[a].closed
    /\ s.attempts[a].settled \in Id
    /\ s.entries[s.attempts[a].settled] # None
    /\ s.entries[s.attempts[a].settled].attempt = a

(* The attempts that have an answer.                                        *)
SettledAttempts(s) == {a \in Id : s.attempts[a] # None /\ s.attempts[a].settled # None}

(* No entry is lost or changed.                                             *)
LEMMA MessagesPersist ==
  ASSUME NEW s, NEW s1, Sound(s), Ledger(s), Messages(s, s1)
  PROVE  /\ EntriesPersist(s, s1)
         /\ \A i \in Id : s.use[i] = "used" => s1.use[i] = "used"
<1>0. /\ Written(s) /\ s.use \in [Id -> Use] /\ s.entries \in [Id -> Entry \cup {None}]
      /\ s \in State
  BY Fields DEF Sound, Ledger, AnswerSide
<1>1. CASE Silent(s, s1)
  BY <1>1 DEF Silent, EntriesPersist
<1>2. CASE \E i, e : Pushed(s, s1, i, e)
  <2>1. PICK i, e : Pushed(s, s1, i, e)
    BY <1>2
  <2>2. i \in Id /\ s.use[i] # "used" /\ MessagesOf(s1, Push(s, i, e))
    BY <2>1 DEF Pushed
  <2>3. /\ Push(s, i, e).use = [s.use EXCEPT ![i] = "used"]
        /\ Push(s, i, e).entries = [s.entries EXCEPT ![i] = e]
    BY <1>0, <2>2, PushFields
  <2>4. /\ s1.use = [s.use EXCEPT ![i] = "used"]
        /\ s1.entries = [s.entries EXCEPT ![i] = e]
    BY <2>2, <2>3 DEF MessagesOf
  <2>5. s.entries[i] = None
    BY <1>0, <2>2 DEF Written
  <2> QED BY <1>0, <2>2, <2>4, <2>5 DEF EntriesPersist
<1>3. CASE \E i, e, through : Summarised(s, s1, i, e, through)
  <2>1. PICK i, e, through : Summarised(s, s1, i, e, through)
    BY <1>3
  <2>2. /\ i \in Id /\ s.use[i] # "used"
        /\ s1.use = [s.use EXCEPT ![i] = "used"]
        /\ s1.entries = [s.entries EXCEPT ![i] = e]
    BY <2>1 DEF Summarised
  <2>3. s.entries[i] = None
    BY <1>0, <2>2 DEF Written
  <2> QED BY <1>0, <2>2, <2>3 DEF EntriesPersist
<1> QED BY <1>1, <1>2, <1>3 DEF Messages

(* The attempts of s1 are those of s, except that a may be settled by its   *)
(* answer.                                                                  *)
Settles(s, s1, a) ==
  /\ a \in Id /\ s.attempts[a] # None /\ ~s.attempts[a].closed
  /\ s1.attempts[a] # None /\ s1.attempts[a].closed /\ s1.attempts[a].settled \in Id
  /\ s1.entries[s1.attempts[a].settled] # None
  /\ s1.entries[s1.attempts[a].settled].attempt = a
  /\ \A b \in Id : b # a => s1.attempts[b] = s.attempts[b]

(* No attempt is settled, and none is lost or opened again.                 *)
SettlesNone(s, s1) ==
  /\ \A b \in Id : s.attempts[b] # None =>
       /\ s1.attempts[b] # None
       /\ s1.attempts[b].settled = s.attempts[b].settled
       /\ s.attempts[b].closed => s1.attempts[b].closed
  /\ \A b \in Id : s1.attempts[b] # None /\ s.attempts[b] = None => s1.attempts[b].settled = None

(* An answer settles its attempt.                                           *)
LEMMA AnswerSettles ==
  ASSUME NEW s, NEW s1, Sound(s), AddsAssistant(s, s1)
  PROVE  \E a : Settles(s, s1, a)
<1>1. PICK i, a, e, info : AnswerAdded(s, s1, i, a, e, info)
  BY AnswerEffect
<1>2. AttemptEnded(s, s1, a, info, "settled") /\ info.settled = i
      /\ i \in Id /\ e \in Entry /\ e.attempt = a
      /\ s1.entries = [s.entries EXCEPT ![i] = e]
  BY <1>1 DEF AnswerAdded
<1>3. \A b \in Id : s1.attempts[b] = IF b = a THEN info ELSE s.attempts[b]
  BY <1>2, PersistClosing
<1>4. /\ a \in Id /\ s.attempts[a] # None /\ ~s.attempts[a].closed
      /\ info \in AttemptInfo /\ info.closed
  BY <1>2 DEF AttemptEnded
<1>5. s1.entries[i] = e /\ e # None /\ info # None
  BY <1>2, <1>4, Fields, NoneAssumption DEF Sound
<1>6. Settles(s, s1, a)
  BY <1>2, <1>3, <1>4, <1>5 DEF Settles
<1> QED BY <1>6

(* So does a summary.                                                       *)
LEMMA SummarySettles ==
  ASSUME NEW s, NEW s1, Sound(s), Ledger(s), AddsCompaction(s, s1)
  PROVE  \E a : Settles(s, s1, a)
<1>0. OpenIsCurrent(s)
  BY DEF Ledger, AttemptSide
<1>1. PICK i, a, e, info : SummaryAdded(s, s1, i, a, e, info)
  BY <1>0, SummaryEffect
<1>2. AttemptEnded(s, s1, a, info, "settled") /\ info.settled = i
      /\ i \in Id /\ e.attempt = a
      /\ e \in [attempt : Id, op : Id, type : {"compaction"}, calls : Seq(Call), stop : {"none"},
                step : Id, text : BOOLEAN, call : {None}]
      /\ s1.entries = [s.entries EXCEPT ![i] = e]
  BY <1>1 DEF SummaryAdded
<1>3. \A b \in Id : s1.attempts[b] = IF b = a THEN info ELSE s.attempts[b]
  BY <1>2, PersistClosing
<1>4. /\ a \in Id /\ s.attempts[a] # None /\ ~s.attempts[a].closed
      /\ info \in AttemptInfo /\ info.closed
  BY <1>2 DEF AttemptEnded
<1>5. e \in Entry
  BY <1>2 DEF Entry
<1>6. s1.entries[i] = e /\ e # None /\ info # None
  BY <1>2, <1>4, <1>5, Fields, NoneAssumption DEF Sound
<1>7. Settles(s, s1, a)
  BY <1>2, <1>3, <1>4, <1>6 DEF Settles
<1> QED BY <1>7

(* No other fact does.                                                      *)
LEMMA OthersSettleNone ==
  ASSUME NEW s, NEW s1, Sound(s), Ledger(s),
         \/ AddsUser(s, s1) \/ AddsSynthetic(s, s1) \/ AddsResult(s, s1)
         \/ AddsRunStarted(s, s1) \/ AddsCompactionStarted(s, s1)
         \/ AddsStepAttempt(s, s1) \/ AddsStepFailed(s, s1)
         \/ AddsToolStarted(s, s1) \/ AddsAbortRequested(s, s1)
         \/ AddsOperationFinished(s, s1) \/ AddsUsage(s, s1)
  PROVE  SettlesNone(s, s1)
<1>0. ASSUME s1.attempts = s.attempts PROVE SettlesNone(s, s1)
  BY <1>0 DEF SettlesNone
<1>1. CASE AddsUser(s, s1) \/ AddsSynthetic(s, s1)
  <2>1. \E i, e : MessageAdded(s, s1, i, e)
    BY <1>1, UserEffect, SyntheticEffect
  <2> QED BY <1>0, <2>1 DEF MessageAdded, SameOperations
<1>2. CASE AddsResult(s, s1)
  <2>1. \E t, e, done : ResultAdded(s, s1, t, e, done)
    BY <1>2, ResultEffect
  <2> QED BY <1>0, <2>1 DEF ResultAdded, SameOperations
<1>3. CASE AddsRunStarted(s, s1) \/ AddsCompactionStarted(s, s1)
  <2>1. \E op, info : OperationAdded(s, s1, op, info)
    BY <1>3, RunStartedEffect, CompactionStartedEffect
  <2> QED BY <1>0, <2>1 DEF OperationAdded
<1>4. CASE AddsStepAttempt(s, s1)
  <2>1. PICK op, step, attempt, new, info : AttemptAdded(s, s1, op, step, attempt, new, info)
    BY <1>4, StepAttemptEffect
  <2>2. AttemptKept(s, s1, op, step, attempt, new, info)
    BY <2>1, SteppedKeeps, Zenon DEF Ledger
  <2>3. \A b \in Id : s.attempts[b] # None =>
          /\ s1.attempts[b] # None
          /\ s1.attempts[b].settled = s.attempts[b].settled
          /\ s.attempts[b].closed => s1.attempts[b].closed
    <3> SUFFICES ASSUME NEW b \in Id, s.attempts[b] # None
                 PROVE  /\ s1.attempts[b] # None
                        /\ s1.attempts[b].settled = s.attempts[b].settled
                        /\ s.attempts[b].closed => s1.attempts[b].closed
      OBVIOUS
    <3>1. /\ b # attempt /\ s1.attempts[b] # None
          /\ s1.attempts[b].settled = s.attempts[b].settled
          /\ b \in AttemptsOfStep(s, step) => s1.attempts[b].closed
          /\ b \notin AttemptsOfStep(s, step) => s1.attempts[b] = s.attempts[b]
      BY <2>2 DEF AttemptKept
    <3> QED BY <3>1
  <2>4. \A b \in Id : s1.attempts[b] # None /\ s.attempts[b] = None => s1.attempts[b].settled = None
    BY <2>2 DEF AttemptKept
  <2> QED BY <2>3, <2>4 DEF SettlesNone
<1>5. CASE AddsStepFailed(s, s1)
  <2>1. PICK a, info : FailureAdded(s, s1, a, info)
    BY <1>5, FailureEffect
  <2>2. AttemptEnded(s, s1, a, info, "failed") /\ info.settled = s.attempts[a].settled
    BY <2>1 DEF FailureAdded
  <2>3. \A b \in Id : s1.attempts[b] = IF b = a THEN info ELSE s.attempts[b]
    BY <2>2, PersistClosing
  <2>4. info # None /\ info.closed /\ a \in Id /\ s.attempts[a] # None
    BY <2>2, NoneAssumption DEF AttemptEnded
  <2> QED BY <2>2, <2>3, <2>4 DEF SettlesNone
<1>6. CASE AddsToolStarted(s, s1)
  <2>1. \E t, tool : ToolAdded(s, s1, t, tool)
    BY <1>6, ToolStartedEffect
  <2> QED BY <1>0, <2>1 DEF ToolAdded, SameOperations
<1>7. CASE AddsAbortRequested(s, s1)
  BY <1>0, <1>7, AbortEffect DEF AbortAdded
<1>8. CASE AddsOperationFinished(s, s1)
  <2>1. \E op, final, how, info : FinishAdded(s, s1, op, final, how, info)
    BY <1>8, FinishEffect
  <2> QED BY <1>0, <2>1 DEF FinishAdded
<1>9. CASE AddsUsage(s, s1)
  BY <1>0, <1>9, UsageEffect DEF SameOperations
<1> QED BY <1>1, <1>2, <1>3, <1>4, <1>5, <1>6, <1>7, <1>8, <1>9

(* Nothing is settled in an empty session.                                  *)
LEMMA InitialSettled == SettledSide(InitialState) /\ SettledAttempts(InitialState) = {}
BY DEF InitialState, SettledSide, SettledAttempts

(* An answer is charged to the attempt it settles, and to no other.         *)
LEMMA SettlesSide ==
  ASSUME NEW s, NEW s1, SettledSide(s), EntriesPersist(s, s1), NEW a, Settles(s, s1, a)
  PROVE  /\ SettledSide(s1)
         /\ a \in Id \ SettledAttempts(s)
         /\ SettledAttempts(s1) = SettledAttempts(s) \cup {a}
<1>0. s.attempts[a].settled = None
  BY DEF SettledSide, Settles
<1>1. SettledSide(s1)
  <2> SUFFICES ASSUME NEW b \in Id, s1.attempts[b] # None, s1.attempts[b].settled # None
               PROVE  /\ s1.attempts[b].closed /\ s1.attempts[b].settled \in Id
                      /\ s1.entries[s1.attempts[b].settled] # None
                      /\ s1.entries[s1.attempts[b].settled].attempt = b
    BY DEF SettledSide
  <2>1. CASE b = a
    BY <2>1 DEF Settles
  <2>2. CASE b # a
    <3>1. s1.attempts[b] = s.attempts[b]
      BY <2>2 DEF Settles
    <3>2. /\ s.attempts[b].closed /\ s.attempts[b].settled \in Id
          /\ s.entries[s.attempts[b].settled] # None
          /\ s.entries[s.attempts[b].settled].attempt = b
      BY <3>1 DEF SettledSide
    <3> QED BY <3>1, <3>2 DEF EntriesPersist
  <2> QED BY <2>1, <2>2
<1>2. a \in Id \ SettledAttempts(s)
  BY <1>0 DEF SettledAttempts, Settles
<1>3. SettledAttempts(s1) = SettledAttempts(s) \cup {a}
  <2>1. a \in SettledAttempts(s1)
    BY NoneAssumption DEF SettledAttempts, Settles
  <2>2. \A b \in Id : b # a => (b \in SettledAttempts(s1) <=> b \in SettledAttempts(s))
    BY DEF SettledAttempts, Settles
  <2>3. SettledAttempts(s) \subseteq Id /\ SettledAttempts(s1) \subseteq Id
    BY DEF SettledAttempts
  <2> QED BY <1>2, <2>1, <2>2, <2>3
<1> QED BY <1>1, <1>2, <1>3

(* Without an answer nothing is to be charged.                              *)
LEMMA SettlesNoneSide ==
  ASSUME NEW s, NEW s1, SettledSide(s), EntriesPersist(s, s1), SettlesNone(s, s1)
  PROVE  SettledSide(s1) /\ SettledAttempts(s1) = SettledAttempts(s)
<1>1. SettledSide(s1)
  <2> SUFFICES ASSUME NEW b \in Id, s1.attempts[b] # None, s1.attempts[b].settled # None
               PROVE  /\ s1.attempts[b].closed /\ s1.attempts[b].settled \in Id
                      /\ s1.entries[s1.attempts[b].settled] # None
                      /\ s1.entries[s1.attempts[b].settled].attempt = b
    BY DEF SettledSide
  <2>1. /\ s.attempts[b] # None /\ s1.attempts[b].settled = s.attempts[b].settled
        /\ s.attempts[b].closed => s1.attempts[b].closed
    BY DEF SettlesNone
  <2>2. /\ s.attempts[b].closed /\ s.attempts[b].settled \in Id
        /\ s.entries[s.attempts[b].settled] # None
        /\ s.entries[s.attempts[b].settled].attempt = b
    BY <2>1 DEF SettledSide
  <2> QED BY <2>1, <2>2 DEF EntriesPersist
<1>2. \A b \in Id : b \in SettledAttempts(s1) <=> b \in SettledAttempts(s)
  BY DEF SettledAttempts, SettlesNone
<1>3. SettledAttempts(s) \subseteq Id /\ SettledAttempts(s1) \subseteq Id
  BY DEF SettledAttempts
<1> QED BY <1>1, <1>2, <1>3


-----------------------------------------------------------------------------
(* The order of the entries *)

(* Each entry is in the file once, and the messages are in its order.       *)
OrderSide(s) ==
  /\ \A k \in DOMAIN s.order : s.entries[s.order[k]] # None
  /\ \A j, k \in DOMAIN s.order : s.order[j] = s.order[k] => j = k
  /\ \A n \in DOMAIN s.transcript : s.entries[s.transcript[n]] # None
  /\ \A n \in DOMAIN s.transcript : \E k \in DOMAIN s.order : s.order[k] = s.transcript[n]
  /\ \A m, n \in DOMAIN s.transcript : \A j, k \in DOMAIN s.order :
       m < n /\ s.order[j] = s.transcript[m] /\ s.order[k] = s.transcript[n] => j < k

(* An entry without a place in the file is added at its end.                *)
OrderAdded(s, s1, i) ==
  /\ i \in Id /\ s.entries[i] = None /\ s1.entries[i] # None
  /\ \A j \in Id : j # i => s1.entries[j] = s.entries[j]
  /\ s1.order = Append(s.order, i)
  /\ s1.transcript = s.transcript \/ s1.transcript = Append(s.transcript, i)

(* It has a place of its own, after the messages before it.                *)
LEMMA AddedOrderSide ==
  ASSUME NEW s, NEW s1, s \in State, OrderSide(s), NEW i, OrderAdded(s, s1, i)
  PROVE  OrderSide(s1)
<1> DEFINE L == Len(s.order)
           M == Len(s.transcript)
<1>1. /\ s.order \in Seq(Id) /\ s.transcript \in Seq(Id)
      /\ L \in Nat /\ DOMAIN s.order = 1..L
      /\ M \in Nat /\ DOMAIN s.transcript = 1..M
  BY Fields
<1>2. /\ DOMAIN s1.order = 1..(L + 1) /\ s1.order[L + 1] = i
      /\ \A k \in 1..L : s1.order[k] = s.order[k]
  BY <1>1 DEF OrderAdded
<1>3. /\ i \in Id /\ s.entries[i] = None /\ s1.entries[i] # None
      /\ \A j \in Id : j # i => s1.entries[j] = s.entries[j]
  BY DEF OrderAdded
<1>a. /\ \A k \in 1..L : s.entries[s.order[k]] # None
      /\ \A j, k \in 1..L : s.order[j] = s.order[k] => j = k
      /\ \A n \in 1..M : s.entries[s.transcript[n]] # None
  BY <1>1 DEF OrderSide
<1>d. \A m, n \in 1..M : \A j, k \in 1..L :
        m < n /\ s.order[j] = s.transcript[m] /\ s.order[k] = s.transcript[n] => j < k
  BY <1>1 DEF OrderSide
<1>4. /\ \A k \in 1..L : s.order[k] \in Id /\ s.order[k] # i
      /\ \A n \in 1..M : s.transcript[n] \in Id /\ s.transcript[n] # i
  BY <1>1, <1>3, <1>a
<1>5. \A k \in DOMAIN s1.order : s1.entries[s1.order[k]] # None
  BY <1>1, <1>2, <1>3, <1>4, <1>a
<1>6. ASSUME NEW j \in 1..(L + 1), NEW k \in 1..(L + 1), s1.order[j] = s1.order[k]
      PROVE  j = k
  <2>1. (j \in 1..L \/ j = L + 1) /\ (k \in 1..L \/ k = L + 1)
    BY <1>1
  <2> QED BY <1>2, <1>4, <1>6, <1>a, <2>1
<1>b. \A j, k \in DOMAIN s1.order : s1.order[j] = s1.order[k] => j = k
  BY <1>2, <1>6
<1>c. \A n \in 1..M : s1.entries[s.transcript[n]] # None
  <2> SUFFICES ASSUME NEW n \in 1..M PROVE s1.entries[s.transcript[n]] # None
    OBVIOUS
  <2>1. s.transcript[n] \in Id /\ s.transcript[n] # i
    BY <1>4
  <2> QED BY <1>3, <1>a, <2>1
<1>7. ASSUME NEW n \in 1..M
      PROVE  \E k \in DOMAIN s1.order : k \in 1..L /\ s1.order[k] = s.transcript[n]
  <2>1. PICK k \in 1..L : s.order[k] = s.transcript[n]
    BY <1>1 DEF OrderSide
  <2> QED BY <1>1, <1>2, <2>1
<1>8. ASSUME NEW m \in 1..M, NEW n \in 1..M, NEW j \in 1..(L + 1), NEW k \in 1..(L + 1),
             m < n, s1.order[j] = s.transcript[m], s1.order[k] = s.transcript[n]
      PROVE  j < k
  <2>0. (j \in 1..L \/ j = L + 1) /\ (k \in 1..L \/ k = L + 1)
    BY <1>1
  <2>1. j \in 1..L /\ k \in 1..L
    BY <1>2, <1>4, <1>8, <2>0
  <2>2. s.order[j] = s.transcript[m] /\ s.order[k] = s.transcript[n]
    BY <1>2, <1>8, <2>1
  <2> QED BY <1>8, <1>d, <2>1, <2>2
<1>9. CASE s1.transcript = s.transcript
  <2>1. \A n \in DOMAIN s1.transcript : s1.entries[s1.transcript[n]] # None
    BY <1>1, <1>9, <1>c
  <2>2. \A n \in DOMAIN s1.transcript : \E k \in DOMAIN s1.order : s1.order[k] = s1.transcript[n]
    BY <1>1, <1>7, <1>9
  <2>3. \A m, n \in DOMAIN s1.transcript : \A j, k \in DOMAIN s1.order :
          m < n /\ s1.order[j] = s1.transcript[m] /\ s1.order[k] = s1.transcript[n] => j < k
    BY <1>1, <1>2, <1>8, <1>9
  <2> QED BY <1>5, <1>b, <2>1, <2>2, <2>3 DEF OrderSide
<1>10. CASE s1.transcript = Append(s.transcript, i)
  <2>1. /\ DOMAIN s1.transcript = 1..(M + 1) /\ s1.transcript[M + 1] = i
        /\ \A n \in 1..M : s1.transcript[n] = s.transcript[n]
    BY <1>1, <1>3, <1>10
  <2>2. \A n \in DOMAIN s1.transcript : s1.entries[s1.transcript[n]] # None
    <3> SUFFICES ASSUME NEW n \in 1..(M + 1) PROVE s1.entries[s1.transcript[n]] # None
      BY <2>1
    <3>1. n \in 1..M \/ n = M + 1
      BY <1>1
    <3> QED BY <1>3, <1>c, <2>1, <3>1
  <2>3. \A n \in DOMAIN s1.transcript : \E k \in DOMAIN s1.order : s1.order[k] = s1.transcript[n]
    <3> SUFFICES ASSUME NEW n \in 1..(M + 1)
                 PROVE  \E k \in DOMAIN s1.order : s1.order[k] = s1.transcript[n]
      BY <2>1
    <3>1. CASE n \in 1..M
      BY <1>7, <2>1, <3>1
    <3>2. CASE n = M + 1
      BY <1>1, <1>2, <2>1, <3>2
    <3> QED BY <1>1, <3>1, <3>2
  <2>4. ASSUME NEW m \in 1..(M + 1), NEW n \in 1..(M + 1),
               NEW j \in 1..(L + 1), NEW k \in 1..(L + 1),
               m < n, s1.order[j] = s1.transcript[m], s1.order[k] = s1.transcript[n]
        PROVE  j < k
    <3>1. m \in 1..M
      BY <1>1, <2>4
    <3>2. CASE n \in 1..M
      BY <1>8, <2>1, <2>4, <3>1, <3>2
    <3>3. CASE n = M + 1
      <4>0. /\ j \in 1..L \/ j = L + 1
            /\ k \in 1..L \/ k = L + 1
        BY <1>1, <1>2
      <4>1. s1.order[k] = i /\ s1.order[j] = s.transcript[m]
        BY <2>1, <2>4, <3>1, <3>3
      <4>2. k = L + 1
        BY <1>2, <1>4, <4>0, <4>1
      <4>3. j # L + 1
        BY <1>2, <1>4, <3>1, <4>1
      <4> QED BY <1>1, <4>0, <4>2, <4>3
    <3> QED BY <1>1, <3>2, <3>3
  <2>5. \A m, n \in DOMAIN s1.transcript : \A j, k \in DOMAIN s1.order :
          m < n /\ s1.order[j] = s1.transcript[m] /\ s1.order[k] = s1.transcript[n] => j < k
    BY <1>2, <2>1, <2>4
  <2> QED BY <1>5, <1>b, <2>2, <2>3, <2>5 DEF OrderSide
<1> QED BY <1>9, <1>10 DEF OrderAdded

(* The entries of an empty session are in order.                            *)
LEMMA InitialOrder == OrderSide(InitialState)
<1>1. DOMAIN InitialState.order = {} /\ DOMAIN InitialState.transcript = {}
  BY DEF InitialState
<1> QED BY <1>1 DEF OrderSide

(* Whatever a fact adds to the file comes last.                             *)
LEMMA MessagesOrder ==
  ASSUME NEW s, NEW s1, Sound(s), Ledger(s), OrderSide(s), Messages(s, s1)
  PROVE  OrderSide(s1)
<1>0. /\ Written(s) /\ s.entries \in [Id -> Entry \cup {None}] /\ s \in State
  BY Fields DEF Sound, Ledger, AnswerSide
<1>1. CASE Silent(s, s1)
  <2>1. /\ s1.entries = s.entries /\ s1.order = s.order /\ s1.transcript = s.transcript
    BY <1>1 DEF Silent
  <2> QED BY <2>1 DEF OrderSide
<1>2. CASE \E i, e : Pushed(s, s1, i, e)
  <2>1. PICK i, e : Pushed(s, s1, i, e)
    BY <1>2
  <2>2. i \in Id /\ e \in Entry /\ s.use[i] # "used" /\ MessagesOf(s1, Push(s, i, e))
    BY <2>1 DEF Pushed
  <2>3. /\ Push(s, i, e).entries = [s.entries EXCEPT ![i] = e]
        /\ Push(s, i, e).order = Append(s.order, i)
        /\ Push(s, i, e).transcript = Append(s.transcript, i)
    BY <1>0, <2>2, Zenon DEF Push, State
  <2>4. s.entries[i] = None /\ e # None
    BY <1>0, <2>2, NoneAssumption DEF Written
  <2>5. OrderAdded(s, s1, i)
    BY <1>0, <2>2, <2>3, <2>4 DEF OrderAdded, MessagesOf
  <2> QED BY <1>0, <2>5, AddedOrderSide
<1>3. CASE \E i, e, through : Summarised(s, s1, i, e, through)
  <2>1. PICK i, e, through : Summarised(s, s1, i, e, through)
    BY <1>3
  <2>2. /\ i \in Id /\ e \in Entry /\ s.use[i] # "used"
        /\ s1.entries = [s.entries EXCEPT ![i] = e]
        /\ s1.order = Append(s.order, i) /\ s1.transcript = s.transcript
    BY <2>1 DEF Summarised
  <2>3. s.entries[i] = None /\ e # None
    BY <1>0, <2>2, NoneAssumption DEF Written
  <2>4. OrderAdded(s, s1, i)
    BY <1>0, <2>2, <2>3 DEF OrderAdded
  <2> QED BY <1>0, <2>4, AddedOrderSide
<1> QED BY <1>1, <1>2, <1>3 DEF Messages

(* An entry is at its position.                                             *)
LEMMA AtPosition ==
  ASSUME NEW s, OrderSide(s), NEW k \in DOMAIN s.order
  PROVE  Position(s, s.order[k]) = k
BY Zenon DEF Position, OrderSide

(* All messages are at the last one or before it.                           *)
LEMMA ThroughLast ==
  ASSUME NEW s, s \in State, OrderSide(s), s.transcript # << >>
  PROVE  Through(s, s.transcript[Len(s.transcript)]) = Len(s.transcript)
<1> DEFINE M == Len(s.transcript)
           S == {n \in DOMAIN s.transcript :
                   Position(s, s.transcript[n]) <= Position(s, s.transcript[M])}
<1>1. /\ s.transcript \in Seq(Id) /\ M \in Nat /\ DOMAIN s.transcript = 1..M
      /\ DOMAIN s.order \subseteq Nat
  BY Fields
<1>2. M \in 1..M
  BY <1>1
<1>3. PICK k \in DOMAIN s.order : s.order[k] = s.transcript[M]
  BY <1>1, <1>2 DEF OrderSide
<1>4. ASSUME NEW n \in 1..M
      PROVE  Position(s, s.transcript[n]) <= Position(s, s.transcript[M])
  <2>1. PICK j \in DOMAIN s.order : s.order[j] = s.transcript[n]
    BY <1>1 DEF OrderSide
  <2>2. Position(s, s.transcript[n]) = j /\ Position(s, s.transcript[M]) = k
    BY <1>3, <2>1, AtPosition
  <2>3. CASE n < M
    <3>1. j < k
      BY <1>1, <1>2, <1>3, <2>1, <2>3 DEF OrderSide
    <3> QED BY <1>1, <2>2, <3>1
  <2>4. CASE n = M
    <3>1. Position(s, s.transcript[M]) \in Nat
      BY <1>1, <2>2
    <3> QED BY <2>4, <3>1
  <2> QED BY <1>1, <2>3, <2>4
<1>5. S = 1..M
  BY <1>1, <1>4
<1>6. Cardinality(1..M) = M
  <2>1. Cardinality(1..M) = IF 1 > M THEN 0 ELSE M - 1 + 1
    BY <1>1, FS_Interval
  <2> QED BY <1>1, <1>2, <2>1
<1> QED BY <1>5, <1>6 DEF Through


-----------------------------------------------------------------------------
(* Facts of the right shape *)

UserFacts == [type: {"user"}, id: Id]
AssistantFacts ==
  [type: {"assistant"}, id: Id, step: Id, attempt: Id, stop: Stop, calls: Seq(Call), text: BOOLEAN]
SyntheticFacts ==
  [type: {"synthetic"}, id: Id, step: Id, assistant: Id, index: Nat, call: CallId, name: ToolName]
ResultFacts == [type: {"result"}, id: Id, step: Id, started: Id, call: CallId]
SummaryFacts == [type: {"compaction"}, id: Id, op: Id, through: Id, retained: Seq(Id)]
RunFacts == [type: {"runStarted"}, op: Id, input: Id]
CompactionFacts == [type: {"compactionStarted"}, op: Id, input: Id, result: Id, source: Seq(Id)]
AttemptFacts ==
  [type: {"stepAttempt"}, op: Id, step: Id, attempt: Id, kind: {"run", "compaction"},
   number: 1..2, context: Id, config: ConfigurationSnapshot]
FailureFacts == [type: {"stepFailed"}, op: Id, step: Id, attempt: Id]
ToolFacts ==
  [type: {"toolStarted"}, id: Id, op: Id, step: Id, assistant: Id, index: Nat,
   call: CallId, name: ToolName, args: Arguments, replay: {"safe", "never"}, key: ReplayKey,
   env: Environment, result: Id]
AbortFacts ==
  [type: {"abortRequested"}, op: Id, kind: {"run", "compaction"},
   phase: {"model", "tool", "compact"}, call: CallId \cup {None}]
FinishFacts ==
  [type: {"operationFinished"}, op: Id, kind: {"run", "compaction"}, outcome: Outcome,
   final: Id \cup {None}]
UsageFacts == [type: {"usage"}, op: Id, owner: Id, amount: Nat]

(* A fact of each type that is accepted is one of those the lemmas above    *)
(* speak of: what it names in the session is as the session has it.         *)
LEMMA UserFactAdds ==
  ASSUME NEW s, NEW s1, NEW f \in UserFacts, Reduces(s, s1, f)
  PROVE  AddsUser(s, s1)
<1>1. f.type = "user" /\ f.id \in Id /\ f = [type |-> "user", id |-> f.id]
  BY DEF UserFacts
<1>2. ReducesUser(s, s1, f)
  BY <1>1, Reduced
<1> QED BY <1>1, <1>2 DEF AddsUser

(* An answer names the step of its attempt.                                 *)
LEMMA AssistantFactAdds ==
  ASSUME NEW s, NEW s1, NEW f \in AssistantFacts, Reduces(s, s1, f)
  PROVE  AddsAssistant(s, s1)
<1>1. /\ f.type = "assistant" /\ f.id \in Id /\ f.attempt \in Id /\ f.stop \in Stop
      /\ f.calls \in Seq(Call) /\ f.text \in BOOLEAN
      /\ f = [type |-> "assistant", id |-> f.id, step |-> f.step,
              attempt |-> f.attempt, stop |-> f.stop, calls |-> f.calls, text |-> f.text]
  BY DEF AssistantFacts
<1>2. ReducesAssistant(s, s1, f)
  BY <1>1, Reduced
<1>3. s.attempts[f.attempt] # None /\ s.attempts[f.attempt].step = f.step
  BY <1>2 DEF ReducesAssistant, CanAssistant
<1> QED BY <1>1, <1>2, <1>3 DEF AddsAssistant

(* A synthetic result names a call of its answer.                           *)
LEMMA SyntheticFactAdds ==
  ASSUME NEW s, NEW s1, NEW f \in SyntheticFacts, Reduces(s, s1, f)
  PROVE  AddsSynthetic(s, s1)
<1> DEFINE g(e, n) == [type |-> "synthetic", id |-> f.id, step |-> s.entries[e].step,
                       assistant |-> e, index |-> n,
                       call |-> s.entries[e].calls[n].id,
                       name |-> s.entries[e].calls[n].name]
<1>1. /\ f.type = "synthetic" /\ f.id \in Id /\ f.assistant \in Id
      /\ f = [type |-> "synthetic", id |-> f.id, step |-> f.step, assistant |-> f.assistant,
              index |-> f.index, call |-> f.call, name |-> f.name]
  BY DEF SyntheticFacts
<1>2. ReducesSynthetic(s, s1, f)
  BY <1>1, Reduced
<1>3. NamesCall(s, f)
  BY <1>2 DEF ReducesSynthetic, CanSynthetic
<1>4. /\ s.entries[f.assistant] # None /\ f.index \in DOMAIN s.entries[f.assistant].calls
      /\ f = g(f.assistant, f.index)
  BY <1>1, <1>3 DEF NamesCall
<1>5. ReducesSynthetic(s, s1, g(f.assistant, f.index))
  BY <1>2, <1>4
<1> QED BY <1>1, <1>4, <1>5 DEF AddsSynthetic

(* The result of a tool is the one provisioned for it.                      *)
LEMMA ResultFactAdds ==
  ASSUME NEW s, NEW s1, NEW f \in ResultFacts, Reduces(s, s1, f)
  PROVE  AddsResult(s, s1)
<1>1. /\ f.type = "result" /\ f.started \in Id
      /\ f = [type |-> "result", id |-> f.id, step |-> f.step, started |-> f.started,
              call |-> f.call]
  BY DEF ResultFacts
<1>2. ReducesResult(s, s1, f)
  BY <1>1, Reduced
<1>3. /\ s.tools[f.started] # None /\ s.tools[f.started].step = f.step
      /\ s.tools[f.started].result = f.id /\ s.tools[f.started].call = f.call
  BY <1>2 DEF ReducesResult, CanResult
<1>4. f = [type |-> "result", id |-> s.tools[f.started].result,
           step |-> s.tools[f.started].step, started |-> f.started,
           call |-> s.tools[f.started].call]
  BY <1>1, <1>3
<1> QED BY <1>1, <1>2, <1>3, <1>4 DEF AddsResult

(* A summary belongs to the current compaction.                             *)
LEMMA SummaryFactAdds ==
  ASSUME NEW s, NEW s1, NEW f \in SummaryFacts, Reduces(s, s1, f)
  PROVE  AddsCompaction(s, s1)
<1>1. /\ f.type = "compaction" /\ f.through \in Id
      /\ f = [type |-> "compaction", id |-> f.id, op |-> f.op, through |-> f.through,
              retained |-> f.retained]
  BY DEF SummaryFacts
<1>2. ReducesCompaction(s, s1, f)
  BY <1>1, Reduced
<1>3. /\ ~Idle(s) /\ s.operation.kind = "compaction" /\ s.operation.id = f.op
      /\ s.operations[f.op].result = f.id
      /\ s.entries[f.through] # None /\ f.retained = Retained(s, f.through)
  BY <1>2 DEF ReducesCompaction, CanCompaction, CurrentIs
<1>4. f = [type |-> "compaction", id |-> s.operations[s.operation.id].result,
           op |-> s.operation.id, through |-> f.through,
           retained |-> Retained(s, f.through)]
  BY <1>1, <1>3
<1> QED BY <1>1, <1>2, <1>3, <1>4 DEF AddsCompaction

(* The start of a run.                                                      *)
LEMMA RunFactAdds ==
  ASSUME NEW s, NEW s1, NEW f \in RunFacts, Reduces(s, s1, f)
  PROVE  AddsRunStarted(s, s1)
<1>1. /\ f.type = "runStarted" /\ f.op \in Id /\ f.input \in Id
      /\ f = [type |-> "runStarted", op |-> f.op, input |-> f.input]
  BY DEF RunFacts
<1>2. ReducesRunStarted(s, s1, f)
  BY <1>1, Reduced
<1> QED BY <1>1, <1>2 DEF AddsRunStarted

(* The start of a compaction names its source as it is.                     *)
LEMMA CompactionFactAdds ==
  ASSUME NEW s, NEW s1, NEW f \in CompactionFacts, Reduces(s, s1, f)
  PROVE  AddsCompactionStarted(s, s1)
<1>1. /\ f.type = "compactionStarted" /\ f.op \in Id /\ f.input \in Id /\ f.result \in Id
      /\ f = [type |-> "compactionStarted", op |-> f.op, input |-> f.input,
              result |-> f.result, source |-> f.source]
  BY DEF CompactionFacts
<1>2. ReducesCompactionStarted(s, s1, f)
  BY <1>1, Reduced
<1>3. s.entries[f.input] # None /\ f.source = Source(s, f.input)
  BY <1>2 DEF ReducesCompactionStarted, CanCompactionStarted
<1> QED BY <1>1, <1>2, <1>3 DEF AddsCompactionStarted

(* A step attempt is of its operation's kind.                               *)
LEMMA AttemptFactAdds ==
  ASSUME NEW s, NEW s1, NEW f \in AttemptFacts, Reduces(s, s1, f)
  PROVE  AddsStepAttempt(s, s1)
<1>1. /\ f.type = "stepAttempt" /\ f.op \in Id /\ f.step \in Id /\ f.attempt \in Id
      /\ f.context \in Id /\ f.config \in ConfigurationSnapshot /\ f.number \in 1..2
      /\ f = [type |-> "stepAttempt", op |-> f.op, step |-> f.step,
              attempt |-> f.attempt, kind |-> f.kind,
              number |-> f.number, context |-> f.context, config |-> f.config]
  BY DEF AttemptFacts
<1>2. ReducesStepAttempt(s, s1, f)
  BY <1>1, Reduced
<1>3. f.kind = s.operations[f.op].kind
  BY <1>2 DEF ReducesStepAttempt, CanStepAttempt
<1>4. f = [type |-> "stepAttempt", op |-> f.op, step |-> f.step, attempt |-> f.attempt,
           kind |-> s.operations[f.op].kind, number |-> f.number, context |-> f.context,
           config |-> f.config]
  BY <1>1, <1>3
<1>5. ReducesStepAttempt(s, s1,
        [type |-> "stepAttempt", op |-> f.op, step |-> f.step, attempt |-> f.attempt,
         kind |-> s.operations[f.op].kind, number |-> f.number, context |-> f.context,
         config |-> f.config])
  BY ONLY <1>2, <1>4
<1> QED BY <1>1, <1>5, Zenon DEF AddsStepAttempt

(* The failure of an attempt names its step.                                *)
LEMMA FailureFactAdds ==
  ASSUME NEW s, NEW s1, NEW f \in FailureFacts, Reduces(s, s1, f)
  PROVE  AddsStepFailed(s, s1)
<1>1. /\ f.type = "stepFailed" /\ f.attempt \in Id
      /\ f = [type |-> "stepFailed", op |-> f.op, step |-> f.step, attempt |-> f.attempt]
  BY DEF FailureFacts
<1>2. ReducesStepFailed(s, s1, f)
  BY <1>1, Reduced
<1>3. /\ s.attempts[f.attempt] # None /\ s.attempts[f.attempt].op = f.op
      /\ s.attempts[f.attempt].step = f.step
  BY <1>2 DEF ReducesStepFailed, CanStepFailed
<1> QED BY <1>1, <1>2, <1>3 DEF AddsStepFailed

(* The start of a tool names a call of an answer of the run.                *)
LEMMA ToolFactAdds ==
  ASSUME NEW s, NEW s1, NEW f \in ToolFacts, Reduces(s, s1, f)
  PROVE  AddsToolStarted(s, s1)
<1> DEFINE g(e, n) ==
             [type |-> "toolStarted", id |-> f.id, op |-> s.entries[e].op,
              step |-> s.entries[e].step, assistant |-> e, index |-> n,
              call |-> s.entries[e].calls[n].id,
              name |-> s.entries[e].calls[n].name,
              args |-> f.args, replay |-> f.replay, key |-> f.key, env |-> f.env,
              result |-> f.result]
<1>1. /\ f.type = "toolStarted" /\ f.id \in Id /\ f.assistant \in Id /\ f.result \in Id
      /\ f.args \in Arguments /\ f.replay \in {"safe", "never"} /\ f.key \in ReplayKey
      /\ f.env \in Environment
      /\ f = [type |-> "toolStarted", id |-> f.id, op |-> f.op,
              step |-> f.step, assistant |-> f.assistant, index |-> f.index,
              call |-> f.call, name |-> f.name,
              args |-> f.args, replay |-> f.replay, key |-> f.key, env |-> f.env,
              result |-> f.result]
  BY DEF ToolFacts
<1>2. ReducesToolStarted(s, s1, f)
  BY <1>1, Reduced
<1>3. NamesCall(s, f) /\ s.entries[f.assistant].op = f.op
  BY <1>2 DEF ReducesToolStarted, CanToolStarted
<1>4. /\ s.entries[f.assistant] # None /\ f.index \in DOMAIN s.entries[f.assistant].calls
      /\ f = g(f.assistant, f.index)
  BY <1>1, <1>3 DEF NamesCall
<1>5. ReducesToolStarted(s, s1, g(f.assistant, f.index))
  BY <1>2, <1>4
<1>6. /\ f.id \in Id /\ f.assistant \in {j \in Id : s.entries[j] # None}
      /\ f.args \in Arguments /\ f.replay \in {"safe", "never"} /\ f.key \in ReplayKey
      /\ f.env \in Environment /\ f.result \in Id
  BY <1>1, <1>4
<1> QED BY <1>4, <1>5, <1>6, Zenon DEF AddsToolStarted

(* An abort request names an unfinished operation.                          *)
LEMMA AbortFactAdds ==
  ASSUME NEW s, NEW s1, NEW f \in AbortFacts, Reduces(s, s1, f)
  PROVE  AddsAbortRequested(s, s1)
<1>1. /\ f.type = "abortRequested" /\ f.op \in Id /\ f.phase \in {"model", "tool", "compact"}
      /\ f.call \in CallId \cup {None}
      /\ f = [type |-> "abortRequested", op |-> f.op, kind |-> f.kind,
              phase |-> f.phase, call |-> f.call]
  BY DEF AbortFacts
<1>2. ReducesAbortRequested(s, s1, f)
  BY <1>1, Reduced
<1>3. s.operations[f.op] # None /\ f.kind = s.operations[f.op].kind
  BY <1>2 DEF ReducesAbortRequested, CanAbortRequested, Unfinished
<1> QED BY <1>1, <1>2, <1>3 DEF AddsAbortRequested

(* And so does the end of one.                                              *)
LEMMA FinishFactAdds ==
  ASSUME NEW s, NEW s1, NEW f \in FinishFacts, Reduces(s, s1, f)
  PROVE  AddsOperationFinished(s, s1)
<1>1. /\ f.type = "operationFinished" /\ f.op \in Id /\ f.outcome \in Outcome
      /\ f.final \in Id \cup {None}
      /\ f = [type |-> "operationFinished", op |-> f.op, kind |-> f.kind,
              outcome |-> f.outcome, final |-> f.final]
  BY DEF FinishFacts
<1>2. ReducesOperationFinished(s, s1, f)
  BY <1>1, Reduced
<1>3. s.operations[f.op] # None /\ f.kind = s.operations[f.op].kind
  BY <1>2 DEF ReducesOperationFinished, CanOperationFinished, Unfinished
<1> QED BY <1>1, <1>2, <1>3 DEF AddsOperationFinished

(* The amount of an accepted usage fits.                                    *)
LEMMA UsageFactAdds ==
  ASSUME NEW s, NEW s1, s \in State, NEW f \in UsageFacts, Reduces(s, s1, f)
  PROVE  AddsUsage(s, s1)
<1>1. /\ f.type = "usage" /\ f.op \in Id /\ f.owner \in Id /\ f.amount \in Nat
      /\ f = [type |-> "usage", op |-> f.op, owner |-> f.owner, amount |-> f.amount]
  BY DEF UsageFacts
<1>2. ReducesUsage(s, s1, f)
  BY <1>1, Reduced
<1>3. s.usage + f.amount <= MaxUsage /\ s.usage \in Nat
  BY <1>2, Fields DEF ReducesUsage, CanUsage
<1>4. f.amount \in 0..MaxUsage
  BY <1>1, <1>3, MaxUsageAssumption
<1> QED BY <1>1, <1>2, <1>4 DEF AddsUsage


Facts ==
  UserFacts \cup AssistantFacts \cup SyntheticFacts \cup ResultFacts \cup SummaryFacts
    \cup RunFacts \cup CompactionFacts \cup AttemptFacts \cup FailureFacts \cup ToolFacts
    \cup AbortFacts \cup FinishFacts \cup UsageFacts

(* So a fact that is accepted does what facts of its type do.               *)
FactDoes(s, s1, f) ==
  \/ f.type = "user" /\ AddsUser(s, s1)
  \/ f.type = "assistant" /\ AddsAssistant(s, s1)
  \/ f.type = "synthetic" /\ AddsSynthetic(s, s1)
  \/ f.type = "result" /\ AddsResult(s, s1)
  \/ f.type = "compaction" /\ AddsCompaction(s, s1)
  \/ f.type = "runStarted" /\ AddsRunStarted(s, s1)
  \/ f.type = "compactionStarted" /\ AddsCompactionStarted(s, s1)
  \/ f.type = "stepAttempt" /\ AddsStepAttempt(s, s1)
  \/ f.type = "stepFailed" /\ AddsStepFailed(s, s1)
  \/ f.type = "toolStarted" /\ AddsToolStarted(s, s1)
  \/ f.type = "abortRequested" /\ AddsAbortRequested(s, s1)
  \/ f.type = "operationFinished" /\ AddsOperationFinished(s, s1)
  \/ f.type = "usage" /\ AddsUsage(s, s1)

(* The type of a fact is that of the set it belongs to.                     *)
LEMMA FactCases ==
  ASSUME NEW s, NEW s1, s \in State, NEW f \in Facts, Reduces(s, s1, f)
  PROVE  FactDoes(s, s1, f) /\ Adds(s, s1)
<1>1. FactDoes(s, s1, f)
  <2>1. CASE f \in UserFacts
    BY <2>1, UserFactAdds DEF FactDoes, UserFacts
  <2>2. CASE f \in AssistantFacts
    BY <2>2, AssistantFactAdds DEF FactDoes, AssistantFacts
  <2>3. CASE f \in SyntheticFacts
    BY <2>3, SyntheticFactAdds DEF FactDoes, SyntheticFacts
  <2>4. CASE f \in ResultFacts
    BY <2>4, ResultFactAdds DEF FactDoes, ResultFacts
  <2>5. CASE f \in SummaryFacts
    BY <2>5, SummaryFactAdds DEF FactDoes, SummaryFacts
  <2>6. CASE f \in RunFacts
    BY <2>6, RunFactAdds DEF FactDoes, RunFacts
  <2>7. CASE f \in CompactionFacts
    BY <2>7, CompactionFactAdds DEF FactDoes, CompactionFacts
  <2>8. CASE f \in AttemptFacts
    BY <2>8, AttemptFactAdds DEF FactDoes, AttemptFacts
  <2>9. CASE f \in FailureFacts
    BY <2>9, FailureFactAdds DEF FactDoes, FailureFacts
  <2>10. CASE f \in ToolFacts
    BY <2>10, ToolFactAdds DEF FactDoes, ToolFacts
  <2>11. CASE f \in AbortFacts
    BY <2>11, AbortFactAdds DEF FactDoes, AbortFacts
  <2>12. CASE f \in FinishFacts
    BY <2>12, FinishFactAdds DEF FactDoes, FinishFacts
  <2>13. CASE f \in UsageFacts
    BY <2>13, UsageFactAdds DEF FactDoes, UsageFacts
  <2> QED BY <2>1, <2>2, <2>3, <2>4, <2>5, <2>6, <2>7, <2>8, <2>9, <2>10, <2>11, <2>12, <2>13
     DEF Facts
<1> QED BY <1>1, Zenon DEF FactDoes, Adds, AddsProgress

-----------------------------------------------------------------------------
(* What holds of a session after any facts *)

Good(s) ==
  /\ Sound(s) /\ Ledger(s) /\ TranscriptSide(s) /\ CallSide(s) /\ SettledSide(s)
  /\ OrderSide(s)

(* An empty session is one.                                                 *)
LEMMA InitialGood == Good(InitialState)
BY InitialSound, InitialLedger, InitialTranscript, InitialCalls, InitialSettled, InitialOrder
   DEF Good

(* The attempts that a fact of a type settles.                              *)
LEMMA FactSettles ==
  ASSUME NEW s, NEW s1, NEW f, Sound(s), Ledger(s), FactDoes(s, s1, f)
  PROVE  /\ f.type \in {"assistant", "compaction"} => \E a : Settles(s, s1, a)
         /\ f.type \notin {"assistant", "compaction"} => SettlesNone(s, s1)
<1>1. CASE f.type = "assistant"
  BY <1>1, AnswerSettles DEF FactDoes
<1>2. CASE f.type = "compaction"
  BY <1>2, SummarySettles DEF FactDoes
<1>3. CASE f.type \notin {"assistant", "compaction"}
  BY <1>3, OthersSettleNone DEF FactDoes
<1> QED BY <1>1, <1>2, <1>3

(* What holds goes on to hold.                                              *)
LEMMA GoodNext ==
  ASSUME NEW s, NEW s1, NEW f \in Facts, Good(s), Reduces(s, s1, f)
  PROVE  Good(s1) /\ EntriesPersist(s, s1)
<1>1. /\ s \in State /\ Sound(s) /\ Ledger(s) /\ TranscriptSide(s) /\ CallSide(s)
      /\ SettledSide(s) /\ OrderSide(s)
  BY DEF Good, Sound
<1>2. Adds(s, s1) /\ FactDoes(s, s1, f)
  BY <1>1, FactCases
<1>3. Sound(s1)
  BY <1>1, <1>2, SoundNext
<1>4. Ledger(s1)
  BY <1>1, <1>2, AddsEffect, EffectLedger
<1>5. Messages(s, s1)
  BY <1>1, <1>2, AddsMessages
<1>6. TranscriptSide(s1) /\ OrderSide(s1) /\ EntriesPersist(s, s1)
  BY <1>1, <1>5, MessagesTranscript, MessagesOrder, MessagesPersist
<1>7. CallSide(s1)
  BY <1>1, <1>2, AddsCalls, CallsCallSide
<1>8. SettledSide(s1)
  <2>1. CASE f.type \in {"assistant", "compaction"}
    BY <1>1, <1>2, <1>6, <2>1, FactSettles, SettlesSide
  <2>2. CASE f.type \notin {"assistant", "compaction"}
    BY <1>1, <1>2, <1>6, <2>2, FactSettles, SettlesNoneSide
  <2> QED BY <2>1, <2>2
<1> QED BY <1>3, <1>4, <1>6, <1>7, <1>8 DEF Good

-----------------------------------------------------------------------------
(* What a line of facts keeps *)

(* A started tool stays, as what it was started.                            *)
ToolsKept(s, s1) ==
  \A t \in Id : s.tools[t] # None =>
    /\ s1.tools[t] # None
    /\ s1.tools[t].op = s.tools[t].op /\ s1.tools[t].step = s.tools[t].step
    /\ s1.tools[t].assistant = s.tools[t].assistant
    /\ s1.tools[t].index = s.tools[t].index /\ s1.tools[t].call = s.tools[t].call
    /\ s1.tools[t].name = s.tools[t].name /\ s1.tools[t].replay = s.tools[t].replay
    /\ s1.tools[t].key = s.tools[t].key /\ s1.tools[t].env = s.tools[t].env
    /\ s1.tools[t].result = s.tools[t].result

NoneStarted(s, s1) == \A t \in Id : s.tools[t] = None => s1.tools[t] = None

(* The current operation stays.                                             *)
CurrentKept(s, s1) ==
  ~Idle(s) =>
    /\ ~Idle(s1) /\ s1.operation.id = s.operation.id
    /\ s1.operation.kind = s.operation.kind /\ s1.operation.input = s.operation.input

(* So does its step, with its attempts; and no operation begins.            *)
StepKept(s, s1) ==
  /\ s1.attempts = s.attempts
  /\ Idle(s) <=> Idle(s1)
  /\ ~Idle(s) => s1.operation.step = s.operation.step

(* What a fact does to the calls of the answers, by its type.               *)
LEMMA FactCalls ==
  ASSUME NEW s, NEW s1, NEW f, Sound(s), Ledger(s), FactDoes(s, s1, f)
  PROVE  /\ f.type = "assistant" => \E i : CallsAsked(s, s1, i)
         /\ f.type = "synthetic" => \E a, n : CallSkipped(s, s1, a, n)
         /\ f.type = "result" => \E t : CallAnswered(s, s1, t)
         /\ f.type = "toolStarted" => \E t : CallStarted(s, s1, t)
         /\ f.type \notin {"assistant", "synthetic", "result", "toolStarted"}
              => CallsKept(s, s1)
<1>1. CASE f.type = "assistant"
  BY <1>1, AssistantCalls DEF FactDoes
<1>2. CASE f.type = "synthetic"
  BY <1>2, SyntheticCalls DEF FactDoes
<1>3. CASE f.type = "result"
  BY <1>3, ResultCalls DEF FactDoes
<1>4. CASE f.type = "toolStarted"
  BY <1>4, ToolStartedCalls DEF FactDoes
<1>5. CASE f.type \notin {"assistant", "synthetic", "result", "toolStarted"}
  <2>1. CASE AddsUser(s, s1) \/ AddsCompaction(s, s1)
    BY <1>5, <2>1, UserCalls, CompactionCalls
  <2>2. CASE ~(AddsUser(s, s1) \/ AddsCompaction(s, s1))
    BY <1>5, <2>2, OtherCalls DEF FactDoes
  <2> QED BY <1>5, <2>1, <2>2
<1> QED BY <1>1, <1>2, <1>3, <1>4, <1>5

(* No tool is lost, and only the fact that starts a tool adds one.          *)
LEMMA FactTools ==
  ASSUME NEW s, NEW s1, NEW f, Sound(s), Ledger(s), FactDoes(s, s1, f)
  PROVE  ToolsKept(s, s1) /\ (f.type # "toolStarted" => NoneStarted(s, s1))
<1>1. CASE s1.tools = s.tools
  BY <1>1 DEF ToolsKept, NoneStarted
<1>2. CASE f.type = "result"
  <2>1. PICK t : CallAnswered(s, s1, t)
    BY <1>2, FactCalls
  <2>2. /\ t \in Id /\ s.tools[t] # None /\ s1.tools[t] # None
        /\ s1.tools[t] = [s.tools[t] EXCEPT !.status = "completed"]
        /\ \A u \in Id : u # t => s1.tools[u] = s.tools[u]
    BY <2>1 DEF CallAnswered
  <2>3. s.tools[t] \in ToolCallState
    BY <2>2, Fields DEF Sound
  <2>4. /\ s1.tools[t].op = s.tools[t].op /\ s1.tools[t].step = s.tools[t].step
        /\ s1.tools[t].assistant = s.tools[t].assistant
        /\ s1.tools[t].index = s.tools[t].index /\ s1.tools[t].call = s.tools[t].call
        /\ s1.tools[t].name = s.tools[t].name /\ s1.tools[t].replay = s.tools[t].replay
        /\ s1.tools[t].key = s.tools[t].key /\ s1.tools[t].env = s.tools[t].env
        /\ s1.tools[t].result = s.tools[t].result
    BY <2>2, <2>3 DEF ToolCallState
  <2>5. ToolsKept(s, s1)
    BY <2>2, <2>4 DEF ToolsKept
  <2>6. NoneStarted(s, s1)
    BY <2>2 DEF NoneStarted
  <2> QED BY <2>5, <2>6
<1>3. CASE f.type = "toolStarted"
  <2>1. PICK t : CallStarted(s, s1, t)
    BY <1>3, FactCalls
  <2>2. s.tools[t] = None /\ \A u \in Id : u # t => s1.tools[u] = s.tools[u]
    BY <2>1 DEF CallStarted
  <2>3. ToolsKept(s, s1)
    BY <2>2 DEF ToolsKept
  <2> QED BY <1>3, <2>3
<1>4. CASE f.type \notin {"result", "toolStarted"}
  <2>1. CASE f.type = "assistant"
    BY <1>1, <2>1, FactCalls DEF CallsAsked
  <2>2. CASE f.type = "synthetic"
    BY <1>1, <2>2, FactCalls DEF CallSkipped
  <2>3. CASE f.type \notin {"assistant", "synthetic"}
    BY <1>1, <1>4, <2>3, FactCalls DEF CallsKept
  <2> QED BY <2>1, <2>2, <2>3
<1> QED BY <1>2, <1>3, <1>4

(* Only the end of the operation loses it.                                  *)
LEMMA FactCurrent ==
  ASSUME NEW s, NEW s1, NEW f, Sound(s), Ledger(s), FactDoes(s, s1, f),
         f.type # "operationFinished"
  PROVE  CurrentKept(s, s1)
<1>0. Progress(s, s1) /\ OpenIsCurrent(s)
  BY ProgressEffect DEF FactDoes, AddsProgress, Ledger, AttemptSide
<1>1. CASE SameOperations(s, s1)
  BY <1>1 DEF SameOperations, CurrentKept, Idle
<1>2. CASE \E a, info, status : status \in {"settled", "failed"} /\ AttemptEnded(s, s1, a, info, status)
  <2>1. PICK a, info, status : status \in {"settled", "failed"} /\ AttemptEnded(s, s1, a, info, status)
    BY <1>2
  <2>2. s.operation \in OperationState /\ s1.operation = WithStatus(s.operation, a, status)
    BY <2>1, CurrentType DEF AttemptEnded, Sound
  <2> DEFINE o == WithStatus(s.operation, a, status)
  <2>a. /\ o \in OperationState /\ o.id = s.operation.id /\ o.kind = s.operation.kind
        /\ o.input = s.operation.input
    BY <2>1, <2>2, StatusFields
  <2>3. /\ s1.operation.input = s.operation.input /\ s1.operation.id = s.operation.id
        /\ s1.operation.kind = s.operation.kind /\ s1.operation \in OperationState
    BY <2>2, <2>a
  <2> QED BY <2>3, NoneAssumption DEF CurrentKept, Idle
<1>3. CASE \E op, info : OperationAdded(s, s1, op, info)
  BY <1>3 DEF OperationAdded, CurrentKept
<1>4. CASE \E op, step, attempt, new, info : AttemptAdded(s, s1, op, step, attempt, new, info)
  BY <1>4 DEF AttemptAdded, CurrentKept, CurrentIs
<1>5. CASE AbortAdded(s, s1)
  BY <1>5 DEF AbortAdded, CurrentKept
<1>6. CASE \E i, a, e, info : AnswerAdded(s, s1, i, a, e, info)
  BY <1>2, <1>6 DEF AnswerAdded
<1>7. CASE \E i, a, e, info : SummaryAdded(s, s1, i, a, e, info)
  BY <1>2, <1>7 DEF SummaryAdded
<1>8. CASE \E a, info : FailureAdded(s, s1, a, info)
  BY <1>2, <1>8 DEF FailureAdded
<1>9. CASE \E i, e : MessageAdded(s, s1, i, e)
  BY <1>1, <1>9 DEF MessageAdded
<1>10. CASE \E t, e, done : ResultAdded(s, s1, t, e, done)
  BY <1>1, <1>10 DEF ResultAdded
<1>11. CASE \E t, tool : ToolAdded(s, s1, t, tool)
  BY <1>1, <1>11 DEF ToolAdded
<1> QED BY <1>0, <1>1, <1>3, <1>4, <1>5, <1>6, <1>7, <1>8, <1>9, <1>10, <1>11 DEF Progress

Steady == {"user", "synthetic", "result", "toolStarted", "abortRequested", "usage"}

(* A fact that names no step leaves the step alone.                         *)
LEMMA FactStep ==
  ASSUME NEW s, NEW s1, NEW f, Sound(s), Ledger(s), FactDoes(s, s1, f), f.type \in Steady
  PROVE  StepKept(s, s1)
<1>1. CASE SameOperations(s, s1)
  BY <1>1 DEF SameOperations, StepKept, Idle
<1>2. CASE f.type = "abortRequested"
  <2>1. AbortAdded(s, s1)
    BY <1>2, AbortEffect DEF FactDoes
  <2> QED BY <2>1 DEF AbortAdded, StepKept
<1>3. CASE f.type \in {"user", "synthetic"}
  BY <1>1, <1>3, UserEffect, SyntheticEffect DEF FactDoes, MessageAdded
<1>4. CASE f.type = "result"
  BY <1>1, <1>4, ResultEffect DEF FactDoes, ResultAdded
<1>5. CASE f.type = "toolStarted"
  BY <1>1, <1>5, ToolStartedEffect DEF FactDoes, ToolAdded
<1>6. CASE f.type = "usage"
  BY <1>1, <1>6, UsageEffect DEF FactDoes
<1> QED BY <1>2, <1>3, <1>4, <1>5, <1>6 DEF Steady

(* Usage is charged by the facts that say so.                               *)
LEMMA FactCharge ==
  ASSUME NEW s, NEW s1, s \in State, NEW f \in Facts, Reduces(s, s1, f)
  PROVE  /\ f.type # "usage" => s1.usage = s.usage
         /\ f.type = "usage" => s1.usage = s.usage + f.amount
<1>1. CASE f.type = "user"
  <2>1. s1 = DoUser(s, f)
    BY <1>1, Reduced DEF ReducesUser
  <2> QED BY <1>1, <2>1, Zenon DEF DoUser, Push, State
<1>2. CASE f.type = "assistant"
  <2>1. s1 = DoAssistant(s, f)
    BY <1>2, Reduced DEF ReducesAssistant
  <2> QED BY <1>2, <2>1, Zenon DEF DoAssistant, Push, State
<1>3. CASE f.type = "synthetic"
  <2>1. s1 = DoSynthetic(s, f)
    BY <1>3, Reduced DEF ReducesSynthetic
  <2> QED BY <1>3, <2>1, Zenon DEF DoSynthetic, Push, State
<1>4. CASE f.type = "result"
  <2>1. s1 = DoResult(s, f)
    BY <1>4, Reduced DEF ReducesResult
  <2> QED BY <1>4, <2>1, Zenon DEF DoResult, Push, State
<1>5. CASE f.type = "compaction"
  <2>1. s1 = DoCompaction(s, f)
    BY <1>5, Reduced DEF ReducesCompaction
  <2> QED BY <1>5, <2>1, Zenon DEF DoCompaction, State
<1>6. CASE f.type = "runStarted"
  <2>1. s1 = DoRunStarted(s, f)
    BY <1>6, Reduced DEF ReducesRunStarted
  <2> QED BY <1>6, <2>1, Zenon DEF DoRunStarted, State
<1>7. CASE f.type = "compactionStarted"
  <2>1. s1 = DoCompactionStarted(s, f)
    BY <1>7, Reduced DEF ReducesCompactionStarted
  <2> QED BY <1>7, <2>1, Zenon DEF DoCompactionStarted, State
<1>8. CASE f.type = "stepAttempt"
  <2>1. s1 = DoStepAttempt(s, f)
    BY <1>8, Reduced DEF ReducesStepAttempt
  <2> QED BY <1>8, <2>1, Zenon DEF DoStepAttempt, State
<1>9. CASE f.type = "stepFailed"
  <2>1. s1 = DoStepFailed(s, f)
    BY <1>9, Reduced DEF ReducesStepFailed
  <2> QED BY <1>9, <2>1, Zenon DEF DoStepFailed, State
<1>10. CASE f.type = "toolStarted"
  <2>1. s1 = DoToolStarted(s, f)
    BY <1>10, Reduced DEF ReducesToolStarted
  <2> QED BY <1>10, <2>1, Zenon DEF DoToolStarted, State
<1>11. CASE f.type = "abortRequested"
  <2>1. s1 = DoAbortRequested(s, f)
    BY <1>11, Reduced DEF ReducesAbortRequested
  <2> QED BY <1>11, <2>1, Zenon DEF DoAbortRequested, State
<1>12. CASE f.type = "operationFinished"
  <2>1. s1 = DoOperationFinished(s, f)
    BY <1>12, Reduced DEF ReducesOperationFinished
  <2> QED BY <1>12, <2>1, Zenon DEF DoOperationFinished, State
<1>13. CASE f.type = "usage"
  <2>1. s1 = DoUsage(s, f)
    BY <1>13, Reduced DEF ReducesUsage
  <2>2. s1.usage = s.usage + f.amount
    BY <2>1, Zenon DEF DoUsage, State
  <2> QED BY <1>13, <2>2
<1>14. FactDoes(s, s1, f)
  BY FactCases
<1> QED BY <1>1, <1>2, <1>3, <1>4, <1>5, <1>6, <1>7, <1>8, <1>9, <1>10, <1>11, <1>12, <1>13,
           <1>14 DEF FactDoes

(* No call is opened but by an answer, and a result closes the call it      *)
(* names.                                                                   *)
LEMMA FactAnswers ==
  ASSUME NEW s, NEW s1, Sound(s), Ledger(s), NEW f \in Facts, Reduces(s, s1, f),
         f.type # "assistant"
  PROVE  /\ s1.unanswered \subseteq s.unanswered
         /\ f.type \in {"synthetic", "result"} => f.call \notin s1.unanswered
<1>0. s \in State /\ FactDoes(s, s1, f)
  BY FactCases DEF Sound
<1>1. s1.unanswered \subseteq s.unanswered
  <2>1. CASE f.type = "synthetic"
    <3>1. PICK a, n : CallSkipped(s, s1, a, n)
      BY <1>0, <2>1, FactCalls
    <3> QED BY <3>1 DEF CallSkipped
  <2>2. CASE f.type = "result"
    <3>1. PICK t : CallAnswered(s, s1, t)
      BY <1>0, <2>2, FactCalls
    <3> QED BY <3>1 DEF CallAnswered
  <2>3. CASE f.type = "toolStarted"
    <3>1. PICK t : CallStarted(s, s1, t)
      BY <1>0, <2>3, FactCalls
    <3> QED BY <3>1 DEF CallStarted
  <2>4. CASE f.type \notin {"synthetic", "result", "toolStarted"}
    BY <1>0, <2>4, FactCalls DEF CallsKept
  <2> QED BY <2>1, <2>2, <2>3, <2>4
<1>2. CASE f.type = "synthetic"
  <2>1. s1 = DoSynthetic(s, f)
    BY <1>2, Reduced DEF ReducesSynthetic
  <2> DEFINE e == ToolEntry(s.operation.id, f.step, f.call)
  <2>2. s1.unanswered = Unanswered(e, s.unanswered)
    BY <1>0, <2>1, Zenon DEF DoSynthetic, Push, State
  <2>3. e.type = "tool" /\ e.call = f.call
    BY DEF ToolEntry
  <2> QED BY <1>1, <2>2, <2>3 DEF Unanswered
<1>3. CASE f.type = "result"
  <2>1. s1 = DoResult(s, f)
    BY <1>3, Reduced DEF ReducesResult
  <2> DEFINE e == ToolEntry(s.tools[f.started].op, f.step, f.call)
  <2>2. s1.unanswered = Unanswered(e, s.unanswered)
    BY <1>0, <2>1, Zenon DEF DoResult, Push, State
  <2>3. e.type = "tool" /\ e.call = f.call
    BY DEF ToolEntry
  <2> QED BY <1>1, <2>2, <2>3 DEF Unanswered
<1> QED BY <1>1, <1>2, <1>3


-----------------------------------------------------------------------------
(* The active context is the end of the transcript *)

NoCompaction(s) == Idle(s) \/ s.operation.kind = "run"

Summary(s, n) == s.entries[s.order[n]].type = "compaction"

(* All messages, or the last summary and the messages after the k-th.       *)
ContextSide(s) ==
  \/ /\ \A n \in DOMAIN s.order : ~Summary(s, n)
     /\ s.context = s.order /\ s.transcript = s.order
  \/ \E n \in DOMAIN s.order, k \in 0..Len(s.transcript) :
       /\ Summary(s, n)
       /\ \A m \in DOMAIN s.order : Summary(s, m) => m <= n
       /\ s.context = <<s.order[n]>> \o SubSeq(s.transcript, k + 1, Len(s.transcript))

(* It goes through the last message.                                        *)
ThroughSide(s) ==
  /\ s.transcript = << >> => s.through = None
  /\ s.transcript # << >> => s.through = s.transcript[Len(s.transcript)]

(* A compaction summarises up to the last message.                          *)
InputSide(s) ==
  ~NoCompaction(s) =>
    s.transcript # << >> /\ s.operation.input = s.transcript[Len(s.transcript)]

TailSide(s) == ContextSide(s) /\ ThroughSide(s) /\ InputSide(s)

(* A message after the k-th is one of those after the k-th.                 *)
LEMMA AppendTail ==
  ASSUME NEW S, NEW T \in Seq(S), NEW x \in S, NEW c \in S, NEW k \in 0..Len(T)
  PROVE  Append(<<c>> \o SubSeq(T, k + 1, Len(T)), x)
           = <<c>> \o SubSeq(Append(T, x), k + 1, Len(T) + 1)
<1> DEFINE A == SubSeq(T, k + 1, Len(T))
           B == SubSeq(Append(T, x), k + 1, Len(T) + 1)
<1>1. /\ Len(T) \in Nat /\ k \in Nat /\ k <= Len(T)
      /\ Append(T, x) \in Seq(S) /\ Len(Append(T, x)) = Len(T) + 1
      /\ \A j \in 1..Len(T) : Append(T, x)[j] = T[j]
      /\ Append(T, x)[Len(T) + 1] = x
  OBVIOUS
<1>2. A \in Seq(S) /\ Len(A) = Len(T) - k /\ \A j \in 1..(Len(T) - k) : A[j] = T[k + j]
  BY <1>1
<1>3. /\ B \in Seq(S) /\ Len(B) = Len(T) + 1 - k
      /\ \A j \in 1..(Len(T) + 1 - k) : B[j] = Append(T, x)[k + j]
  BY <1>1
<1> HIDE DEF A, B
<1>4. Append(A, x) = B
  <2>1. Append(A, x) \in Seq(S) /\ Len(Append(A, x)) = Len(T) + 1 - k
    BY <1>1, <1>2
  <2>2. ASSUME NEW j \in 1..(Len(T) + 1 - k) PROVE Append(A, x)[j] = B[j]
    <3>1. CASE j = Len(T) + 1 - k
      <4>0. j = Len(A) + 1
        BY <1>1, <1>2, <3>1
      <4>1. Append(A, x)[j] = x
        BY <1>2, <4>0, AppendProperties
      <4>2. k + j = Len(T) + 1
        BY <1>1, <3>1
      <4> QED BY <1>1, <1>3, <4>1, <4>2
    <3>2. CASE j # Len(T) + 1 - k
      <4>1. j \in 1..(Len(T) - k) /\ k + j \in 1..Len(T)
        BY <1>1, <3>2
      <4>2. Append(A, x)[j] = T[k + j]
        BY <1>2, <4>1
      <4> QED BY <1>1, <1>3, <4>1, <4>2
    <3> QED BY <3>1, <3>2
  <2>3. B \in Seq(S) /\ Len(B) = Len(Append(A, x))
    BY <1>3, <2>1
  <2>4. \A j \in 1..Len(B) : B[j] = Append(A, x)[j]
    BY <1>3, <2>2
  <2> QED BY <2>1, <2>3, <2>4, SeqEqual
<1>5. Append(<<c>> \o A, x) = <<c>> \o Append(A, x)
  BY <1>2
<1> QED BY <1>4, <1>5 DEF A, B

(* A message becomes the end of the context.                                *)
LEMMA PushedTail ==
  ASSUME NEW s, NEW s1, Sound(s), Ledger(s), OrderSide(s), ContextSide(s), ThroughSide(s),
         NEW i, NEW e, Pushed(s, s1, i, e)
  PROVE  ContextSide(s1) /\ ThroughSide(s1)
<1>0. /\ Written(s) /\ s.entries \in [Id -> Entry \cup {None}] /\ s \in State
      /\ s.order \in Seq(Id) /\ s.transcript \in Seq(Id) /\ s.context \in Seq(Id)
  BY Fields DEF Sound, Ledger, AnswerSide
<1>1. /\ i \in Id /\ e \in Entry /\ s.use[i] # "used" /\ e.type # "compaction"
      /\ MessagesOf(s1, Push(s, i, e))
  BY DEF Pushed
<1>2. /\ Push(s, i, e).entries = [s.entries EXCEPT ![i] = e]
      /\ Push(s, i, e).order = Append(s.order, i)
      /\ Push(s, i, e).transcript = Append(s.transcript, i)
  BY <1>0, <1>1, Zenon DEF Push, State
<1>3. /\ Push(s, i, e).context = Append(s.context, i)
      /\ Push(s, i, e).through = i
  BY <1>0, <1>1, Zenon DEF Push, State
<1>4. /\ s1.entries = [s.entries EXCEPT ![i] = e] /\ s1.order = Append(s.order, i)
      /\ s1.transcript = Append(s.transcript, i) /\ s1.context = Append(s.context, i)
      /\ s1.through = i
  BY <1>1, <1>2, <1>3 DEF MessagesOf
<1>5. s.entries[i] = None
  BY <1>0, <1>1 DEF Written
<1>6. /\ Len(s.order) \in Nat /\ DOMAIN s.order = 1..Len(s.order)
      /\ DOMAIN s1.order = 1..(Len(s.order) + 1)
      /\ \A n \in 1..Len(s.order) : s1.order[n] = s.order[n] /\ s.order[n] \in Id
      /\ s1.order[Len(s.order) + 1] = i
  BY <1>0, <1>1, <1>4
<1>7. ASSUME NEW n \in 1..Len(s.order) PROVE Summary(s1, n) <=> Summary(s, n)
  <2>1. s.order[n] # i
    BY <1>5, <1>6 DEF OrderSide
  <2> QED BY <1>0, <1>1, <1>4, <1>6, <2>1 DEF Summary
<1>8. ~Summary(s1, Len(s.order) + 1)
  BY <1>0, <1>1, <1>4, <1>6 DEF Summary
<1>9. ThroughSide(s1)
  <2>1. /\ Len(s1.transcript) = Len(s.transcript) + 1 /\ Len(s.transcript) \in Nat
        /\ s1.transcript \in Seq(Id) /\ s1.transcript[Len(s.transcript) + 1] = i
    BY <1>0, <1>1, <1>4
  <2>2. s1.transcript # << >>
    BY <2>1
  <2> QED BY <1>4, <2>1, <2>2 DEF ThroughSide
<1>10. CASE /\ \A n \in DOMAIN s.order : ~Summary(s, n)
            /\ s.context = s.order /\ s.transcript = s.order
  <2>1. ASSUME NEW n \in 1..(Len(s.order) + 1) PROVE ~Summary(s1, n)
    <3>1. n \in 1..Len(s.order) \/ n = Len(s.order) + 1
      BY <1>6
    <3> QED BY <1>6, <1>7, <1>8, <1>10, <3>1
  <2>2. s1.context = s1.order /\ s1.transcript = s1.order
    BY <1>4, <1>10
  <2> QED BY <1>6, <1>9, <2>1, <2>2 DEF ContextSide
<1>11. CASE \E n \in DOMAIN s.order, k \in 0..Len(s.transcript) :
              /\ Summary(s, n)
              /\ \A m \in DOMAIN s.order : Summary(s, m) => m <= n
              /\ s.context = <<s.order[n]>> \o SubSeq(s.transcript, k + 1, Len(s.transcript))
  <2>1. PICK n \in DOMAIN s.order, k \in 0..Len(s.transcript) :
              /\ Summary(s, n)
              /\ \A m \in DOMAIN s.order : Summary(s, m) => m <= n
              /\ s.context = <<s.order[n]>> \o SubSeq(s.transcript, k + 1, Len(s.transcript))
    BY <1>11
  <2>2. n \in DOMAIN s1.order /\ Summary(s1, n) /\ s1.order[n] = s.order[n] /\ s.order[n] \in Id
    BY <1>6, <1>7, <2>1
  <2>3. ASSUME NEW m \in 1..(Len(s.order) + 1), Summary(s1, m) PROVE m <= n
    <3>1. m \in 1..Len(s.order) \/ m = Len(s.order) + 1
      BY <1>6
    <3> QED BY <1>6, <1>7, <1>8, <2>1, <2>3, <3>1
  <2>4. Len(s1.transcript) = Len(s.transcript) + 1 /\ Len(s.transcript) \in Nat
    BY <1>0, <1>1, <1>4
  <2>5. s1.context = <<s1.order[n]>> \o SubSeq(s1.transcript, k + 1, Len(s1.transcript))
    <3> DEFINE c == s.order[n]
               U == SubSeq(s.transcript, k + 1, Len(s.transcript))
    <3>1. s1.context = Append(<<c>> \o U, i)
      BY <1>4, <2>1
    <3>2. Append(<<c>> \o U, i)
            = <<c>> \o SubSeq(Append(s.transcript, i), k + 1, Len(s.transcript) + 1)
      BY <1>0, <1>1, <2>1, <2>2, AppendTail
    <3> HIDE DEF U
    <3> QED BY <1>4, <2>2, <2>4, <3>1, <3>2
  <2>6. k \in 0..Len(s1.transcript)
    BY <2>4
  <2> QED BY <1>6, <1>9, <2>2, <2>3, <2>5, <2>6 DEF ContextSide
<1> QED BY <1>10, <1>11 DEF ContextSide

(* As many messages are through an entry as there are at most.              *)
LEMMA ThroughType ==
  ASSUME NEW s, s \in State, NEW j
  PROVE  Through(s, j) \in 0..Len(s.transcript)
<1> DEFINE S == {k \in DOMAIN s.transcript : Position(s, s.transcript[k]) <= Position(s, j)}
<1>1. s.transcript \in Seq(Id) /\ Len(s.transcript) \in Nat
      /\ DOMAIN s.transcript = 1..Len(s.transcript)
  BY Fields
<1>2. /\ IsFiniteSet(1..Len(s.transcript))
      /\ Cardinality(1..Len(s.transcript)) = Len(s.transcript)
  BY <1>1, FS_Interval
<1>3. IsFiniteSet(S) /\ Cardinality(S) <= Len(s.transcript)
  BY <1>1, <1>2, FS_Subset
<1>4. Cardinality(S) \in Nat
  BY <1>3, FS_CardinalityType
<1> QED BY <1>1, <1>3, <1>4 DEF Through

(* A summary becomes its beginning.                                         *)
LEMMA SummarisedTail ==
  ASSUME NEW s, NEW s1, Sound(s), Ledger(s), OrderSide(s), ThroughSide(s), InputSide(s),
         ~NoCompaction(s),
         NEW i, NEW e, NEW through, Summarised(s, s1, i, e, through)
  PROVE  ContextSide(s1) /\ ThroughSide(s1)
<1>0. /\ Written(s) /\ s.entries \in [Id -> Entry \cup {None}] /\ s \in State
      /\ s.order \in Seq(Id) /\ s.transcript \in Seq(Id) /\ s.context \in Seq(Id)
  BY Fields DEF Sound, Ledger, AnswerSide
<1>1. /\ i \in Id /\ e \in Entry /\ s.use[i] # "used" /\ e.type = "compaction"
      /\ s1.entries = [s.entries EXCEPT ![i] = e]
      /\ s1.order = Append(s.order, i) /\ s1.transcript = s.transcript
      /\ s1.context = <<i>> \o Retained(s, through)
      /\ s1.through = s.operation.input
  BY DEF Summarised
<1>2. /\ s.transcript # << >>
      /\ s.operation.input = s.transcript[Len(s.transcript)]
  BY DEF InputSide
<1>3. ThroughSide(s1)
  BY <1>1, <1>2 DEF ThroughSide
<1>4. Through(s, s.operation.input) = Len(s.transcript)
  BY <1>0, <1>2, ThroughLast
<1>5. Through(s, through) \in 0..Len(s.transcript)
  BY <1>0, ThroughType
<1>6. s1.context = <<i>> \o SubSeq(s1.transcript, Through(s, through) + 1, Len(s1.transcript))
  BY <1>1, <1>4 DEF Retained
<1>7. /\ Len(s.order) \in Nat /\ DOMAIN s1.order = 1..(Len(s.order) + 1)
      /\ s1.order[Len(s.order) + 1] = i
  BY <1>0, <1>1
<1>8. Summary(s1, Len(s.order) + 1)
  BY <1>0, <1>1, <1>7 DEF Summary
<1>9. \A m \in DOMAIN s1.order : m <= Len(s.order) + 1
  BY <1>7
<1>10. Len(s.order) + 1 \in DOMAIN s1.order
  BY <1>7
<1>11. s1.context = <<s1.order[Len(s.order) + 1]>>
                      \o SubSeq(s1.transcript, Through(s, through) + 1, Len(s1.transcript))
  BY <1>6, <1>7
<1> HIDE DEF Summary
<1>12. ContextSide(s1)
  BY <1>1, <1>5, <1>8, <1>9, <1>10, <1>11 DEF ContextSide
<1> QED BY <1>3, <1>12

(* No compaction begins but by the fact that says so.                       *)
LEMMA FactNoCompaction ==
  ASSUME NEW s, NEW s1, Sound(s), Ledger(s), NEW f \in Facts, Reduces(s, s1, f),
         NoCompaction(s), f.type # "compactionStarted"
  PROVE  NoCompaction(s1)
<1>0. s \in State /\ FactDoes(s, s1, f)
  BY FactCases DEF Sound
<1>1. CASE f.type = "operationFinished"
  <2>1. \E op, final, how, info : FinishAdded(s, s1, op, final, how, info)
    BY <1>0, <1>1, FinishEffect DEF FactDoes
  <2> QED BY <2>1 DEF FinishAdded, NoCompaction
<1>2. CASE f.type = "runStarted"
  <2>1. s1 = DoRunStarted(s, f)
    BY <1>2, Reduced DEF ReducesRunStarted
  <2>2. s1.operation = [kind |-> "run", id |-> f.op, input |-> f.input, step |-> None, abort |-> FALSE]
    BY <1>0, <2>1, Zenon DEF DoRunStarted, State
  <2> QED BY <2>2 DEF NoCompaction
<1>3. CASE f.type \notin {"operationFinished", "runStarted"} /\ ~Idle(s)
  <2>1. CurrentKept(s, s1)
    BY <1>0, <1>3, FactCurrent
  <2> QED BY <1>3, <2>1 DEF CurrentKept, NoCompaction
<1>4. CASE f.type \notin {"operationFinished", "runStarted"} /\ Idle(s)
  <2>1. CASE f.type \in Steady
    BY <1>0, <1>4, <2>1, FactStep DEF StepKept, NoCompaction
  <2>2. CASE f.type = "assistant"
    BY <1>4, <2>2, Reduced DEF ReducesAssistant, CanAssistant, CurrentIs
  <2>3. CASE f.type = "compaction"
    BY <1>4, <2>3, Reduced DEF ReducesCompaction, CanCompaction, CurrentIs
  <2>4. CASE f.type = "stepAttempt"
    <3>1. \E op, step, attempt, new, info : AttemptAdded(s, s1, op, step, attempt, new, info)
      BY <1>0, <2>4, StepAttemptEffect DEF FactDoes
    <3> QED BY <1>4, <3>1 DEF AttemptAdded, CurrentIs
  <2>5. CASE f.type = "stepFailed"
    <3>1. \E a, info : FailureAdded(s, s1, a, info)
      BY <1>0, <2>5, FailureEffect DEF FactDoes
    <3> QED BY <1>4, <3>1 DEF FailureAdded, AttemptEnded
  <2> QED BY <1>0, <1>4, <2>1, <2>2, <2>3, <2>4, <2>5 DEF FactDoes, Steady
<1> QED BY <1>1, <1>2, <1>3, <1>4

(* What the input of a new compaction is must be said by whoever starts it, *)
(* and that no message comes during one.                                    *)
LEMMA FactTail ==
  ASSUME NEW s, NEW s1, Good(s), TailSide(s), NEW f \in Facts, Reduces(s, s1, f),
         f.type = "compactionStarted" => f.input = s.through,
         f.type \in {"user", "result"} => NoCompaction(s)
  PROVE  TailSide(s1)
<1>0. /\ s \in State /\ FactDoes(s, s1, f) /\ Adds(s, s1) /\ Sound(s) /\ Ledger(s)
      /\ OrderSide(s) /\ ContextSide(s) /\ ThroughSide(s) /\ InputSide(s)
  BY FactCases DEF Sound, Good, TailSide
<1>1. CASE f.type = "assistant"
  <2>1. NoCompaction(s)
    BY <1>1, Reduced DEF ReducesAssistant, CanAssistant, CurrentIs, NoCompaction
  <2>2. NoCompaction(s1)
    BY <1>0, <1>1, <2>1, FactNoCompaction
  <2>3. \E i, e : Pushed(s, s1, i, e)
    BY <1>0, <1>1, AssistantMessages DEF FactDoes
  <2>4. ContextSide(s1) /\ ThroughSide(s1)
    BY <1>0, <2>3, PushedTail
  <2> QED BY <2>2, <2>4 DEF TailSide, InputSide
<1>2. CASE f.type \in {"user", "synthetic", "result"}
  <2>1. NoCompaction(s)
    BY <1>2, Reduced DEF ReducesSynthetic, CanSynthetic, NoCompaction
  <2>2. NoCompaction(s1)
    BY <1>0, <1>2, <2>1, FactNoCompaction
  <2>3. \E i, e : Pushed(s, s1, i, e)
    BY <1>0, <1>2, UserMessages, SyntheticMessages, ResultMessages DEF FactDoes
  <2>4. ContextSide(s1) /\ ThroughSide(s1)
    BY <1>0, <2>3, PushedTail
  <2> QED BY <2>2, <2>4 DEF TailSide, InputSide
<1>3. CASE f.type = "compaction"
  <2>1. ~NoCompaction(s)
    BY <1>3, Reduced DEF ReducesCompaction, CanCompaction, CurrentIs, NoCompaction
  <2>2. PICK i, e, through : Summarised(s, s1, i, e, through)
    BY <1>0, <1>3, CompactionMessages DEF FactDoes
  <2>3. ContextSide(s1) /\ ThroughSide(s1)
    BY <1>0, <2>1, <2>2, SummarisedTail
  <2>4. CurrentKept(s, s1)
    BY <1>0, <1>3, FactCurrent
  <2>5. s1.transcript = s.transcript
    BY <2>2 DEF Summarised
  <2>6. InputSide(s1)
    BY <1>0, <2>1, <2>4, <2>5 DEF CurrentKept, InputSide, NoCompaction
  <2> QED BY <2>3, <2>6 DEF TailSide
<1>4. CASE f.type \notin {"assistant", "user", "synthetic", "result", "compaction"}
  <2>1. Silent(s, s1)
    BY <1>0, <1>4, OtherMessages DEF FactDoes
  <2>2. /\ s1.entries = s.entries /\ s1.order = s.order /\ s1.transcript = s.transcript
        /\ s1.context = s.context /\ s1.through = s.through
    BY <2>1 DEF Silent
  <2>3. ContextSide(s1)
    BY <1>0, <2>2 DEF ContextSide, Summary
  <2>4. ThroughSide(s1)
    BY <1>0, <2>2 DEF ThroughSide
  <2>5. InputSide(s1)
    <3>1. CASE f.type = "compactionStarted"
      <4>1. s1 = DoCompactionStarted(s, f) /\ s.entries[f.input] # None
        BY <3>1, Reduced DEF ReducesCompactionStarted, CanCompactionStarted
      <4>2. s1.operation = [kind |-> "compaction", id |-> f.op, input |-> f.input,
                            step |-> None, abort |-> FALSE]
        BY <1>0, <4>1, Zenon DEF DoCompactionStarted, State
      <4>3. f.input \in Id
        BY <3>1 DEF Facts, UserFacts, AssistantFacts, SyntheticFacts, ResultFacts, SummaryFacts,
           RunFacts, CompactionFacts, AttemptFacts, FailureFacts, ToolFacts, AbortFacts,
           FinishFacts, UsageFacts
      <4>4. s.transcript # << >> /\ f.input = s.transcript[Len(s.transcript)]
        BY <1>0, <3>1, <4>3, NoneAssumption DEF ThroughSide
      <4> QED BY <2>2, <4>2, <4>4 DEF InputSide
    <3>2. CASE f.type # "compactionStarted" /\ NoCompaction(s)
      BY <1>0, <3>2, FactNoCompaction DEF InputSide
    <3>3. CASE f.type # "compactionStarted" /\ ~NoCompaction(s)
      <4>1. CASE f.type = "operationFinished"
        <5>1. \E op, final, how, info : FinishAdded(s, s1, op, final, how, info)
          BY <1>0, <4>1, FinishEffect DEF FactDoes
        <5> QED BY <5>1 DEF FinishAdded, NoCompaction, InputSide
      <4>2. CASE f.type # "operationFinished"
        <5>1. CurrentKept(s, s1)
          BY <1>0, <4>2, FactCurrent
        <5> QED BY <1>0, <2>2, <3>3, <5>1 DEF CurrentKept, InputSide, NoCompaction
      <4> QED BY <4>1, <4>2
    <3> QED BY <3>1, <3>2, <3>3
  <2> QED BY <2>3, <2>4, <2>5 DEF TailSide
<1> QED BY <1>1, <1>2, <1>3, <1>4

(* An empty session has an empty context.                                   *)
LEMMA InitialTail == TailSide(InitialState)
<1>1. DOMAIN InitialState.order = {} /\ InitialState.order = << >> /\ InitialState.transcript = << >>
      /\ InitialState.context = << >> /\ InitialState.through = None /\ Idle(InitialState)
  BY DEF InitialState, Idle
<1> QED BY <1>1 DEF TailSide, ContextSide, ThroughSide, InputSide, NoCompaction


-----------------------------------------------------------------------------
(* The calls of the current step *)

(* An open call is one of the answer that settled the current step.         *)
OpenCurrent(s) ==
  \A i, k : OpenCall(s, i, k) =>
    /\ ~Idle(s) /\ s.operation.kind = "run"
    /\ s.operation.step # None /\ s.operation.step.status = "settled"
    /\ s.attempts[s.operation.step.attempt].settled = i

(* A fact that names no step opens no call.                                 *)
LEMMA FactOpens ==
  ASSUME NEW s, NEW s1, NEW f, Sound(s), Ledger(s), FactDoes(s, s1, f), f.type \in Steady
  PROVE  \A i, k : OpenCall(s1, i, k) => OpenCall(s, i, k)
<1>1. ASSUME NoNewCalls(s, s1)
      PROVE  \A i, k : i \in Id /\ s1.entries[i] # None /\ k \in DOMAIN s1.entries[i].calls
               => s.entries[i] # None /\ k \in DOMAIN s.entries[i].calls
  BY <1>1, NoNewOpen
<1>2. CASE f.type = "synthetic"
  <2>1. PICK a, n : CallSkipped(s, s1, a, n)
    BY <1>2, FactCalls
  <2> QED BY <1>1, <2>1 DEF CallSkipped, OpenCall
<1>3. CASE f.type = "result"
  <2>1. PICK t : CallAnswered(s, s1, t)
    BY <1>3, FactCalls
  <2>2. s.tools[t] \in ToolCallState
    BY <2>1, ToolFields DEF CallAnswered
  <2>3. s1.tools[t].status = "completed"
    BY <2>1, <2>2 DEF CallAnswered, ToolCallState
  <2> QED BY <1>1, <2>1, <2>3 DEF CallAnswered, OpenCall
<1>4. CASE f.type = "toolStarted"
  <2>1. PICK t : CallStarted(s, s1, t)
    BY <1>4, FactCalls
  <2> SUFFICES ASSUME NEW i, NEW k, OpenCall(s1, i, k) PROVE OpenCall(s, i, k)
    OBVIOUS
  <2>2. i \in Id /\ s.entries[i] # None /\ k \in DOMAIN s.entries[i].calls
    <3>1. s1.entries = s.entries
      BY <2>1, Zenon DEF CallStarted
    <3>2. i \in Id /\ s1.entries[i] # None /\ k \in DOMAIN s1.entries[i].calls
      BY Zenon DEF OpenCall
    <3> QED BY <3>1, <3>2, Zenon
  <2>3. CASE <<i, k>> \notin s.pairs
    BY <2>2, <2>3 DEF OpenCall
  <2>4. CASE <<i, k>> \in s.pairs
    <3>0. /\ <<s1.tools[t].assistant, s1.tools[t].index>> \notin s.pairs
          /\ \A u \in Id : u # t => s1.tools[u] = s.tools[u]
          /\ s1.pairs = s.pairs \cup {<<s1.tools[t].assistant, s1.tools[t].index>>}
      BY <2>1, Zenon DEF CallStarted
    <3>1. <<i, k>> \in s1.pairs
      BY <2>4, <3>0, Zenon
    <3>2. PICK u \in Id : /\ s1.tools[u] # None /\ s1.tools[u].status = "pending"
                          /\ s1.tools[u].assistant = i /\ s1.tools[u].index = k
      BY <3>1, Zenon DEF OpenCall
    <3>3. u # t
      BY <2>4, <3>0, <3>2, Zenon
    <3>4. s1.tools[u] = s.tools[u]
      BY <3>0, <3>3, Zenon
    <3> QED BY <2>2, <3>2, <3>4, Zenon DEF OpenCall
  <2> QED BY <2>3, <2>4
<1>5. CASE f.type \notin {"synthetic", "result", "toolStarted"}
  <2>1. CallsKept(s, s1)
    BY <1>5, FactCalls DEF Steady
  <2> QED BY <1>1, <2>1 DEF CallsKept, OpenCall
<1> QED BY <1>2, <1>3, <1>4, <1>5

(* So the open calls stay those of the current step.                        *)
LEMMA FactOpenCurrent ==
  ASSUME NEW s, NEW s1, NEW f, Sound(s), Ledger(s), FactDoes(s, s1, f), f.type \in Steady,
         OpenCurrent(s)
  PROVE  OpenCurrent(s1)
<1>1. StepKept(s, s1) /\ CurrentKept(s, s1)
  BY FactStep, FactCurrent DEF Steady
<1>2. \A i, k : OpenCall(s1, i, k) => OpenCall(s, i, k)
  BY FactOpens
<1> QED BY <1>1, <1>2, Zenon DEF OpenCurrent, StepKept, CurrentKept

(* Message n is the answer of the current step, and what follows are        *)
(* results of its calls.                                                    *)
Asks(s, n) ==
  /\ s.transcript[n] = s.attempts[s.operation.step.attempt].settled
  /\ s.entries[s.transcript[n]].type = "assistant"
  /\ \A m \in DOMAIN s.transcript : m > n =>
       /\ s.entries[s.transcript[m]].type = "tool"
       /\ s.entries[s.transcript[m]].call \notin s.unanswered

(* While a call is open, the transcript ends with the answer of the current *)
(* step and the results it has so far.                                      *)
AskedLast(s) == s.unanswered # {} => \E n \in DOMAIN s.transcript : Asks(s, n)

(* A result is added to them.                                               *)
LEMMA AskedLastAppend ==
  ASSUME NEW s, NEW s1, s \in State, OrderSide(s), AskedLast(s), EntriesPersist(s, s1),
         s1.unanswered \subseteq s.unanswered, ~Idle(s) /\ StepKept(s, s1),
         \/ s1.transcript = s.transcript
         \/ \E i : /\ s1.transcript = Append(s.transcript, i) /\ s1.entries[i].type = "tool"
                  /\ s1.entries[i].call \notin s1.unanswered
  PROVE  AskedLast(s1)
<1> SUFFICES ASSUME s1.unanswered # {} PROVE \E n \in DOMAIN s1.transcript : Asks(s1, n)
  BY Zenon DEF AskedLast
<1>0. PICK n \in DOMAIN s.transcript : Asks(s, n)
  BY DEF AskedLast
<1>1. /\ s.transcript[n] = s.attempts[s.operation.step.attempt].settled
      /\ s.entries[s.transcript[n]].type = "assistant"
      /\ \A m \in DOMAIN s.transcript : m > n =>
           /\ s.entries[s.transcript[m]].type = "tool"
           /\ s.entries[s.transcript[m]].call \notin s.unanswered
  BY <1>0, Zenon DEF Asks
<1>2. s1.attempts[s1.operation.step.attempt].settled = s.attempts[s.operation.step.attempt].settled
  BY DEF StepKept
<1> DEFINE L == Len(s.transcript)
<1>3. L \in Nat /\ DOMAIN s.transcript = 1..L /\ \A m \in 1..L : s.transcript[m] \in Id
  BY Fields
<1>4. \A m \in 1..L : s1.entries[s.transcript[m]] = s.entries[s.transcript[m]]
  <2>1. \A m \in 1..L : s.entries[s.transcript[m]] # None
    BY <1>3 DEF OrderSide
  <2> QED BY <1>3, <2>1, Zenon DEF EntriesPersist
<1>5. \A m \in 1..L : m > n =>
        /\ s1.entries[s.transcript[m]].type = "tool"
        /\ s1.entries[s.transcript[m]].call \notin s1.unanswered
  BY <1>1, <1>3, <1>4
<1>6. n \in 1..L /\ s1.entries[s.transcript[n]].type = "assistant"
  <2>1. n \in 1..L
    BY <1>3
  <2> QED BY <1>1, <1>4, <2>1, Zenon
<1>7. CASE s1.transcript = s.transcript
  <2>1. Asks(s1, n)
    BY <1>1, <1>2, <1>3, <1>5, <1>6, <1>7, Zenon DEF Asks
  <2> QED BY <1>7, <2>1, Zenon
<1>8. CASE \E i : /\ s1.transcript = Append(s.transcript, i) /\ s1.entries[i].type = "tool"
                  /\ s1.entries[i].call \notin s1.unanswered
  <2>1. PICK i : /\ s1.transcript = Append(s.transcript, i) /\ s1.entries[i].type = "tool"
                 /\ s1.entries[i].call \notin s1.unanswered
    BY <1>8
  <2>2. /\ DOMAIN s1.transcript = 1..(L + 1) /\ s1.transcript[L + 1] = i
        /\ \A m \in 1..L : s1.transcript[m] = s.transcript[m]
    BY <1>3, <2>1
  <2>3. ASSUME NEW m \in 1..(L + 1), m > n
        PROVE  /\ s1.entries[s1.transcript[m]].type = "tool"
               /\ s1.entries[s1.transcript[m]].call \notin s1.unanswered
    <3>1. CASE m = L + 1
      BY <2>1, <2>2, <3>1, Zenon
    <3>2. CASE m # L + 1
      <4>1. m \in 1..L
        BY <1>3, <3>2
      <4> QED BY <1>5, <2>2, <2>3, <4>1
    <3> QED BY <3>1, <3>2
  <2>4. n \in 1..(L + 1) /\ s1.transcript[n] = s.transcript[n]
    BY <1>3, <1>6, <2>2
  <2>5. Asks(s1, n)
    BY <1>1, <1>2, <1>6, <2>2, <2>3, <2>4, Zenon DEF Asks
  <2> QED BY <2>2, <2>4, <2>5, Zenon
<1> QED BY <1>7, <1>8

(* The open calls are those of the current step, and it was the last to ask. *)
OpenSide(s) == OpenCurrent(s) /\ AskedLast(s)

(* A fact that names no step keeps it so: only a result can be added while  *)
(* a call is open.                                                          *)
LEMMA FactOpenSide ==
  ASSUME NEW s, NEW s1, NEW f \in Facts, Good(s), Reduces(s, s1, f), f.type \in Steady,
         OpenSide(s)
  PROVE  OpenSide(s1)
<1>1. /\ s \in State /\ Sound(s) /\ Ledger(s) /\ OrderSide(s) /\ CallSide(s)
      /\ FactDoes(s, s1, f) /\ Adds(s, s1) /\ EntriesPersist(s, s1)
  BY FactCases, GoodNext DEF Good, Sound
<1>2. OpenCurrent(s1)
  BY <1>1, FactOpenCurrent DEF OpenSide
<1>3. StepKept(s, s1) /\ s1.unanswered \subseteq s.unanswered
  BY <1>1, FactStep, FactAnswers DEF Steady
<1>4. CASE s1.unanswered = {}
  BY <1>2, <1>4 DEF OpenSide, AskedLast
<1>5. CASE s1.unanswered # {}
  <2>1. PICK c \in s.unanswered : TRUE
    BY <1>3, <1>5
  <2>2. ~Idle(s)
    BY <1>1, <2>1, Zenon DEF CallSide, UnansweredOpen, OpenSide, OpenCurrent
  <2>3. \/ s1.transcript = s.transcript
        \/ \E i : /\ s1.transcript = Append(s.transcript, i) /\ s1.entries[i].type = "tool"
                 /\ s1.entries[i].call \notin s1.unanswered
    <3>1. Messages(s, s1)
      BY <1>1, AddsMessages
    <3>2. CASE Silent(s, s1)
      BY <3>2 DEF Silent
    <3>3. CASE \E i, e, through : Summarised(s, s1, i, e, through)
      BY <3>3 DEF Summarised
    <3>4. CASE \E i, e : Pushed(s, s1, i, e)
      <4>1. PICK i, e : Pushed(s, s1, i, e)
        BY <3>4
      <4>2. /\ i \in Id /\ Legal(e, s.unanswered) /\ MessagesOf(s1, Push(s, i, e))
        BY <4>1, Zenon DEF Pushed
      <4>3. e.type = "tool"
        BY <2>1, <4>2 DEF Legal
      <4>4. /\ s1.transcript = Append(s.transcript, i) /\ s1.entries[i] = e
            /\ s1.unanswered = Unanswered(e, s.unanswered)
        BY <1>1, <4>2, Fields DEF MessagesOf, Push, State
      <4>5. s1.unanswered = s.unanswered \ {e.call}
        BY <4>3, <4>4 DEF Unanswered
      <4> QED BY <4>3, <4>4, <4>5
    <3> QED BY <3>1, <3>2, <3>3, <3>4 DEF Messages
  <2> QED BY <1>1, <1>2, <1>3, <2>2, <2>3, AskedLastAppend DEF OpenSide
<1> QED BY <1>4, <1>5

(* Only messages and summaries change the transcript and the context.       *)
LEMMA FactSilent ==
  ASSUME NEW s, NEW s1, NEW f, Sound(s), Ledger(s), FactDoes(s, s1, f),
         f.type \notin {"user", "assistant", "synthetic", "result", "compaction"}
  PROVE  Silent(s, s1)
BY OtherMessages DEF FactDoes

-----------------------------------------------------------------------------
(* What the facts F keep, whichever they are and in whatever order *)

Without(F, types) == \A f \in F : f.type \notin types

KeepsTools(s, s1, F) ==
  /\ ToolsKept(s, s1)
  /\ Without(F, {"toolStarted"}) => NoneStarted(s, s1)
  /\ Without(F, {"toolStarted", "result"}) => s1.tools = s.tools

KeepsCharges(s, s1, F) ==
  /\ Without(F, {"usage"}) => s1.usage = s.usage
  /\ Without(F, {"assistant", "compaction"}) => SettledAttempts(s1) = SettledAttempts(s)

KeepsOperation(s, s1, F) ==
  /\ Without(F, {"operationFinished"}) => CurrentKept(s, s1)
  /\ F \subseteq {f \in F : f.type \in Steady} => StepKept(s, s1)

KeepsCalls(s, s1, F) ==
  Without(F, {"assistant"}) =>
    /\ s1.unanswered \subseteq s.unanswered
    /\ \A f \in F : f.type \in {"synthetic", "result"} => f.call \notin s1.unanswered

KeepsTail(s, s1, F) ==
  /\ Without(F, {"compactionStarted"}) /\ NoCompaction(s) =>
       NoCompaction(s1) /\ (TailSide(s) => TailSide(s1))
  /\ Without(F, {"user", "result", "compactionStarted"}) /\ TailSide(s) => TailSide(s1)

(* Facts that name no step open no call beside those of the current step.   *)
KeepsOpen(s, s1, F) ==
  F \subseteq {f \in F : f.type \in Steady} /\ OpenSide(s) => OpenSide(s1)

KeepsMessages(s, s1, F) ==
  Without(F, {"user", "assistant", "synthetic", "result", "compaction"}) => Silent(s, s1)

Keeps(s, s1, F) ==
  /\ EntriesPersist(s, s1) /\ KeepsOpen(s, s1, F) /\ KeepsMessages(s, s1, F)
  /\ KeepsTools(s, s1, F) /\ KeepsCharges(s, s1, F) /\ KeepsOperation(s, s1, F)
  /\ KeepsCalls(s, s1, F) /\ KeepsTail(s, s1, F)

(* No fact keeps everything.                                                *)
LEMMA KeepsNone ==
  ASSUME NEW s
  PROVE  Keeps(s, s, {})
BY DEF Keeps, EntriesPersist, KeepsTools, ToolsKept, NoneStarted, KeepsCharges, KeepsOperation,
   CurrentKept, StepKept, KeepsCalls, KeepsTail, KeepsOpen, KeepsMessages, Silent

(* One fact does.                                                           *)
LEMMA KeepsOne ==
  ASSUME NEW s, NEW s1, Good(s), NEW f \in Facts, Reduces(s, s1, f)
  PROVE  Keeps(s, s1, {f})
<1>0. /\ s \in State /\ FactDoes(s, s1, f) /\ Sound(s) /\ Ledger(s)
      /\ SettledSide(s) /\ EntriesPersist(s, s1)
  BY FactCases, GoodNext DEF Sound, Good
<1>1. KeepsTools(s, s1, {f})
  <2>1. ToolsKept(s, s1) /\ (f.type # "toolStarted" => NoneStarted(s, s1))
    BY <1>0, FactTools
  <2>2. f.type \notin {"toolStarted", "result"} => s1.tools = s.tools
    <3>1. CASE f.type = "assistant"
      <4>1. PICK i : CallsAsked(s, s1, i)
        BY <1>0, <3>1, FactCalls
      <4> QED BY <4>1 DEF CallsAsked
    <3>2. CASE f.type = "synthetic"
      <4>1. PICK a, n : CallSkipped(s, s1, a, n)
        BY <1>0, <3>2, FactCalls
      <4> QED BY <4>1 DEF CallSkipped
    <3>3. CASE f.type \notin {"assistant", "synthetic", "toolStarted", "result"}
      BY <1>0, <3>3, FactCalls DEF CallsKept
    <3> QED BY <3>1, <3>2, <3>3
  <2> QED BY <2>1, <2>2 DEF KeepsTools, Without
<1>2. KeepsCharges(s, s1, {f})
  <2>1. f.type # "usage" => s1.usage = s.usage
    BY <1>0, FactCharge
  <2>2. f.type \notin {"assistant", "compaction"} => SettledAttempts(s1) = SettledAttempts(s)
    BY <1>0, FactSettles, SettlesNoneSide
  <2> QED BY <2>1, <2>2 DEF KeepsCharges, Without
<1>3. KeepsOperation(s, s1, {f})
  <2>1. f.type # "operationFinished" => CurrentKept(s, s1)
    BY <1>0, FactCurrent
  <2>2. f.type \in Steady => StepKept(s, s1)
    BY <1>0, FactStep
  <2> QED BY <2>1, <2>2 DEF KeepsOperation, Without
<1>4. KeepsCalls(s, s1, {f})
  BY <1>0, FactAnswers DEF KeepsCalls, Without
<1>5. KeepsTail(s, s1, {f})
  <2>1. f.type # "compactionStarted" /\ NoCompaction(s) => NoCompaction(s1)
    BY <1>0, FactNoCompaction
  <2>2. f.type # "compactionStarted" /\ NoCompaction(s) /\ TailSide(s) => TailSide(s1)
    BY FactTail
  <2>3. f.type \notin {"user", "result", "compactionStarted"} /\ TailSide(s) => TailSide(s1)
    BY FactTail
  <2> QED BY <2>1, <2>2, <2>3 DEF KeepsTail, Without
<1>6. KeepsOpen(s, s1, {f})
  <2>1. f.type \in Steady /\ OpenSide(s) => OpenSide(s1)
    BY FactOpenSide
  <2> QED BY <2>1 DEF KeepsOpen
<1>7. KeepsMessages(s, s1, {f})
  <2>1. f.type \notin {"user", "assistant", "synthetic", "result", "compaction"} => Silent(s, s1)
    BY <1>0, FactSilent
  <2> QED BY <2>1 DEF KeepsMessages, Without
<1> QED BY <1>0, <1>1, <1>2, <1>3, <1>4, <1>5, <1>6, <1>7 DEF Keeps

(* And what facts keep one after the other is kept.                         *)
LEMMA KeepsBoth ==
  ASSUME NEW s, NEW s1, NEW s2, NEW F, NEW G, Keeps(s, s1, F), Keeps(s1, s2, G)
  PROVE  Keeps(s, s2, F \cup G)
<1> DEFINE H == F \cup G
<1>0. \A types : Without(H, types) => Without(F, types) /\ Without(G, types)
  BY DEF Without
<1>1. EntriesPersist(s, s2)
  BY DEF Keeps, EntriesPersist
<1>2. KeepsTools(s, s2, H)
  <2>1. ToolsKept(s, s2)
    <3>1. ToolsKept(s, s1) /\ ToolsKept(s1, s2)
      BY DEF Keeps, KeepsTools
    <3> QED BY <3>1 DEF ToolsKept
  <2>2. NoneStarted(s, s1) /\ NoneStarted(s1, s2) => NoneStarted(s, s2)
    BY DEF NoneStarted
  <2> QED BY <1>0, <2>1, <2>2 DEF Keeps, KeepsTools
<1>3. KeepsCharges(s, s2, H)
  BY <1>0 DEF Keeps, KeepsCharges
<1>4. KeepsOperation(s, s2, H)
  <2>1. CurrentKept(s, s1) /\ CurrentKept(s1, s2) => CurrentKept(s, s2)
    BY DEF CurrentKept
  <2>2. StepKept(s, s1) /\ StepKept(s1, s2) => StepKept(s, s2)
    BY DEF StepKept
  <2>3. Without(H, {"operationFinished"}) => CurrentKept(s, s2)
    BY <1>0, <2>1 DEF Keeps, KeepsOperation
  <2>4. ASSUME H \subseteq {f \in H : f.type \in Steady} PROVE StepKept(s, s2)
    <3>1. F \subseteq {f \in F : f.type \in Steady} /\ G \subseteq {f \in G : f.type \in Steady}
      BY <2>4
    <3> QED BY <2>2, <3>1 DEF Keeps, KeepsOperation
  <2> QED BY <2>3, <2>4 DEF KeepsOperation
<1>5. KeepsCalls(s, s2, H)
  <2> SUFFICES ASSUME Without(H, {"assistant"})
               PROVE  /\ s2.unanswered \subseteq s.unanswered
                      /\ \A f \in H : f.type \in {"synthetic", "result"} => f.call \notin s2.unanswered
    BY DEF KeepsCalls
  <2>1. /\ s1.unanswered \subseteq s.unanswered /\ s2.unanswered \subseteq s1.unanswered
        /\ \A f \in F : f.type \in {"synthetic", "result"} => f.call \notin s1.unanswered
        /\ \A f \in G : f.type \in {"synthetic", "result"} => f.call \notin s2.unanswered
    BY <1>0 DEF Keeps, KeepsCalls
  <2> QED BY <2>1
<1>6. KeepsTail(s, s2, H)
  BY <1>0 DEF Keeps, KeepsTail
<1>7. KeepsOpen(s, s2, H)
  <2>1. ASSUME H \subseteq {f \in H : f.type \in Steady}, OpenSide(s) PROVE OpenSide(s2)
    <3>1. F \subseteq {f \in F : f.type \in Steady} /\ G \subseteq {f \in G : f.type \in Steady}
      BY <2>1
    <3> QED BY <2>1, <3>1 DEF Keeps, KeepsOpen
  <2> QED BY <2>1 DEF KeepsOpen
<1>8. KeepsMessages(s, s2, H)
  <2>1. Silent(s, s1) /\ Silent(s1, s2) => Silent(s, s2)
    BY DEF Silent
  <2> QED BY <1>0, <2>1 DEF Keeps, KeepsMessages
<1> QED BY <1>1, <1>2, <1>3, <1>4, <1>5, <1>6, <1>7, <1>8 DEF Keeps

-----------------------------------------------------------------------------
(* Lines *)

(* The states after each fact of a line, from s to s1.                      *)
Trace(s, s1, facts, t) ==
  /\ t[0] = s /\ t[Len(facts)] = s1
  /\ \A n \in 1..Len(facts) : Reduces(t[n - 1], t[n], facts[n])

(* What a line leads to is what its facts lead to, one after the other.     *)
LEMMA LineTrace ==
  ASSUME NEW s, NEW s1, NEW facts, Len(facts) \in Nat, s1 \in ReduceLine(s, facts)
  PROVE  \E t : Trace(s, s1, facts, t)
<1> DEFINE Step(S, n) == {Apply(p[1], p[2]) :
                            p \in {q \in S \X {facts[n]} : Accepts(q[1], q[2])}}
           States(f, m) == f = [n \in 0..m |-> IF n = 0 THEN {s} ELSE Step(f[n - 1], n)]
           T == {m \in Nat : \E f : States(f, m)}
           L == Len(facts)
           after == CHOOSE f : States(f, L)
<1>1. 0 \in T
  <2>1. States([n \in 0..0 |-> {s}], 0)
    OBVIOUS
  <2> QED BY <2>1
<1>2. ASSUME NEW m \in T PROVE m + 1 \in T
  <2>1. PICK f : States(f, m)
    OBVIOUS
  <2> DEFINE g == [n \in 0..(m + 1) |-> IF n = m + 1 THEN Step(f[m], n) ELSE f[n]]
  <2>2. \A n \in 0..m : f[n] = IF n = 0 THEN {s} ELSE Step(f[n - 1], n)
    BY <2>1
  <2> HIDE DEF Step
  <2>3. \A n \in 0..(m + 1) : g[n] = IF n = 0 THEN {s} ELSE Step(g[n - 1], n)
    <3> SUFFICES ASSUME NEW n \in 0..(m + 1)
                 PROVE  g[n] = IF n = 0 THEN {s} ELSE Step(g[n - 1], n)
      OBVIOUS
    <3>1. CASE n = m + 1
      <4>1. g[n] = Step(f[m], n) /\ n - 1 \in 0..(m + 1) /\ n - 1 # m + 1 /\ n - 1 = m /\ n # 0
        BY <3>1
      <4>2. g[n - 1] = f[m]
        BY <4>1
      <4> QED BY <4>1, <4>2
    <3>2. CASE n # m + 1
      <4>1. n \in 0..m /\ g[n] = f[n]
        BY <3>2
      <4>2. n # 0 => g[n - 1] = f[n - 1]
        BY <4>1
      <4> QED BY <2>2, <4>1, <4>2
    <3> QED BY <3>1, <3>2
  <2>4. g = [n \in 0..(m + 1) |-> IF n = 0 THEN {s} ELSE Step(g[n - 1], n)]
    <3> DEFINE h == [n \in 0..(m + 1) |-> IF n = 0 THEN {s} ELSE Step(g[n - 1], n)]
    <3>1. \A n \in 0..(m + 1) : g[n] = h[n]
      BY <2>3
    <3>2. DOMAIN g = 0..(m + 1) /\ DOMAIN h = 0..(m + 1)
      OBVIOUS
    <3>3. g = [n \in 0..(m + 1) |-> g[n]] /\ h = [n \in 0..(m + 1) |-> h[n]]
      OBVIOUS
    <3> HIDE DEF g, h
    <3>4. g = h
      BY <3>1, <3>3, Zenon
    <3> QED BY <3>4 DEF h
  <2>5. States(g, m + 1)
    BY <2>4
  <2> HIDE DEF States
  <2> QED BY <2>5
<1>3. Nat \subseteq T
  <2> HIDE DEF T
  <2> QED BY <1>1, <1>2, SetInduction DEF T
<1>4. States(after, L)
  <2>1. \E f : States(f, L)
    BY <1>3
  <2> HIDE DEF States
  <2> QED BY <2>1
<1>5. ReduceLine(s, facts) = after[L]
  BY Zenon DEF ReduceLine
<1>6. \A n \in 0..L : after[n] = IF n = 0 THEN {s} ELSE Step(after[n - 1], n)
  BY <1>4, Zenon
<1> HIDE DEF after, Step
<1> DEFINE Ends(n, x) == \E t : /\ t[0] = s /\ t[n] = x
                                /\ \A k \in 1..n : Reduces(t[k - 1], t[k], facts[k])
           R == {n \in Nat : n <= L => \A x \in after[n] : Ends(n, x)}
<1>7. 0 \in R
  <2>1. after[0] = {s}
    BY <1>6
  <2>2. Ends(0, s)
    <3> DEFINE t == [n \in 0..0 |-> s]
    <3>1. t[0] = s
      OBVIOUS
    <3>2. \A k \in 1..0 : Reduces(t[k - 1], t[k], facts[k])
      OBVIOUS
    <3> HIDE DEF t
    <3> QED BY <3>1, <3>2
  <2> QED BY <2>1, <2>2
<1>8. ASSUME NEW n \in R PROVE n + 1 \in R
  <2> SUFFICES ASSUME n + 1 <= L, NEW x \in after[n + 1] PROVE Ends(n + 1, x)
    OBVIOUS
  <2>1. n + 1 \in 0..L /\ n + 1 # 0 /\ (n + 1) - 1 = n /\ n <= L
    OBVIOUS
  <2>2. after[n + 1] = Step(after[n], n + 1)
    BY <1>6, <2>1
  <2>3. PICK y \in after[n] : Accepts(y, facts[n + 1]) /\ x = Apply(y, facts[n + 1])
    BY <2>2 DEF Step
  <2>4. Ends(n, y)
    BY <2>1, <2>3
  <2>5. PICK t : /\ t[0] = s /\ t[n] = y
                 /\ \A k \in 1..n : Reduces(t[k - 1], t[k], facts[k])
    BY <2>4
  <2> DEFINE u == [k \in 0..(n + 1) |-> IF k = n + 1 THEN x ELSE t[k]]
  <2>6. u[0] = s /\ u[n + 1] = x /\ u[n] = y
    BY <2>5
  <2>7. ASSUME NEW k \in 1..(n + 1) PROVE Reduces(u[k - 1], u[k], facts[k])
    <3>1. CASE k = n + 1
      <4>1. u[k - 1] = y /\ u[k] = x
        BY <2>6, <3>1
      <4> QED BY <2>3, <3>1, <4>1 DEF Reduces
    <3>2. CASE k # n + 1
      <4>1. k \in 1..n /\ u[k] = t[k] /\ u[k - 1] = t[k - 1]
        BY <3>2
      <4> QED BY <2>5, <4>1
    <3> QED BY <3>1, <3>2
  <2> HIDE DEF u
  <2> QED BY <2>6, <2>7
<1>9. Nat \subseteq R
  <2> HIDE DEF R
  <2> QED BY <1>7, <1>8, SetInduction DEF R
<1>10. Ends(L, s1)
  BY <1>5, <1>9
<1> QED BY <1>10 DEF Trace

Members(facts) == {facts[n] : n \in 1..Len(facts)}

(* A line of facts keeps the session good, and what its facts keep.         *)
LEMMA LineKept ==
  ASSUME NEW s, NEW s1, Good(s), NEW facts, Len(facts) \in Nat,
         \A n \in 1..Len(facts) : facts[n] \in Facts, s1 \in ReduceLine(s, facts)
  PROVE  Good(s1) /\ Keeps(s, s1, Members(facts))
<1> DEFINE First(n) == {facts[k] : k \in 1..n}
           L == Len(facts)
<1>1. PICK t : Trace(s, s1, facts, t)
  BY LineTrace
<1>2. /\ t[0] = s /\ t[L] = s1
      /\ \A n \in 1..L : Reduces(t[n - 1], t[n], facts[n])
  BY <1>1 DEF Trace
<1> DEFINE T == {n \in Nat : n <= L => Good(t[n]) /\ Keeps(s, t[n], First(n))}
<1>3. 0 \in T
  <2>1. First(0) = {}
    OBVIOUS
  <2> HIDE DEF First
  <2> QED BY <1>2, <2>1, KeepsNone
<1>4. ASSUME NEW n \in T PROVE n + 1 \in T
  <2> SUFFICES ASSUME n + 1 <= L PROVE Good(t[n + 1]) /\ Keeps(s, t[n + 1], First(n + 1))
    OBVIOUS
  <2>1. n \in Nat /\ n + 1 \in 1..L /\ (n + 1) - 1 = n /\ n <= L
    OBVIOUS
  <2>2. Reduces(t[n], t[n + 1], facts[n + 1]) /\ facts[n + 1] \in Facts
    BY <1>2, <2>1
  <2>3. Good(t[n]) /\ Keeps(s, t[n], First(n))
    BY <2>1
  <2>4. Good(t[n + 1]) /\ Keeps(t[n], t[n + 1], {facts[n + 1]})
    BY <2>2, <2>3, GoodNext, KeepsOne
  <2>5. First(n + 1) = First(n) \cup {facts[n + 1]}
    <3>1. \A k : k \in 1..(n + 1) <=> k \in 1..n \/ k = n + 1
      BY <2>1
    <3> QED BY <3>1
  <2> HIDE DEF First
  <2>6. Keeps(s, t[n + 1], First(n) \cup {facts[n + 1]})
    BY <2>3, <2>4, KeepsBoth
  <2> QED BY <2>4, <2>5, <2>6
<1>5. L \in T
  <2>1. T \in SUBSET Nat /\ L \in Nat
    OBVIOUS
  <2> HIDE DEF T, L
  <2>2. Nat \subseteq T
    BY <1>3, <1>4, <2>1, SetInduction
  <2> QED BY <2>1, <2>2
<1>6. First(L) = Members(facts)
  BY DEF Members
<1> HIDE DEF First
<1> QED BY <1>2, <1>5, <1>6

(* A line of one fact.                                                      *)
LEMMA LineOne ==
  ASSUME NEW s, NEW s1, NEW f, s1 \in ReduceLine(s, <<f>>)
  PROVE  Reduces(s, s1, f)
<1>1. PICK t : Trace(s, s1, <<f>>, t)
  BY LineTrace
<1>2. t[0] = s /\ t[1] = s1 /\ \A n \in 1..1 : Reduces(t[n - 1], t[n], <<f>>[n])
  BY <1>1 DEF Trace
<1>3. Reduces(t[1 - 1], t[1], <<f>>[1])
  BY <1>2
<1> QED BY <1>2, <1>3

(* A line of two facts.                                                     *)
LEMMA LineTwo ==
  ASSUME NEW s, NEW s1, NEW f, NEW g, s1 \in ReduceLine(s, <<f, g>>)
  PROVE  \E m : Reduces(s, m, f) /\ Reduces(m, s1, g)
<1>1. PICK t : Trace(s, s1, <<f, g>>, t)
  BY LineTrace
<1>2. t[0] = s /\ t[2] = s1 /\ \A n \in 1..2 : Reduces(t[n - 1], t[n], <<f, g>>[n])
  BY <1>1 DEF Trace
<1>3. Reduces(t[1 - 1], t[1], <<f, g>>[1]) /\ Reduces(t[2 - 1], t[2], <<f, g>>[2])
  BY <1>2
<1>4. Reduces(s, t[1], f) /\ Reduces(t[1], s1, g)
  BY <1>2, <1>3
<1> QED BY <1>4

(* What the facts keep is kept by any that include them.                    *)
LEMMA MembersOne ==
  ASSUME NEW f
  PROVE  Len(<<f>>) = 1 /\ Members(<<f>>) = {f}
<1>1. Len(<<f>>) = 1 /\ <<f>>[1] = f
  OBVIOUS
<1>2. 1..Len(<<f>>) = {1}
  BY <1>1
<1> QED BY <1>1, <1>2, Zenon DEF Members

(* The facts of a line of two.                                              *)
LEMMA MembersTwo ==
  ASSUME NEW f, NEW g
  PROVE  Len(<<f, g>>) = 2 /\ Members(<<f, g>>) = {f, g}
<1>1. Len(<<f, g>>) = 2 /\ <<f, g>>[1] = f /\ <<f, g>>[2] = g
  OBVIOUS
<1>2. 1..Len(<<f, g>>) = {1, 2}
  BY <1>1
<1>3. Members(<<f, g>>) = {<<f, g>>[n] : n \in {1, 2}}
  BY <1>2, Zenon DEF Members
<1> QED BY <1>1, <1>3

-----------------------------------------------------------------------------
(* What opens and closes *)

OpenAttempt(t, a) == t.attempts[a] # None /\ ~t.attempts[a].closed

NoneOpened(t) == \A a \in Id : ~OpenAttempt(t, a)

(* An attempt that is open belongs to an unfinished operation and has no    *)
(* answer.                                                                  *)
OpenFits(t) ==
  \A a \in Id : OpenAttempt(t, a) =>
    Unfinished(t, t.attempts[a].op) /\ t.attempts[a].settled = None

(* What one fact does: an operation starts or ends, an attempt opens,       *)
(* closing those of its step, or closes, a tool is started or answered.     *)
SameOperations1(t, t1) == \A op \in Id : Unfinished(t1, op) <=> Unfinished(t, op)

OpBegins(t, t1, new) ==
  /\ new \in Id /\ t.operations[new] = None /\ t1.operations[new] # None
  /\ \A op \in Id : Unfinished(t1, op) <=> Unfinished(t, op) \/ op = new

OpEnds(t, t1, old) ==
  /\ old \in Id /\ Unfinished(t, old) /\ Idle(t1)
  /\ \A op \in Id : Unfinished(t1, op) <=> Unfinished(t, op) /\ op # old

AttemptStays(t, t1, a) ==
  /\ t1.attempts[a] = None <=> t.attempts[a] = None
  /\ t.attempts[a] # None =>
       /\ t1.attempts[a].op = t.attempts[a].op /\ t1.attempts[a].kind = t.attempts[a].kind
       /\ t1.attempts[a].settled = t.attempts[a].settled
       /\ t.attempts[a].closed => t1.attempts[a].closed

Opens(t, t1, f) ==
  /\ f.attempt \in Id /\ t.attempts[f.attempt] = None
  /\ OpenAttempt(t1, f.attempt) /\ t1.attempts[f.attempt].op = f.op
  /\ t1.attempts[f.attempt].kind = f.kind /\ t1.attempts[f.attempt].settled = None
  /\ f.op \in Id /\ Unfinished(t, f.op)
  /\ f.kind \in {"run", "compaction"}
  /\ \A a \in Id \ {f.attempt} : AttemptStays(t, t1, a)

Closes(t, t1, old, answer) ==
  /\ old \in Id /\ OpenAttempt(t, old) /\ t1.attempts[old] # None /\ t1.attempts[old].closed
  /\ t1.attempts[old].op = t.attempts[old].op /\ t1.attempts[old].kind = t.attempts[old].kind
  /\ t1.attempts[old].settled = answer
  /\ \A a \in Id \ {old} : t1.attempts[a] = t.attempts[a]

StartsTool(t, t1, new) ==
  /\ new \in Id /\ t.tools[new] = None
  /\ t1.tools[new] # None /\ t1.tools[new].status = "pending"
  /\ \A u \in Id \ {new} : t1.tools[u] = t.tools[u]

CompletesTool(t, t1, old) ==
  /\ old \in Id /\ t.tools[old] # None /\ t.tools[old].status = "pending"
  /\ t1.tools[old] # None /\ t1.tools[old].status = "completed"
  /\ \A u \in Id \ {old} : t1.tools[u] = t.tools[u]

(* And the fact by its type.                                                *)
Follows(t, t1, f) ==
  /\ f.type \in {"runStarted", "compactionStarted"} => OpBegins(t, t1, f.op)
  /\ f.type = "operationFinished" => OpEnds(t, t1, f.op)
  /\ f.type \notin {"runStarted", "compactionStarted", "operationFinished"}
       => SameOperations1(t, t1)
  /\ f.type = "stepAttempt" => Opens(t, t1, f)
  /\ f.type = "assistant" => f.id \in Id /\ Closes(t, t1, f.attempt, f.id)
  /\ f.type = "stepFailed" => Closes(t, t1, f.attempt, t.attempts[f.attempt].settled)
  /\ f.type = "compaction" =>
       /\ f.id \in Id /\ ~Idle(t) /\ f.op = t.operation.id /\ t.operation.step # None
       /\ Closes(t, t1, t.operation.step.attempt, f.id)
  /\ f.type \notin {"stepAttempt", "assistant", "stepFailed", "compaction"}
       => t1.attempts = t.attempts
  /\ f.type = "toolStarted" => StartsTool(t, t1, f.id)
  /\ f.type = "result" => CompletesTool(t, t1, f.started)
  /\ f.type \notin {"toolStarted", "result"} => t1.tools = t.tools

(* The start of an operation.                                               *)
LEMMA BeginsFollows ==
  ASSUME NEW t, NEW t1, Good(t), Good(t1), NEW f \in Facts, Reduces(t, t1, f),
         f.type \in {"runStarted", "compactionStarted"}
  PROVE  OpBegins(t, t1, f.op) /\ t1.attempts = t.attempts /\ t1.tools = t.tools
<1>1. f.op \in Id
  BY DEF Facts, UserFacts, AssistantFacts, SyntheticFacts, ResultFacts, SummaryFacts, RunFacts,
         CompactionFacts, AttemptFacts, FailureFacts, ToolFacts, AbortFacts, FinishFacts, UsageFacts
<1>2. t \in State /\ Unused(t)
  BY DEF Good, Sound, Ledger, AttemptSide
<1> DEFINE NewRun == [kind |-> "run", finished |-> FALSE, result |-> None, latest |-> None]
           NewCompaction == [kind |-> "compaction", finished |-> FALSE, result |-> f.result,
                          latest |-> None]
<1>3. CASE f.type = "runStarted"
  <2>1. CanRunStarted(t, f) /\ t1 = DoRunStarted(t, f)
    BY <1>3, Reduced DEF ReducesRunStarted
  <2>2. /\ t1.operations = [t.operations EXCEPT ![f.op] = NewRun]
        /\ t1.attempts = t.attempts /\ t1.tools = t.tools
    BY <1>2, <2>1, Zenon DEF DoRunStarted, State
  <2>3. t.operations[f.op] = None /\ NewRun \in OperationInfo /\ ~NewRun.finished
    BY <1>1, <1>2, <2>1 DEF CanRunStarted, Unused, OperationInfo
  <2> HIDE DEF NewRun
  <2>4. t.operations \in [Id -> OperationInfo \cup {None}] /\ NewRun # None
    BY <1>2, <2>3, Fields, NoneAssumption
  <2> QED BY <1>1, <2>2, <2>3, <2>4 DEF OpBegins, Unfinished
<1>4. CASE f.type = "compactionStarted"
  <2>1. CanCompactionStarted(t, f) /\ t1 = DoCompactionStarted(t, f)
    BY <1>4, Reduced DEF ReducesCompactionStarted
  <2>2. /\ t1.operations = [t.operations EXCEPT ![f.op] = NewCompaction]
        /\ t1.attempts = t.attempts /\ t1.tools = t.tools
    BY <1>2, <2>1, Zenon DEF DoCompactionStarted, State
  <2>3. f.result \in Id
    BY <1>4 DEF Facts, UserFacts, AssistantFacts, SyntheticFacts, ResultFacts, SummaryFacts, RunFacts,
         CompactionFacts, AttemptFacts, FailureFacts, ToolFacts, AbortFacts, FinishFacts, UsageFacts
  <2>4. t.operations[f.op] = None /\ NewCompaction \in OperationInfo /\ ~NewCompaction.finished
    BY <1>1, <1>2, <2>1, <2>3 DEF CanCompactionStarted, Unused, OperationInfo
  <2> HIDE DEF NewCompaction
  <2>5. t.operations \in [Id -> OperationInfo \cup {None}] /\ NewCompaction # None
    BY <1>2, <2>4, Fields, NoneAssumption
  <2> QED BY <1>1, <2>2, <2>4, <2>5 DEF OpBegins, Unfinished
<1> QED BY <1>3, <1>4

(* Its end.                                                                 *)
LEMMA EndsFollows ==
  ASSUME NEW t, NEW t1, Good(t), Good(t1), NEW f \in Facts, Reduces(t, t1, f),
         f.type = "operationFinished"
  PROVE  /\ OpEnds(t, t1, f.op) /\ t1.attempts = t.attempts /\ t1.tools = t.tools
         /\ f.outcome = "aborted" => ~Attempting(t)
<1>1. f.op \in Id
  BY DEF Facts, UserFacts, AssistantFacts, SyntheticFacts, ResultFacts, SummaryFacts, RunFacts,
         CompactionFacts, AttemptFacts, FailureFacts, ToolFacts, AbortFacts, FinishFacts, UsageFacts
<1>2. t \in State
  BY DEF Good, Sound
<1>3. CanOperationFinished(t, f) /\ t1 = DoOperationFinished(t, f)
  BY Reduced DEF ReducesOperationFinished
<1> DEFINE info == [t.operations[f.op] EXCEPT !.finished = TRUE]
<1>4. /\ t1.operations = [t.operations EXCEPT ![f.op] = info]
      /\ t1.attempts = t.attempts /\ t1.tools = t.tools /\ t1.operation = None
  BY <1>2, <1>3, Zenon DEF DoOperationFinished, State
<1>5. /\ Unfinished(t, f.op)
      /\ f.outcome = "aborted" => ~Attempting(t)
  BY <1>3 DEF CanOperationFinished
<1>6. t.operations \in [Id -> OperationInfo \cup {None}] /\ t.operations[f.op] \in OperationInfo
  BY <1>1, <1>2, <1>5, Fields DEF Unfinished
<1>7. info.finished
  BY <1>6 DEF OperationInfo
<1> HIDE DEF info
<1>8. \A op \in Id : Unfinished(t1, op) <=> Unfinished(t, op) /\ op # f.op
  BY <1>1, <1>4, <1>6, <1>7 DEF Unfinished
<1> QED BY <1>1, <1>4, <1>5, <1>8 DEF OpEnds, Idle

(* An attempt begins.                                                       *)
LEMMA OpensFollows ==
  ASSUME NEW t, NEW t1, Good(t), Good(t1), NEW f \in Facts, Reduces(t, t1, f),
         f.type = "stepAttempt"
  PROVE  Opens(t, t1, f) /\ SameOperations1(t, t1) /\ t1.tools = t.tools
<1>1. f.op \in Id /\ f.step \in Id /\ f.attempt \in Id /\ f.kind \in {"run", "compaction"}
  BY DEF Facts, UserFacts, AssistantFacts, SyntheticFacts, ResultFacts, SummaryFacts, RunFacts,
         CompactionFacts, AttemptFacts, FailureFacts, ToolFacts, AbortFacts, FinishFacts, UsageFacts
<1>2. t \in State /\ t1 \in State /\ Unused(t)
  BY DEF Good, Sound, Ledger, AttemptSide
<1>3. CanStepAttempt(t, f) /\ t1 = DoStepAttempt(t, f)
  BY Reduced DEF ReducesStepAttempt
<1>4. Unfinished(t, f.op) /\ t.attempts[f.attempt] = None
  BY <1>1, <1>2, <1>3 DEF CanStepAttempt, Unused
<1> DEFINE new == [op |-> f.op, step |-> f.step, attempt |-> f.number,
                   kind |-> f.kind, context |-> f.context,
                   config |-> f.config, closed |-> FALSE, failed |-> FALSE,
                   settled |-> None, copyClosed |-> FALSE]
           info == [t.operations[f.op] EXCEPT !.latest = f.step]
<1>5. /\ t1.operations = [t.operations EXCEPT ![f.op] = info] /\ t1.tools = t.tools
      /\ t1.attempts = [a \in Id |-> IF a = f.attempt THEN new
                                     ELSE IF a \in AttemptsOfStep(t, f.step)
                                       THEN [t.attempts[a] EXCEPT !.closed = TRUE]
                                       ELSE t.attempts[a]]
  BY <1>2, <1>3, Zenon DEF DoStepAttempt, State
<1>6. t.operations \in [Id -> OperationInfo \cup {None}] /\ t.operations[f.op] \in OperationInfo
  BY <1>1, <1>2, <1>4, Fields DEF Unfinished
<1>7. info.finished = t.operations[f.op].finished /\ info \in OperationInfo
  BY <1>1, <1>6 DEF OperationInfo
<1> HIDE DEF info
<1>8. SameOperations1(t, t1)
  BY <1>1, <1>4, <1>5, <1>6, <1>7, NoneAssumption DEF SameOperations1, Unfinished
<1>9. /\ t1.attempts[f.attempt] = new /\ ~new.closed /\ new.op = f.op /\ new.kind = f.kind
      /\ new.settled = None
  BY <1>1, <1>5
<1>10. ASSUME NEW a \in Id \ {f.attempt} PROVE AttemptStays(t, t1, a)
  <2>1. t.attempts[a] # None => t.attempts[a] \in AttemptInfo
    BY <1>2, Fields
  <2>2. CASE a \in AttemptsOfStep(t, f.step)
    <3> DEFINE closed == [t.attempts[a] EXCEPT !.closed = TRUE]
    <3>1. t1.attempts[a] = closed /\ t.attempts[a] # None
      BY <1>5, <2>2 DEF AttemptsOfStep
    <3>2. /\ closed \in AttemptInfo /\ closed.op = t.attempts[a].op
          /\ closed.kind = t.attempts[a].kind
          /\ closed.settled = t.attempts[a].settled /\ closed.closed
      BY <2>1, <3>1 DEF AttemptInfo
    <3> HIDE DEF closed
    <3> QED BY <3>1, <3>2, NoneAssumption DEF AttemptStays
  <2>3. CASE a \notin AttemptsOfStep(t, f.step)
    <3>1. t1.attempts[a] = t.attempts[a]
      BY <1>5, <2>3
    <3> QED BY <3>1, Zenon DEF AttemptStays
  <2> QED BY <2>2, <2>3
<1>11. t1.attempts[f.attempt] # None
  <2>1. t.attempts[f.attempt] = None
    BY <1>4
  <2>2. new \in AttemptInfo
    <3>1. f \in AttemptFacts
      BY DEF Facts, UserFacts, AssistantFacts, SyntheticFacts, ResultFacts, SummaryFacts, RunFacts,
         CompactionFacts, AttemptFacts, FailureFacts, ToolFacts, AbortFacts, FinishFacts, UsageFacts
    <3> QED BY <3>1 DEF AttemptFacts, AttemptInfo
  <2> HIDE DEF new
  <2> QED BY <1>9, <2>2, NoneAssumption
<1> HIDE DEF new
<1>12. OpenAttempt(t1, f.attempt)
  BY <1>9, <1>11 DEF OpenAttempt
<1> QED BY <1>1, <1>4, <1>5, <1>8, <1>9, <1>10, <1>12 DEF Opens

(* What replaces an open attempt by one that is closed.                     *)
LEMMA ClosesOne ==
  ASSUME NEW t, t \in State, NEW t1, NEW a \in Id, OpenAttempt(t, a), NEW info \in AttemptInfo,
         info.closed, info.op = t.attempts[a].op, info.kind = t.attempts[a].kind,
         t1.attempts = [t.attempts EXCEPT ![a] = info]
  PROVE  Closes(t, t1, a, info.settled)
<1>1. t.attempts \in [Id -> AttemptInfo \cup {None}] /\ info # None
  BY Fields, NoneAssumption
<1>2. t1.attempts[a] = info /\ \A b \in Id \ {a} : t1.attempts[b] = t.attempts[b]
  BY <1>1
<1> QED BY <1>1, <1>2, Zenon DEF Closes

(* An attempt is answered.                                                  *)
LEMMA AnswerFollows ==
  ASSUME NEW t, NEW t1, Good(t), NEW f \in Facts, Reduces(t, t1, f), f.type = "assistant"
  PROVE  /\ f.id \in Id /\ Closes(t, t1, f.attempt, f.id)
         /\ t1.operations = t.operations /\ t1.tools = t.tools
<1>1. f.id \in Id /\ f.attempt \in Id
  BY DEF Facts, UserFacts, AssistantFacts, SyntheticFacts, ResultFacts, SummaryFacts, RunFacts,
         CompactionFacts, AttemptFacts, FailureFacts, ToolFacts, AbortFacts, FinishFacts, UsageFacts
<1>2. t \in State
  BY DEF Good, Sound
<1>3. CanAssistant(t, f) /\ t1 = DoAssistant(t, f)
  BY Reduced DEF ReducesAssistant
<1> DEFINE info == [t.attempts[f.attempt] EXCEPT !.closed = TRUE, !.copyClosed = TRUE,
                                                 !.settled = f.id]
<1>4. /\ t1.attempts = [t.attempts EXCEPT ![f.attempt] = info]
      /\ t1.operations = t.operations /\ t1.tools = t.tools
  BY <1>2, <1>3, Zenon DEF DoAssistant, Push, State
<1>5. OpenAttempt(t, f.attempt)
  BY <1>3, Zenon DEF CanAssistant, OpenAttempt
<1>6. t.attempts[f.attempt] \in AttemptInfo
  BY <1>1, <1>2, <1>5, Fields DEF OpenAttempt
<1>7. /\ info \in AttemptInfo /\ info.closed /\ info.op = t.attempts[f.attempt].op
      /\ info.kind = t.attempts[f.attempt].kind /\ info.settled = f.id
  BY <1>1, <1>6 DEF AttemptInfo
<1> HIDE DEF info
<1> QED BY <1>1, <1>2, <1>4, <1>5, <1>7, ClosesOne

(* An attempt fails.                                                        *)
LEMMA FailureFollows ==
  ASSUME NEW t, NEW t1, Good(t), NEW f \in Facts, Reduces(t, t1, f), f.type = "stepFailed"
  PROVE  /\ Closes(t, t1, f.attempt, t.attempts[f.attempt].settled)
         /\ t1.operations = t.operations /\ t1.tools = t.tools
<1>1. f.attempt \in Id
  BY DEF Facts, UserFacts, AssistantFacts, SyntheticFacts, ResultFacts, SummaryFacts, RunFacts,
         CompactionFacts, AttemptFacts, FailureFacts, ToolFacts, AbortFacts, FinishFacts, UsageFacts
<1>2. t \in State
  BY DEF Good, Sound
<1>3. CanStepFailed(t, f) /\ t1 = DoStepFailed(t, f)
  BY Reduced DEF ReducesStepFailed
<1> DEFINE info == [t.attempts[f.attempt] EXCEPT !.closed = TRUE, !.copyClosed = TRUE,
                                                 !.failed = TRUE]
<1>4. /\ t1.attempts = [t.attempts EXCEPT ![f.attempt] = info]
      /\ t1.operations = t.operations /\ t1.tools = t.tools
  BY <1>2, <1>3, Zenon DEF DoStepFailed, State
<1>5. OpenAttempt(t, f.attempt)
  BY <1>3, Zenon DEF CanStepFailed, OpenAttempt
<1>6. t.attempts[f.attempt] \in AttemptInfo
  BY <1>1, <1>2, <1>5, Fields DEF OpenAttempt
<1>7. /\ info \in AttemptInfo /\ info.closed /\ info.op = t.attempts[f.attempt].op
      /\ info.kind = t.attempts[f.attempt].kind
      /\ info.settled = t.attempts[f.attempt].settled
  BY <1>6 DEF AttemptInfo
<1> HIDE DEF info
<1> QED BY <1>1, <1>2, <1>4, <1>5, <1>7, ClosesOne

(* A compaction has its summary, from the attempt of its step.              *)
LEMMA SummaryFollows ==
  ASSUME NEW t, NEW t1, Good(t), NEW f \in Facts, Reduces(t, t1, f), f.type = "compaction"
  PROVE  /\ f.id \in Id /\ ~Idle(t) /\ f.op = t.operation.id /\ t.operation.step # None
         /\ Closes(t, t1, t.operation.step.attempt, f.id)
         /\ t1.operations = t.operations /\ t1.tools = t.tools
<1>1. f.id \in Id
  BY DEF Facts, UserFacts, AssistantFacts, SyntheticFacts, ResultFacts, SummaryFacts, RunFacts,
         CompactionFacts, AttemptFacts, FailureFacts, ToolFacts, AbortFacts, FinishFacts, UsageFacts
<1>2. t \in State /\ Sound(t)
  BY DEF Good, Sound
<1>3. CanCompaction(t, f) /\ t1 = DoCompaction(t, f)
  BY Reduced DEF ReducesCompaction
<1>4. /\ ~Idle(t) /\ f.op = t.operation.id /\ t.operation.step # None
      /\ ~t.attempts[t.operation.step.attempt].closed
  BY <1>3 DEF CanCompaction, CurrentIs
<1> DEFINE a == t.operation.step.attempt
           info == [t.attempts[a] EXCEPT !.closed = TRUE, !.settled = f.id]
<1>5. /\ t1.attempts = [t.attempts EXCEPT ![a] = info]
      /\ t1.operations = t.operations /\ t1.tools = t.tools
  BY <1>2, <1>3, Zenon DEF DoCompaction, State
<1>6. a \in Id
  <2>1. t.operation \in OperationState
    BY <1>2, <1>4, CurrentType DEF Sound
  <2>2. t.operation.step \in StepState
    BY <1>4, <2>1 DEF OperationState
  <2> QED BY <2>2 DEF StepState
<1>7. OpenAttempt(t, a)
  BY <1>2, <1>4 DEF OpenAttempt, Sound, Linked
<1>8. t.attempts[a] \in AttemptInfo
  BY <1>2, <1>6, <1>7, Fields DEF OpenAttempt
<1>9. /\ info \in AttemptInfo /\ info.closed /\ info.op = t.attempts[a].op
      /\ info.kind = t.attempts[a].kind /\ info.settled = f.id
  BY <1>1, <1>8 DEF AttemptInfo
<1> HIDE DEF info, a
<1>10. Closes(t, t1, a, f.id)
  BY <1>2, <1>5, <1>6, <1>7, <1>9, ClosesOne
<1> QED BY <1>1, <1>4, <1>5, <1>10 DEF a

(* A tool is started.                                                       *)
LEMMA StartsFollows ==
  ASSUME NEW t, NEW t1, Good(t), NEW f \in Facts, Reduces(t, t1, f), f.type = "toolStarted"
  PROVE  /\ StartsTool(t, t1, f.id)
         /\ t1.operations = t.operations /\ t1.attempts = t.attempts
<1>1. f \in ToolFacts
  BY DEF Facts, UserFacts, AssistantFacts, SyntheticFacts, ResultFacts, SummaryFacts, RunFacts,
         CompactionFacts, AttemptFacts, FailureFacts, ToolFacts, AbortFacts, FinishFacts, UsageFacts
<1> DEFINE tool == [op |-> f.op, step |-> f.step, assistant |-> f.assistant,
         index |-> f.index, call |-> f.call, name |-> f.name,
         args |-> f.args, replay |-> f.replay, key |-> f.key,
         env |-> f.env, result |-> f.result, status |-> "pending"]
<1>2. f.id \in Id /\ tool \in ToolCallState /\ tool.status = "pending"
  BY <1>1 DEF ToolFacts, ToolCallState
<1>3. CanToolStarted(t, f) /\ t1 = DoToolStarted(t, f)
  BY Reduced DEF ReducesToolStarted
<1>4. t \in State /\ Unused(t)
  BY DEF Good, Sound, Ledger, AttemptSide
<1>5. t.tools[f.id] = None
  BY <1>2, <1>3, <1>4 DEF CanToolStarted, Unused
<1>6. /\ t1.tools = [t.tools EXCEPT ![f.id] = tool]
      /\ t1.operations = t.operations /\ t1.attempts = t.attempts
  BY <1>3, <1>4, Zenon DEF DoToolStarted, State
<1> HIDE DEF tool
<1>7. t.tools \in [Id -> ToolCallState \cup {None}] /\ tool # None
  BY <1>2, <1>4, Fields, NoneAssumption
<1> QED BY <1>2, <1>5, <1>6, <1>7 DEF StartsTool

(* A started tool has its result.                                           *)
LEMMA CompletesFollows ==
  ASSUME NEW t, NEW t1, Good(t), NEW f \in Facts, Reduces(t, t1, f), f.type = "result"
  PROVE  /\ CompletesTool(t, t1, f.started)
         /\ t1.operations = t.operations /\ t1.attempts = t.attempts
<1>1. f.started \in Id
  BY DEF Facts, UserFacts, AssistantFacts, SyntheticFacts, ResultFacts, SummaryFacts, RunFacts,
         CompactionFacts, AttemptFacts, FailureFacts, ToolFacts, AbortFacts, FinishFacts, UsageFacts
<1>2. t \in State
  BY DEF Good, Sound
<1>3. CanResult(t, f) /\ t1 = DoResult(t, f)
  BY Reduced DEF ReducesResult
<1> DEFINE tool == [t.tools[f.started] EXCEPT !.status = "completed"]
<1>4. /\ t1.tools = [t.tools EXCEPT ![f.started] = tool]
      /\ t1.operations = t.operations /\ t1.attempts = t.attempts
  BY <1>2, <1>3, Zenon DEF DoResult, Push, State
<1>5. t.tools[f.started] # None /\ t.tools[f.started].status = "pending"
  BY <1>3 DEF CanResult
<1>6. t.tools[f.started] \in ToolCallState
  BY <1>1, <1>2, <1>5, Fields
<1>7. tool \in ToolCallState /\ tool.status = "completed"
  BY <1>6 DEF ToolCallState
<1> HIDE DEF tool
<1>8. t.tools \in [Id -> ToolCallState \cup {None}] /\ tool # None
  BY <1>2, <1>7, Fields, NoneAssumption
<1> QED BY <1>1, <1>4, <1>5, <1>7, <1>8 DEF CompletesTool

(* Nothing else is followed.                                                *)
LEMMA OthersFollow ==
  ASSUME NEW t, NEW t1, Good(t), NEW f \in Facts, Reduces(t, t1, f),
         f.type \in {"user", "synthetic", "abortRequested", "usage"}
  PROVE  t1.operations = t.operations /\ t1.attempts = t.attempts /\ t1.tools = t.tools
<1>1. t \in State
  BY DEF Good, Sound
<1>2. CASE f.type = "user"
  <2>1. t1 = DoUser(t, f)
    BY <1>2, Reduced DEF ReducesUser
  <2> QED BY <1>1, <2>1, Zenon DEF DoUser, Push, State
<1>3. CASE f.type = "synthetic"
  <2>1. t1 = DoSynthetic(t, f)
    BY <1>3, Reduced DEF ReducesSynthetic
  <2> QED BY <1>1, <2>1, Zenon DEF DoSynthetic, Push, State
<1>4. CASE f.type = "abortRequested"
  <2>1. t1 = DoAbortRequested(t, f)
    BY <1>4, Reduced DEF ReducesAbortRequested
  <2> QED BY <1>1, <2>1, Zenon DEF DoAbortRequested, State
<1>5. CASE f.type = "usage"
  <2>1. t1 = DoUsage(t, f)
    BY <1>5, Reduced DEF ReducesUsage
  <2> QED BY <1>1, <2>1, Zenon DEF DoUsage, State
<1> QED BY <1>2, <1>3, <1>4, <1>5

(* So what is followed changes as the type of the fact says.                *)
LEMMA FactFollows ==
  ASSUME NEW t, NEW t1, Good(t), NEW f \in Facts, Reduces(t, t1, f)
  PROVE  Good(t1) /\ Follows(t, t1, f)
<1>0. Good(t1)
  BY GoodNext
<1>a. t1.operations = t.operations => SameOperations1(t, t1)
  BY DEF SameOperations1, Unfinished
<1>1. CASE f.type \in {"runStarted", "compactionStarted"}
  <2>1. OpBegins(t, t1, f.op) /\ t1.attempts = t.attempts /\ t1.tools = t.tools
    BY <1>0, <1>1, BeginsFollows
  <2> QED BY <1>0, <1>1, <2>1 DEF Follows
<1>2. CASE f.type = "operationFinished"
  <2>1. OpEnds(t, t1, f.op) /\ t1.attempts = t.attempts /\ t1.tools = t.tools
    BY <1>0, <1>2, EndsFollows
  <2> QED BY <1>0, <1>2, <2>1 DEF Follows
<1>3. CASE f.type = "stepAttempt"
  <2>1. Opens(t, t1, f) /\ SameOperations1(t, t1) /\ t1.tools = t.tools
    BY <1>0, <1>3, OpensFollows
  <2> QED BY <1>0, <1>3, <2>1 DEF Follows
<1>4. CASE f.type = "assistant"
  <2>1. /\ f.id \in Id /\ Closes(t, t1, f.attempt, f.id)
        /\ t1.operations = t.operations /\ t1.tools = t.tools
    BY <1>4, AnswerFollows
  <2> QED BY <1>0, <1>a, <1>4, <2>1 DEF Follows
<1>5. CASE f.type = "stepFailed"
  <2>1. /\ Closes(t, t1, f.attempt, t.attempts[f.attempt].settled)
        /\ t1.operations = t.operations /\ t1.tools = t.tools
    BY <1>5, FailureFollows
  <2> QED BY <1>0, <1>a, <1>5, <2>1 DEF Follows
<1>6. CASE f.type = "compaction"
  <2>1. /\ f.id \in Id /\ ~Idle(t) /\ f.op = t.operation.id /\ t.operation.step # None
        /\ Closes(t, t1, t.operation.step.attempt, f.id)
        /\ t1.operations = t.operations /\ t1.tools = t.tools
    BY <1>6, SummaryFollows
  <2> QED BY <1>0, <1>a, <1>6, <2>1 DEF Follows
<1>7. CASE f.type = "toolStarted"
  <2>1. /\ StartsTool(t, t1, f.id)
        /\ t1.operations = t.operations /\ t1.attempts = t.attempts
    BY <1>7, StartsFollows
  <2> QED BY <1>0, <1>a, <1>7, <2>1 DEF Follows
<1>8. CASE f.type = "result"
  <2>1. /\ CompletesTool(t, t1, f.started)
        /\ t1.operations = t.operations /\ t1.attempts = t.attempts
    BY <1>8, CompletesFollows
  <2> QED BY <1>0, <1>a, <1>8, <2>1 DEF Follows
<1>9. CASE f.type \in {"user", "synthetic", "abortRequested", "usage"}
  <2>1. t1.operations = t.operations /\ t1.attempts = t.attempts /\ t1.tools = t.tools
    BY <1>9, OthersFollow
  <2> QED BY <1>0, <1>a, <1>9, <2>1 DEF Follows
<1>10. f.type \in {"user", "assistant", "synthetic", "result", "compaction", "runStarted",
                   "compactionStarted", "stepAttempt", "stepFailed", "toolStarted",
                   "abortRequested", "operationFinished", "usage"}
  BY DEF Facts, UserFacts, AssistantFacts, SyntheticFacts, ResultFacts, SummaryFacts, RunFacts,
         CompactionFacts, AttemptFacts, FailureFacts, ToolFacts, AbortFacts, FinishFacts, UsageFacts
<1> QED BY <1>1, <1>2, <1>3, <1>4, <1>5, <1>6, <1>7, <1>8, <1>9, <1>10

-----------------------------------------------------------------------------
(* The spans after a sequence of events *)

(* The attempt that a compaction settles is the one open attempt of it.     *)
LEMMA SummarisesOne ==
  ASSUME NEW t, NEW t1, Good(t), NEW f \in Facts, Reduces(t, t1, f), f.type = "compaction"
  PROVE  /\ t.operation.step.attempt \in Id
         /\ t.attempts[t.operation.step.attempt].op = f.op
         /\ t.attempts[t.operation.step.attempt].kind = "compaction"
         /\ \A a \in Id : OpenAttempt(t, a) /\ t.attempts[a].op = f.op
                            => a = t.operation.step.attempt
<1>1. Sound(t) /\ Linked(t) /\ OpenIsCurrent(t) /\ t \in State
  BY DEF Good, Sound, Ledger, AttemptSide
<1>2. CanCompaction(t, f)
  BY Reduced DEF ReducesCompaction
<1>3. /\ ~Idle(t) /\ f.op = t.operation.id /\ t.operation.step # None /\ Unfinished(t, f.op)
      /\ t.attempts[t.operation.step.attempt].kind = "compaction"
  BY <1>2 DEF CanCompaction, CurrentIs
<1>4. t.attempts[t.operation.step.attempt].op = f.op
  BY <1>1, <1>3 DEF Linked
<1>5. t.operation.step.attempt \in Id
  <2>1. t.operation \in OperationState
    BY <1>1, <1>3, CurrentType DEF Sound
  <2>2. t.operation.step \in StepState
    BY <1>3, <2>1 DEF OperationState
  <2> QED BY <2>2 DEF StepState
<1>6. ASSUME NEW a \in Id, OpenAttempt(t, a), t.attempts[a].op = f.op
      PROVE  a = t.operation.step.attempt
  <2>1. t.operation.step = [attempt |-> a, status |-> "attempting"]
    BY <1>1, <1>3, <1>6 DEF OpenIsCurrent, OpenAttempt
  <2> QED BY <2>1
<1> QED BY <1>3, <1>4, <1>5, <1>6

(* Every attempt is one of an operation.                                    *)
LEMMA AttemptOps ==
  ASSUME NEW t, Good(t), NEW a \in Id, t.attempts[a] # None
  PROVE  t.attempts[a].op \in Id /\ t.attempts[a] \in AttemptInfo
<1>1. t.attempts[a] \in AttemptInfo
  BY Fields DEF Good, Sound
<1> QED BY <1>1 DEF AttemptInfo

(* An attempt that is open is that of the current step.                     *)
LEMMA OpenedIsCurrent ==
  ASSUME NEW t, Good(t), OpenFits(t), NEW a \in Id, OpenAttempt(t, a)
  PROVE  /\ ~Idle(t) /\ t.operation.id = t.attempts[a].op
         /\ t.operation.step = [attempt |-> a, status |-> "attempting"]
<1>1. OneCurrent(t) /\ OpenIsCurrent(t) /\ t \in State
  BY DEF Good, Sound, Ledger, AttemptSide
<1>2. Unfinished(t, t.attempts[a].op)
  BY DEF OpenFits
<1>3. t.attempts[a].op \in Id
  BY AttemptOps DEF OpenAttempt
<1>4. t.operation.step = [attempt |-> a, status |-> "attempting"]
  BY <1>1, <1>2 DEF OpenIsCurrent, OpenAttempt
<1>5. ~Idle(t) /\ t.operation.id = t.attempts[a].op
  BY <1>1, <1>2, <1>3, Zenon DEF OneCurrent
<1> QED BY <1>4, <1>5

(* None is left when it has failed.                                         *)
LEMMA FailureClosesAll ==
  ASSUME NEW t, NEW t1, Good(t), OpenFits(t), NEW f, Closes(t, t1, f.attempt, t.attempts[f.attempt].settled)
  PROVE  NoneOpened(t1)
<1> DEFINE old == f.attempt
<1>1. /\ old \in Id /\ OpenAttempt(t, old) /\ t1.attempts[old].closed
      /\ \A a \in Id : a # old => t1.attempts[a] = t.attempts[a]
  BY DEF Closes
<1> HIDE DEF old
<1>2. t.operation.step = [attempt |-> old, status |-> "attempting"]
  BY <1>1, OpenedIsCurrent
<1> SUFFICES ASSUME NEW a \in Id, OpenAttempt(t1, a) PROVE FALSE
  BY DEF NoneOpened
<1>3. a # old
  BY <1>1 DEF OpenAttempt
<1>4. OpenAttempt(t, a)
  BY <1>1, <1>3 DEF OpenAttempt
<1>5. t.operation.step = [attempt |-> a, status |-> "attempting"]
  BY <1>4, OpenedIsCurrent
<1>6. [attempt |-> a, status |-> "attempting"].attempt
        = [attempt |-> old, status |-> "attempting"].attempt
  BY <1>2, <1>5
<1> QED BY <1>3, <1>6

(* An open attempt stays one of an unfinished operation, without an answer. *)
LEMMA OpenKept ==
  ASSUME NEW t, NEW t1, Good(t), OpenFits(t), NEW f, Follows(t, t1, f),
         f.type = "operationFinished" => NoneOpened(t)
  PROVE  OpenFits(t1)
<1> SUFFICES ASSUME NEW a \in Id, OpenAttempt(t1, a)
             PROVE  Unfinished(t1, t1.attempts[a].op) /\ t1.attempts[a].settled = None
  BY DEF OpenFits
<1>a. \A b \in Id : OpenAttempt(t, b) => t.attempts[b].op \in Id
  BY AttemptOps DEF OpenAttempt
<1>0. f.type # "operationFinished" => \A op \in Id : Unfinished(t, op) => Unfinished(t1, op)
  BY Zenon DEF Follows, OpBegins, SameOperations1
<1>1. CASE f.type = "stepAttempt"
  <2>1. Opens(t, t1, f) /\ SameOperations1(t, t1)
    BY <1>1 DEF Follows
  <2>2. CASE a = f.attempt
    BY <2>1, <2>2 DEF Opens, SameOperations1
  <2>3. CASE a # f.attempt
    <3>1. AttemptStays(t, t1, a)
      BY <2>1, <2>3 DEF Opens
    <3>2. OpenAttempt(t, a) /\ t1.attempts[a].op = t.attempts[a].op
          /\ t1.attempts[a].settled = t.attempts[a].settled
      BY <3>1 DEF AttemptStays, OpenAttempt
    <3> QED BY <1>a, <1>1, <3>2, <2>1 DEF OpenFits, SameOperations1
  <2> QED BY <2>2, <2>3
<1>2. ASSUME NEW old, NEW answer, Closes(t, t1, old, answer), SameOperations1(t, t1)
      PROVE  Unfinished(t1, t1.attempts[a].op) /\ t1.attempts[a].settled = None
  <2>1. a # old
    BY <1>2 DEF Closes, OpenAttempt
  <2>2. t1.attempts[a] = t.attempts[a]
    BY <1>2, <2>1 DEF Closes
  <2> QED BY <1>a, <1>2, <2>2 DEF OpenFits, SameOperations1, OpenAttempt
<1>3. CASE f.type \in {"assistant", "stepFailed", "compaction"}
  <2>1. SameOperations1(t, t1) /\ \E old, answer : Closes(t, t1, old, answer)
    BY <1>3 DEF Follows
  <2> QED BY <1>2, <2>1
<1>4. CASE f.type \notin {"stepAttempt", "assistant", "stepFailed", "compaction"}
  <2>1. t1.attempts = t.attempts
    BY <1>4 DEF Follows
  <2>2. OpenAttempt(t, a)
    BY <2>1 DEF OpenAttempt
  <2>3. f.type # "operationFinished"
    BY <2>2 DEF NoneOpened
  <2> QED BY <1>a, <1>0, <2>1, <2>2, <2>3 DEF OpenFits
<1> QED BY <1>1, <1>3, <1>4

(* Where an operation starts no other is unfinished, and none has ended     *)
(* where one is.                                                            *)
LEMMA OneAtOnce ==
  ASSUME NEW t, NEW t1, Good(t1), NEW new, NEW op \in Id
  PROVE  /\ OpBegins(t, t1, new) /\ Unfinished(t1, op) => op = new
         /\ OpEnds(t, t1, new) => ~Unfinished(t1, op)
<1>1. OneCurrent(t1)
  BY DEF Good, Sound
<1>2. \A other \in Id : Unfinished(t1, other) <=> ~Idle(t1) /\ t1.operation.id = other
  BY <1>1, Zenon DEF OneCurrent
<1>3. ASSUME OpBegins(t, t1, new), Unfinished(t1, op) PROVE op = new
  <2>1. new \in Id /\ Unfinished(t1, new)
    BY <1>3, Zenon DEF OpBegins
  <2> QED BY <1>2, <1>3, <2>1, Zenon
<1>4. ASSUME OpEnds(t, t1, new) PROVE ~Unfinished(t1, op)
  BY <1>2, <1>4, Zenon DEF OpEnds
<1> QED BY <1>3, <1>4

(* No operation is lost, and each keeps its kind.                           *)
LEMMA OperationsStay ==
  ASSUME NEW t, NEW t1, Good(t), NEW f \in Facts, Reduces(t, t1, f)
  PROVE  OperationsPersist(t, t1)
<1>1. Sound(t) /\ Ledger(t) /\ t \in State
  BY DEF Good, Sound
<1>2. Effect(t, t1)
  <2>1. Adds(t, t1)
    BY <1>1, FactCases
  <2> QED BY <1>1, <2>1, AddsEffect
<1>3. CASE t1.operations = t.operations
  BY <1>3, PersistSame
<1>4. CASE \E op, info : OperationAdded(t, t1, op, info)
  <2>1. PICK op, info : OperationAdded(t, t1, op, info)
    BY <1>4
  <2>2. /\ t.operations[op] = None /\ info \in OperationInfo
        /\ t1.operations = [t.operations EXCEPT ![op] = info]
    BY <1>1, <2>1 DEF OperationAdded, Ledger, AttemptSide, Unused
  <2> QED BY <1>1, <2>2, PersistOperations
<1>5. CASE \E op, final, how, info : FinishAdded(t, t1, op, final, how, info)
  <2>1. PICK op, final, how, info : FinishAdded(t, t1, op, final, how, info)
    BY <1>5
  <2>2. Sound(t)
    BY <1>1
  <2> QED BY ONLY <2>1, <2>2, NoneAssumption, PersistOperations DEF FinishAdded
<1>6. CASE \E op, step, attempt, new, info : AttemptAdded(t, t1, op, step, attempt, new, info)
  <2>1. PICK op, step, attempt, new, info : AttemptAdded(t, t1, op, step, attempt, new, info)
    BY <1>6
  <2>2. Sound(t)
    BY <1>1
  <2> QED BY ONLY <2>1, <2>2, NoneAssumption, PersistOperations DEF AttemptAdded
<1>7. CASE \E i, e : MessageAdded(t, t1, i, e)
  BY <1>3, <1>7 DEF MessageAdded, SameOperations
<1>8. CASE \E u, e, done : ResultAdded(t, t1, u, e, done)
  BY <1>3, <1>8 DEF ResultAdded, SameOperations
<1>9. CASE \E a, info, status : AttemptEnded(t, t1, a, info, status)
  BY <1>3, <1>9 DEF AttemptEnded
<1>10. CASE \E u, tool : ToolAdded(t, t1, u, tool)
  BY <1>3, <1>10 DEF ToolAdded, SameOperations
<1>11. CASE AbortAdded(t, t1) \/ SameOperations(t, t1)
  BY <1>3, <1>11 DEF AbortAdded, SameOperations
<1> QED BY <1>2, <1>4, <1>5, <1>6, <1>7, <1>8, <1>9, <1>10, <1>11, Zenon
        DEF Effect, Progress, AnswerAdded, SummaryAdded, FailureAdded

(* An operation is completed by the answer of one of its attempts.          *)
LEMMA CompletedBy ==
  ASSUME NEW t, NEW t1, Good(t), NEW f \in Facts, Reduces(t, t1, f),
         f.type = "operationFinished", f.outcome = "completed"
  PROVE  /\ f.final # None
         /\ \E a \in Id : /\ t.attempts[a] # None /\ t.attempts[a].op = f.op
                          /\ t.attempts[a].kind = t.operations[f.op].kind
                          /\ t.attempts[a].settled = f.final
<1> DEFINE e == t.entries[f.final]
<1>1. f.final \in Id \cup {None}
  BY DEF Facts, UserFacts, AssistantFacts, SyntheticFacts, ResultFacts, SummaryFacts, RunFacts,
         CompactionFacts, AttemptFacts, FailureFacts, ToolFacts, AbortFacts, FinishFacts, UsageFacts
<1>2. MayComplete(t, f)
  BY Reduced DEF ReducesOperationFinished, CanOperationFinished
<1>3. /\ f.final \in Id /\ e # None /\ e.op = f.op /\ e.attempt # None
      /\ t.attempts[e.attempt].settled = f.final
  BY <1>1, <1>2 DEF MayComplete
<1>4. t \in State /\ AttemptOwned(t) /\ AnswerOwned(t)
  BY DEF Good, Sound, Ledger, AttemptSide, AnswerSide
<1>5. e \in Entry
  BY <1>3, <1>4, Fields
<1>6. e.attempt \in Id
  BY <1>3, <1>5 DEF Entry
<1>7. t.attempts[e.attempt] # None /\ t.attempts[e.attempt].op = f.op
  BY <1>3, <1>4 DEF AnswerOwned
<1>8. t.attempts[e.attempt].kind = t.operations[f.op].kind
  BY <1>4, <1>6, <1>7 DEF AttemptOwned
<1> DEFINE a == e.attempt
<1>9. /\ a \in Id /\ t.attempts[a] # None /\ t.attempts[a].op = f.op
      /\ t.attempts[a].kind = t.operations[f.op].kind /\ t.attempts[a].settled = f.final
  BY <1>3, <1>6, <1>7, <1>8
<1> HIDE DEF a, e
<1> QED BY <1>2, <1>9 DEF MayComplete

-----------------------------------------------------------------------------
(* The tools of the current operation *)

(* A started tool is one of the operation whose answer called it.           *)
ToolsAnswer(t) ==
  \A u \in Id : t.tools[u] # None => t.entries[t.tools[u].assistant].op = t.tools[u].op

(* A fact keeps it so,                                                      *)
LEMMA FactToolsAnswer ==
  ASSUME NEW t, NEW t1, NEW f \in Facts, Good(t), ToolsAnswer(t), Reduces(t, t1, f)
  PROVE  Good(t1) /\ ToolsAnswer(t1)
<1>1. Good(t1) /\ EntriesPersist(t, t1) /\ Keeps(t, t1, {f})
  BY GoodNext, KeepsOne
<1>2. ToolsKept(t, t1)
  BY <1>1, Zenon DEF Keeps, KeepsTools
<1>3. ToolsNameCalls(t)
  BY Zenon DEF Good, CallSide
<1> SUFFICES ASSUME NEW u \in Id, t1.tools[u] # None
             PROVE  t1.entries[t1.tools[u].assistant].op = t1.tools[u].op
  BY <1>1 DEF ToolsAnswer
<1>4. CASE t.tools[u] # None
  <2>1. /\ t.tools[u].assistant \in Id /\ t.entries[t.tools[u].assistant] # None
        /\ t.entries[t.tools[u].assistant].op = t.tools[u].op
    BY <1>3, <1>4, Zenon DEF ToolsNameCalls, ToolsAnswer
  <2>2. t1.tools[u].assistant = t.tools[u].assistant /\ t1.tools[u].op = t.tools[u].op
    BY <1>2, <1>4, Zenon DEF ToolsKept
  <2>3. t1.entries[t.tools[u].assistant] = t.entries[t.tools[u].assistant]
    BY <1>1, <2>1, Zenon DEF EntriesPersist
  <2> QED BY <2>1, <2>2, <2>3
<1>5. CASE t.tools[u] = None
  <2>1. Follows(t, t1, f)
    BY <1>1, FactFollows
  <2>2. f.type = "toolStarted" /\ u = f.id
    BY <1>5, <2>1 DEF Follows, StartsTool, CompletesTool
  <2> DEFINE tool == [op |-> f.op, step |-> f.step, assistant |-> f.assistant,
         index |-> f.index, call |-> f.call, name |-> f.name,
         args |-> f.args, replay |-> f.replay, key |-> f.key,
         env |-> f.env, result |-> f.result, status |-> "pending"]
  <2>3. CanToolStarted(t, f) /\ t1 = DoToolStarted(t, f)
    BY <2>2, Reduced DEF ReducesToolStarted
  <2>4. t \in State
    BY DEF Good, Sound
  <2>5. t1.tools = [t.tools EXCEPT ![f.id] = tool] /\ t1.entries = t.entries
    BY <2>3, <2>4, Zenon DEF DoToolStarted, State
  <2>6. t.tools \in [Id -> ToolCallState \cup {None}]
    BY <2>4, Fields
  <2>7. tool.op = f.op /\ tool.assistant = f.assistant
    OBVIOUS
  <2> HIDE DEF tool
  <2>8. t1.tools[u] = tool
    BY <2>2, <2>5, <2>6
  <2> QED BY <2>3, <2>5, <2>7, <2>8 DEF CanToolStarted
<1> QED BY <1>4, <1>5

(* and so does a line.                                                      *)
LEMMA LineToolsAnswer ==
  ASSUME NEW t, NEW t1, NEW facts, Good(t), ToolsAnswer(t), Len(facts) \in Nat,
         \A n \in 1..Len(facts) : facts[n] \in Facts, t1 \in ReduceLine(t, facts)
  PROVE  ToolsAnswer(t1)
<1> DEFINE K == Len(facts)
<1>1. PICK T : Trace(t, t1, facts, T)
  BY LineTrace
<1>2. /\ T[0] = t /\ T[K] = t1
      /\ \A n \in 1..K : Reduces(T[n - 1], T[n], facts[n])
  BY <1>1 DEF Trace
<1> DEFINE R == {n \in Nat : n <= K => Good(T[n]) /\ ToolsAnswer(T[n])}
<1>3. 0 \in R
  BY <1>2
<1>4. ASSUME NEW n \in R PROVE n + 1 \in R
  <2> SUFFICES ASSUME n + 1 <= K PROVE Good(T[n + 1]) /\ ToolsAnswer(T[n + 1])
    OBVIOUS
  <2>1. n \in Nat /\ n + 1 \in 1..K /\ (n + 1) - 1 = n /\ n <= K
    OBVIOUS
  <2>2. Reduces(T[n], T[n + 1], facts[n + 1]) /\ facts[n + 1] \in Facts
    BY <1>2, <2>1
  <2>3. Good(T[n]) /\ ToolsAnswer(T[n])
    BY <2>1
  <2> QED BY <2>2, <2>3, FactToolsAnswer
<1>5. K \in R
  <2>1. R \in SUBSET Nat /\ K \in Nat
    OBVIOUS
  <2> HIDE DEF R, K
  <2>2. Nat \subseteq R
    BY <1>3, <1>4, <2>1, SetInduction
  <2> QED BY <2>1, <2>2
<1> QED BY <1>2, <1>5

-----------------------------------------------------------------------------
(* The answers of an operation *)

(* The answers of an operation, and what it was charged for them.           *)
AnswersTo(t, op) ==
  {a \in Id : t.attempts[a] # None /\ t.attempts[a].op = op /\ t.attempts[a].settled # None}

Spent(t, op) == Cardinality(AnswersTo(t, op))

SettledStay(t, t1) ==
  \A a \in SettledAttempts(t) :
    a \in SettledAttempts(t1) /\ t1.attempts[a].op = t.attempts[a].op

(* A fact takes no answer away, and adds one to an unfinished operation.    *)
LEMMA SettledNext ==
  ASSUME NEW t, NEW t1, OpenFits(t), NEW f, Follows(t, t1, f)
  PROVE  /\ SettledStay(t, t1)
         /\ \A a \in SettledAttempts(t1) :
              /\ t.attempts[a] # None /\ t1.attempts[a].op = t.attempts[a].op
              /\ a \in SettledAttempts(t) \/ Unfinished(t, t.attempts[a].op)
<1> SUFFICES ASSUME NEW a \in Id
             PROVE  /\ a \in SettledAttempts(t) =>
                         a \in SettledAttempts(t1) /\ t1.attempts[a].op = t.attempts[a].op
                    /\ a \in SettledAttempts(t1) =>
                         /\ t.attempts[a] # None /\ t1.attempts[a].op = t.attempts[a].op
                         /\ a \in SettledAttempts(t) \/ Unfinished(t, t.attempts[a].op)
  BY DEF SettledStay, SettledAttempts
<1>1. CASE f.type = "stepAttempt"
  <2>1. Opens(t, t1, f)
    BY <1>1 DEF Follows
  <2> QED BY <2>1 DEF Opens, AttemptStays, SettledAttempts
<1>2. ASSUME NEW old, NEW answer, Closes(t, t1, old, answer)
      PROVE  /\ a \in SettledAttempts(t) =>
                  a \in SettledAttempts(t1) /\ t1.attempts[a].op = t.attempts[a].op
             /\ a \in SettledAttempts(t1) =>
                  /\ t.attempts[a] # None /\ t1.attempts[a].op = t.attempts[a].op
                  /\ a \in SettledAttempts(t) \/ Unfinished(t, t.attempts[a].op)
  BY <1>2 DEF Closes, OpenFits, OpenAttempt, SettledAttempts
<1>3. CASE f.type \in {"assistant", "stepFailed", "compaction"}
  <2>1. \E old, answer : Closes(t, t1, old, answer)
    BY <1>3 DEF Follows
  <2> QED BY <1>2, <2>1
<1>4. CASE f.type \notin {"stepAttempt", "assistant", "stepFailed", "compaction"}
  <2>1. t1.attempts = t.attempts
    BY <1>4 DEF Follows
  <2> QED BY <2>1 DEF SettledAttempts
<1> QED BY <1>1, <1>3, <1>4
=============================================================================
