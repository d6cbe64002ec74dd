-------------------------- MODULE DurableAgentProofs --------------------------
(***************************************************************************)
(* Proofs about DurableAgent: one inductive invariant, and the properties  *)
(* that follow from it.                                                    *)
(*                                                                         *)
(* The file's part of the invariant is that of SessionLineProofs: whatever *)
(* line the reducer accepts keeps it.  The rest says what each place of    *)
(* the worker holds of the session and of its job, so that the facts it    *)
(* appends next are facts, and so that a tool it is about to execute is    *)
(* one that was never executed or that may be replayed.  One lemma per     *)
(* action shows that the action keeps the invariant and that it starts no  *)
(* tool of an operation that is being aborted.                             *)
(***************************************************************************)
EXTENDS DurableAgent, SessionLineProofs

-----------------------------------------------------------------------------
(* Numbers *)

(* A set of natural numbers that is not empty has a least member.           *)
LEMMA Least ==
  ASSUME NEW S \in SUBSET Nat, S # {}
  PROVE  \E k \in S : \A j \in S : k <= j
<1> DEFINE R == {p \in Nat \X Nat : p[1] < p[2]}
<1>1. IsWellFoundedOn(R, Nat)
  BY NatLessThanWellFounded, Zenon DEF OpToRel
<1>2. PICK k \in S : \A j \in S : <<j, k>> \notin R
  BY <1>1, WFMin, Zenon
<1>3. ASSUME NEW j \in S PROVE k <= j
  <2>1. ~(j < k)
    BY <1>2
  <2> QED BY <2>1
<1> QED BY <1>2, <1>3

(* And a greatest one, if it is bounded.                                    *)
LEMMA Greatest ==
  ASSUME NEW S \in SUBSET Nat, S # {}, NEW b \in Nat, \A j \in S : j <= b
  PROVE  \E k \in S : \A j \in S : j <= k
<1> DEFINE B == {n \in Nat : \A j \in S : j <= n}
<1>1. PICK k \in B : \A n \in B : k <= n
  <2>1. B \in SUBSET Nat /\ b \in B
    OBVIOUS
  <2> HIDE DEF B
  <2> QED BY <2>1, Least
<1>2. k \in S
  <2> SUFFICES ASSUME k \notin S PROVE FALSE
    OBVIOUS
  <2>1. PICK j \in S : TRUE
    OBVIOUS
  <2>2. \A i \in S : i <= k - 1
    BY <1>1
  <2>3. k - 1 \in Nat
    BY <1>1, <2>1, <2>2
  <2>4. k - 1 \in B
    BY <2>2, <2>3
  <2> QED BY <1>1, <2>3, <2>4
<1> QED BY <1>1, <1>2

(* A finite set of natural numbers is bounded.                              *)
LEMMA Bounded ==
  ASSUME NEW S \in SUBSET Nat, IsFiniteSet(S)
  PROVE  \E b \in Nat : \A j \in S : j <= b
<1> DEFINE N == Cardinality(S)
<1>1. N \in Nat /\ ExistsBijection(1..N, S)
  BY FS_CardinalityType
<1>0. \A j \in S : j \in Nat
  OBVIOUS
<1>2. PICK f : f \in [1..N -> S] /\ \A j \in S : \E i \in 1..N : f[i] = j
  BY <1>1 DEF ExistsBijection, Bijection, Injection, Surjection
<1> HIDE DEF N
<1> DEFINE T == {n \in Nat : n <= N => \E b \in Nat : \A i \in 1..n : f[i] <= b}
<1>3. T \in SUBSET Nat
  OBVIOUS
<1>4. 0 \in T
  <2>1. \A i \in 1..0 : f[i] <= 0
    OBVIOUS
  <2> QED BY <2>1
<1>5. ASSUME NEW n \in T PROVE n + 1 \in T
  <2> SUFFICES ASSUME n + 1 <= N PROVE \E b \in Nat : \A i \in 1..(n + 1) : f[i] <= b
    BY <1>3
  <2>0. n \in Nat /\ n <= N
    BY <1>1, <1>3
  <2>1. PICK b \in Nat : \A i \in 1..n : f[i] <= b
    BY <2>0
  <2> HIDE DEF T
  <2>2. n + 1 \in 1..N /\ f[n + 1] \in Nat
    <3>1. n + 1 \in 1..N
      BY <1>1, <2>0
    <3>2. f[n + 1] \in S
      BY <1>2, <3>1, Zenon
    <3> QED BY <1>0, <3>1, <3>2
  <2>3. ASSUME NEW i \in 1..(n + 1) PROVE f[i] <= b + f[n + 1]
    <3>1. CASE i \in 1..n
      <4>1. f[i] \in Nat /\ f[i] <= b
        <5>1. i \in 1..N
          BY <1>1, <2>0, <3>1
        <5>2. f[i] \in S
          BY <1>2, <5>1, Zenon
        <5> QED BY <1>0, <2>1, <3>1, <5>2
      <4> QED BY <2>2, <4>1
    <3>2. CASE i = n + 1
      BY <2>2, <3>2
    <3> QED BY <2>0, <3>1, <3>2
  <2>4. b + f[n + 1] \in Nat
    BY <2>2
  <2> QED BY <2>3, <2>4
<1>6. Nat \subseteq T
  <2> HIDE DEF T
  <2> QED BY <1>3, <1>4, <1>5, SetInduction
<1>7. PICK b \in Nat : \A i \in 1..N : f[i] <= b
  <2>0. N \in T
    BY <1>1, <1>6
  <2>1. N \in T /\ N <= N
    BY <1>1, <2>0
  <2> QED BY <2>1, Zenon
<1> QED BY <1>2, <1>7

(* There is an n-th smallest member, if there are that many.                *)
LEMMA NthType ==
  ASSUME NEW S \in SUBSET Nat, IsFiniteSet(S), NEW n \in 1..Cardinality(S)
  PROVE  Nth(S, n) \in S
<1> DEFINE Below(k) == {j \in S : j < k}
           T == {k \in Nat : Cardinality(Below(k)) >= n}
<1>0. Cardinality(S) \in Nat /\ \A j \in S : j \in Nat
  BY FS_CardinalityType
<1>1. ASSUME NEW k PROVE IsFiniteSet(Below(k)) /\ Cardinality(Below(k)) \in Nat
  BY FS_Subset, FS_CardinalityType
<1>2. T # {}
  <2>1. PICK b \in Nat : \A j \in S : j <= b
    BY Bounded
  <2>2. Below(b + 1) = S
    <3>1. \A j \in S : j < b + 1
      BY <1>0, <2>1
    <3> QED BY <3>1, Zenon
  <2>3. Cardinality(S) >= n
    BY <1>0
  <2>4. Cardinality(Below(b + 1)) >= n
    BY <2>2, <2>3, Zenon
  <2>5. b + 1 \in T
    BY <2>4
  <2> QED BY <2>5
<1>3. PICK k \in T : \A j \in T : k <= j
  <2>1. T \in SUBSET Nat
    OBVIOUS
  <2> HIDE DEF T
  <2> QED BY <1>2, <2>1, Least
<1>4. k \in Nat /\ Cardinality(Below(k)) >= n
  BY <1>3
<1>5. k # 0
  <2>1. Below(0) = {}
    <3>1. \A j \in S : ~(j < 0)
      BY <1>0
    <3> QED BY <3>1, Zenon
  <2>2. Cardinality(Below(0)) = 0
    BY <2>1, FS_EmptySet, Zenon
  <2>3. ~(0 >= n)
    OBVIOUS
  <2> QED BY <1>4, <2>2, <2>3, Zenon
<1> DEFINE p == k - 1
<1>6. p \in Nat /\ p < k
  BY <1>4, <1>5
<1>7. ~(Cardinality(Below(p)) >= n)
  <2>1. p \notin T
    BY <1>3, <1>6
  <2> QED BY <1>6, <2>1
<1>8. Cardinality(Below(p)) \in Nat /\ IsFiniteSet(Below(p)) /\ Cardinality(Below(k)) \in Nat
  BY <1>1
<1>9. p \in S
  <2> SUFFICES ASSUME p \notin S PROVE FALSE
    OBVIOUS
  <2>1. Below(k) = Below(p)
    <3>1. \A j \in S : j < k <=> j < p
      BY <1>0, <1>4, <1>6
    <3> QED BY <3>1, Zenon
  <2> HIDE DEF Below
  <2> QED BY <1>4, <1>7, <2>1, Zenon
<1>10. Cardinality(Below(p)) = n - 1
  <2>1. Below(k) = Below(p) \cup {p} /\ p \notin Below(p)
    <3>1. \A j \in S : j < k <=> j < p \/ j = p
      BY <1>0, <1>4, <1>6, <1>9
    <3>2. ~(p < p)
      BY <1>6
    <3> HIDE DEF p
    <3> QED BY <1>9, <3>1, <3>2, Zenon
  <2> HIDE DEF Below, p
  <2>2. Cardinality(Below(k)) = Cardinality(Below(p)) + 1
    BY <1>8, <2>1, FS_AddElement
  <2> QED BY <1>4, <1>7, <1>8, <2>2
<1>11. \E i \in S : Cardinality({j \in S : j < i}) = n - 1
  BY <1>9, <1>10, Zenon
<1> QED BY <1>11 DEF Nth

-----------------------------------------------------------------------------
(* The facts the agent appends are of the right shape *)

(* The identities a transaction allocates are identities.                   *)
LEMMA Allocates ==
  ASSUME NEW m \in Nat, s \in State, Room(m), NEW n \in 1..m
  PROVE  New(n) \in Id
<1>1. FreeIds \in SUBSET Nat /\ FreeIds \subseteq Id /\ IsFiniteSet(Id)
  BY BoundsAssumption DEF FreeIds
<1>2. IsFiniteSet(FreeIds)
  BY <1>1, FS_Subset
<1>3. Cardinality(FreeIds) \in Nat
  BY <1>2, FS_CardinalityType
<1>4. n \in 1..Cardinality(FreeIds)
  BY <1>3 DEF Room
<1>5. Nth(FreeIds, n) \in FreeIds
  BY <1>1, <1>2, <1>4, NthType
<1> QED BY <1>1, <1>5 DEF New

(* A user message, and the run it starts.                                   *)
LEMMA RunFactTypes ==
  ASSUME NEW i \in Id, NEW op \in Id
  PROVE  UserMessage(i) \in Facts /\ RunStarted(op, i) \in Facts
BY DEF UserMessage, RunStarted, Facts, UserFacts, RunFacts

(* The start of a compaction.                                               *)
LEMMA CompactionFactTypes ==
  ASSUME NEW op \in Id, NEW i \in Id, NEW result \in Id, NEW source \in Seq(Id)
  PROVE  CompactionStarted(op, i, result, source) \in Facts
BY DEF CompactionStarted, Facts, CompactionFacts

(* Its entry.                                                               *)
LEMMA SummaryFactTypes ==
  ASSUME NEW op \in Id, NEW i \in Id, NEW through \in Id, NEW retained \in Seq(Id)
  PROVE  CompactionEntry(i, op, through, retained) \in Facts
BY DEF CompactionEntry, Facts, SummaryFacts

(* An attempt, its failure and its usage.                                   *)
LEMMA AttemptFactTypes ==
  ASSUME NEW op \in Id, NEW step \in Id, NEW a \in Id, NEW kind \in {"run", "compaction"},
         NEW number \in 1..2, NEW context \in Id, NEW config \in ConfigurationSnapshot
  PROVE  StepAttempt(op, step, a, kind, number, context, config) \in Facts
BY DEF StepAttempt, Facts, AttemptFacts

(* A failed attempt, and what an attempt used.                              *)
LEMMA FailureFactTypes ==
  ASSUME NEW op \in Id, NEW step \in Id, NEW a \in Id
  PROVE  StepFailed(op, step, a) \in Facts /\ UsageFact(op, a, 1) \in Facts
BY DEF StepFailed, UsageFact, Facts, FailureFacts, UsageFacts

(* An answer.                                                               *)
LEMMA AnswerFactTypes ==
  ASSUME NEW i \in Id, NEW step \in Id, NEW a \in Id, NEW answer \in Answers
  PROVE  AssistantMessage(i, step, a, answer) \in Facts
<1>1. answer.stop \in Stop /\ answer.calls \in Seq(Call) /\ answer.text \in BOOLEAN
  BY AnswersAssumption
<1> QED BY <1>1 DEF AssistantMessage, Facts, AssistantFacts

(* The intent of a tool.                                                    *)
LEMMA ToolFactTypes ==
  ASSUME NEW i \in Id, NEW op \in Id, NEW step \in Id, NEW assistant \in Id, NEW k \in Nat,
         NEW call \in Call, NEW process \in Setups, NEW result \in Id
  PROVE  ToolStarted(i, op, step, assistant, k, call, process.replay[call.name],
                     process.key[call.name], process.env, result) \in Facts
<1>1. call.id \in CallId /\ call.name \in ToolName /\ call.args \in Arguments
  BY DEF Call
<1>2. /\ process.env \in Environment /\ process.replay[call.name] \in {"safe", "never"}
      /\ process.key[call.name] \in ReplayKey
  BY <1>1, SetupsAssumption
<1> QED BY <1>1, <1>2 DEF ToolStarted, Facts, ToolFacts

(* The result of a started tool.                                            *)
LEMMA ResultFactTypes ==
  ASSUME s \in State, NEW t \in Id, s.tools[t] # None
  PROVE  Result(t) \in Facts
<1>1. s.tools[t] \in ToolCallState
  BY Fields
<1>2. s.tools[t].result \in Id /\ s.tools[t].step \in Id /\ s.tools[t].call \in CallId
  BY <1>1 DEF ToolCallState
<1> QED BY <1>2 DEF Result, ToolResult, Facts, ResultFacts

(* The result of a call that was not started.                               *)
LEMMA SyntheticFactTypes ==
  ASSUME NEW i \in Id, NEW step \in Id, NEW assistant \in Id, NEW k \in Nat, NEW call \in Call
  PROVE  SyntheticToolResult(i, step, assistant, k, call) \in Facts
<1>1. call.id \in CallId /\ call.name \in ToolName
  BY DEF Call
<1> QED BY <1>1 DEF SyntheticToolResult, Facts, SyntheticFacts

(* An abort request, and the end of an operation.                           *)
LEMMA AbortFactTypes ==
  ASSUME NEW op \in Id, NEW kind \in {"run", "compaction"},
         NEW phase \in {"model", "tool", "compact"}, NEW call \in CallId \cup {None}
  PROVE  AbortRequested(op, kind, phase, call) \in Facts
BY DEF AbortRequested, Facts, AbortFacts

(* The end of an operation.                                                 *)
LEMMA FinishFactTypes ==
  ASSUME NEW op \in Id, NEW kind \in {"run", "compaction"}, NEW outcome \in Outcome,
         NEW final \in Id \cup {None}
  PROVE  OperationFinished(op, kind, outcome, final) \in Facts
BY DEF OperationFinished, Facts, FinishFacts

(* What the current operation names.                                        *)
LEMMA CurrentTypes ==
  ASSUME NEW t, t \in State, ~Idle(t)
  PROVE  /\ t.operation \in OperationState
         /\ t.operation.id \in Id /\ t.operation.input \in Id
         /\ t.operation.kind \in {"run", "compaction"} /\ t.operation.abort \in BOOLEAN
         /\ t.operation.step # None
              => t.operation.step \in StepState /\ t.operation.step.attempt \in Id
<1>1. t.operation \in OperationState
  BY Fields DEF Idle
<1>2. t.operation.step # None => t.operation.step \in StepState
  BY <1>1 DEF OperationState
<1>3. t.operation.step # None => t.operation.step.attempt \in Id
  BY <1>2 DEF StepState
<1> QED BY <1>1, <1>2, <1>3 DEF OperationState

(* And its attempt.                                                         *)
LEMMA StepTypes ==
  ASSUME NEW t, Sound(t), ~Idle(t), t.operation.step # None
  PROVE  LET a == t.attempts[t.operation.step.attempt]
         IN  /\ a # None /\ a \in AttemptInfo /\ a.op = t.operation.id
             /\ a.step \in Id /\ a.context \in Id /\ a.settled \in Id \cup {None}
             /\ a.attempt \in 1..2
<1> DEFINE a == t.attempts[t.operation.step.attempt]
<1>1. t.operation.step.attempt \in Id /\ t \in State
  BY CurrentTypes DEF Sound
<1>2. a # None /\ a.op = t.operation.id
  BY DEF Sound, Linked
<1>3. a \in AttemptInfo
  BY <1>1, <1>2, Fields
<1> HIDE DEF a
<1>4. a.step \in Id /\ a.context \in Id /\ a.settled \in Id \cup {None} /\ a.attempt \in 1..2
  BY <1>3 DEF AttemptInfo
<1>5. a # None /\ a \in AttemptInfo /\ a.op = t.operation.id
  BY <1>2, <1>3 DEF a
<1> QED BY <1>4, <1>5 DEF a

-----------------------------------------------------------------------------
(* What the recovery planner may answer *)

(* The last message with calls, when there is one.                          *)
LEMMA CallerTypes ==
  ASSUME NEW t, Good(t), Callers(t) # {}
  PROVE  /\ LastCaller(t) \in Callers(t) /\ \A m \in Callers(t) : m <= LastCaller(t)
         /\ LastCaller(t) \in 1..Len(t.transcript)
         /\ LastCalls(t) \in Seq(Call) /\ DOMAIN LastCalls(t) = 1..Len(LastCalls(t))
<1>1. /\ t.transcript \in Seq(Id) /\ t.entries \in [Id -> Entry \cup {None}]
      /\ \A n \in DOMAIN t.transcript : t.entries[t.transcript[n]] # None
  BY Fields DEF Good, Sound, OrderSide
<1>2. Len(t.transcript) \in Nat /\ DOMAIN t.transcript = 1..Len(t.transcript)
  BY <1>1
<1>3. Callers(t) \in SUBSET Nat /\ \A m \in Callers(t) : m \in 1..Len(t.transcript)
  BY <1>2 DEF Callers
<1>4. \E n \in Callers(t) : \A m \in Callers(t) : m <= n
  <2>1. \A m \in Callers(t) : m <= Len(t.transcript)
    BY <1>2, <1>3
  <2> QED BY <1>2, <1>3, <2>1, Greatest, Zenon
<1>5. LastCaller(t) \in Callers(t) /\ \A m \in Callers(t) : m <= LastCaller(t)
  BY <1>4, Zenon DEF LastCaller
<1>6. LastCaller(t) \in 1..Len(t.transcript)
  BY <1>3, <1>5
<1>7. t.entries[t.transcript[LastCaller(t)]] \in Entry
  BY <1>1, <1>2, <1>6
<1>8. LastCalls(t) \in Seq(Call)
  BY <1>7 DEF Entry, LastCalls
<1> QED BY <1>5, <1>6, <1>8

(* A step with calls is that of a run, and has its answer.                  *)
LEMMA HasCallsTypes ==
  ASSUME NEW t, Good(t), ~Idle(t), HasCalls(t)
  PROVE  /\ t.operation.kind = "run" /\ t.operation.step # None /\ Callers(t) # {}
         /\ t.operation.step.attempt \in Id
         /\ t.attempts[t.operation.step.attempt].step \in Id
         /\ SettledEntry(t) \in Id /\ t.entries[SettledEntry(t)] # None
         /\ t.entries[SettledEntry(t)].attempt = t.operation.step.attempt
<1>1. /\ t.operation.kind = "run" /\ t.operation.step # None /\ Callers(t) # {}
      /\ SettledEntry(t) # None
  BY DEF HasCalls, SettledEntry
<1>2. t.operation.step.attempt \in Id
  BY <1>1, CurrentTypes DEF Good, Sound
<1>3. /\ t.attempts[t.operation.step.attempt] # None
      /\ t.attempts[t.operation.step.attempt].step \in Id
  BY <1>1, StepTypes DEF Good
<1>4. /\ SettledEntry(t) \in Id /\ t.entries[SettledEntry(t)] # None
      /\ t.entries[SettledEntry(t)].attempt = t.operation.step.attempt
  BY <1>1, <1>2, <1>3 DEF Good, SettledSide, SettledEntry
<1> QED BY <1>1, <1>2, <1>3, <1>4

(* A tool is executed again only where it was started: same environment,    *)
(* same definition, and both declarations safe under the same replay key.   *)
Matches(t, process, u) ==
  LET tool == t.tools[u]
      config == t.attempts[t.entries[tool.assistant].attempt].config
  IN  /\ tool.replay = "safe" /\ process.replay[tool.name] = "safe"
      /\ tool.key = process.key[tool.name] /\ tool.env = process.env
      /\ config.tools[tool.name] = process.config.tools[tool.name]

ResultFits(t, r) ==
  \/ "tool" \in DOMAIN r /\ r.tool \in Id /\ t.tools[r.tool] # None
  \/ "tool" \notin DOMAIN r /\ r.index \in DOMAIN LastCalls(t)

ResultsFit(t, results) ==
  /\ Len(results) \in Nat /\ DOMAIN results = 1..Len(results)
  /\ \A n \in DOMAIN results : ResultFits(t, results[n])

PlanFits(t, process, plan) ==
  \/ plan.type = "blocked"
  \/ plan.type = "closeAttempt" /\ t.operation.step # None
  \/ plan.type = "finish" /\ plan.outcome \in Outcome /\ plan.final \in Id \cup {None}
  \/ /\ plan.type = "startStep" /\ plan.number \in 1..2
     /\ plan.step \in Id \cup {None} /\ plan.context \in Id
  \/ plan.type = "appendSynthetic" /\ HasCalls(t) /\ ResultsFit(t, plan.results)
  \/ /\ plan.type = "startTool" /\ plan.mode = "replay" /\ HasCalls(t) /\ ~t.operation.abort
     /\ plan.tool \in Id /\ t.tools[plan.tool] # None
     /\ t.tools[plan.tool].status = "pending" /\ Matches(t, process, plan.tool)
  \/ /\ plan.type = "startTool" /\ plan.mode = "start" /\ HasCalls(t) /\ ~t.operation.abort
     /\ plan.index \in DOMAIN LastCalls(t)

(* Results for some of the calls, in their order.                           *)
LEMMA InOrderFits ==
  ASSUME NEW t, Good(t), ~Idle(t), HasCalls(t), NEW S, S \subseteq DOMAIN LastCalls(t)
  PROVE  /\ ResultsFit(t, InOrder(S, NotStarted))
         /\ ResultsFit(t, [n \in 1..Cardinality(S) |-> AbortResult(t, Nth(S, n))])
<1>1. DOMAIN LastCalls(t) = 1..Len(LastCalls(t)) /\ Len(LastCalls(t)) \in Nat
  BY HasCallsTypes, CallerTypes
<1>2. S \in SUBSET Nat /\ IsFiniteSet(S) /\ Cardinality(S) \in Nat
  <2>1. IsFiniteSet(1..Len(LastCalls(t)))
    BY <1>1, FS_Interval
  <2>2. S \in SUBSET (1..Len(LastCalls(t)))
    BY <1>1
  <2>3. IsFiniteSet(S)
    BY <2>1, <2>2, FS_Subset
  <2> QED BY <1>1, <2>2, <2>3, FS_CardinalityType
<1>3. \A n \in 1..Cardinality(S) : Nth(S, n) \in DOMAIN LastCalls(t)
  BY <1>2, NthType
<1>4. ASSUME NEW k \in DOMAIN LastCalls(t)
      PROVE  ResultFits(t, NotStarted(k)) /\ ResultFits(t, AbortResult(t, k))
  <2>1. ResultFits(t, NotStarted(k))
    <3>1. "tool" \notin DOMAIN NotStarted(k) /\ NotStarted(k).index = k
      BY DEF NotStarted
    <3> QED BY <3>1 DEF ResultFits
  <2>2. CASE StartedFor(t, k) = {}
    BY <2>1, <2>2 DEF AbortResult
  <2>3. CASE StartedFor(t, k) # {}
    <3> DEFINE u == CHOOSE v \in StartedFor(t, k) : TRUE
    <3>1. u \in StartedFor(t, k)
      BY <2>3
    <3>2. AbortResult(t, k) = Interrupted(u)
      BY <2>3 DEF AbortResult
    <3> HIDE DEF u
    <3>3. u \in Id /\ t.tools[u] # None
      BY <3>1 DEF StartedFor, ToolsOf
    <3>4. "tool" \in DOMAIN Interrupted(u) /\ Interrupted(u).tool = u
      BY DEF Interrupted
    <3> QED BY <2>1, <3>2, <3>3, <3>4 DEF ResultFits
  <2> QED BY <2>1, <2>2, <2>3
<1>5. ResultsFit(t, InOrder(S, NotStarted))
  <2> DEFINE r == [n \in 1..Cardinality(S) |-> NotStarted(Nth(S, n))]
  <2>1. Len(r) \in Nat /\ DOMAIN r = 1..Len(r) /\ DOMAIN r = 1..Cardinality(S)
    BY <1>2
  <2>2. \A n \in DOMAIN r : ResultFits(t, r[n])
    <3>1. \A n \in 1..Cardinality(S) : r[n] = NotStarted(Nth(S, n))
      BY Zenon
    <3> HIDE DEF r
    <3> QED BY <1>3, <1>4, <2>1, <3>1, Zenon
  <2> QED BY <2>1, <2>2, Zenon DEF ResultsFit, InOrder
<1>6. ResultsFit(t, [n \in 1..Cardinality(S) |-> AbortResult(t, Nth(S, n))])
  <2> DEFINE r == [n \in 1..Cardinality(S) |-> AbortResult(t, Nth(S, n))]
  <2>1. Len(r) \in Nat /\ DOMAIN r = 1..Len(r) /\ DOMAIN r = 1..Cardinality(S)
    BY <1>2
  <2>2. \A n \in DOMAIN r : ResultFits(t, r[n])
    <3>1. \A n \in 1..Cardinality(S) : r[n] = AbortResult(t, Nth(S, n))
      BY Zenon
    <3> HIDE DEF r
    <3> QED BY <1>3, <1>4, <2>1, <3>1, Zenon
  <2> QED BY <2>1, <2>2, Zenon DEF ResultsFit
<1> QED BY <1>5, <1>6

(* A single result.                                                         *)
LEMMA OneResultFits ==
  ASSUME NEW t, NEW r, ResultFits(t, r)
  PROVE  ResultsFit(t, <<r>>)
<1>1. Len(<<r>>) = 1 /\ DOMAIN <<r>> = 1..1 /\ <<r>>[1] = r
  OBVIOUS
<1>2. \A n \in 1..1 : n = 1
  OBVIOUS
<1>3. Len(<<r>>) \in Nat
  BY <1>1
<1> HIDE <1>3
<1> QED BY <1>1, <1>2, <1>3, Zenon DEF ResultsFit

(* A started tool without a result.                                         *)
LEMMA PlanStartedFits ==
  ASSUME NEW t, NEW process \in Setups, Good(t), ~Idle(t), HasCalls(t), ~t.operation.abort,
         NEW k, NEW u \in StartedFor(t, k), t.tools[u].status = "pending"
  PROVE  PlanFits(t, process, PlanStarted(t, process, u))
<1> DEFINE tool == t.tools[u]
           a == t.operation.step.attempt
           plan == PlanStarted(t, process, u)
<1>1. u \in Id /\ tool # None /\ tool.assistant = SettledEntry(t) /\ tool.status = "pending"
  BY DEF StartedFor, ToolsOf
<1>2. t.entries[tool.assistant].attempt = a
  BY <1>1, HasCallsTypes
<1>3. tool.replay \in {"safe", "never"}
  <2>1. tool \in ToolCallState
    BY <1>1, Fields DEF Good, Sound
  <2> QED BY <2>1 DEF ToolCallState
<1>4. \/ plan.type = "blocked"
      \/ plan = AppendSynthetic(<<Interrupted(u)>>)
      \/ /\ plan = Replay(u)
         /\ tool.env = process.env /\ tool.replay # "never"
         /\ t.attempts[a].config.tools[tool.name] = process.config.tools[tool.name]
         /\ process.replay[tool.name] = "safe" /\ process.key[tool.name] = tool.key
  BY DEF PlanStarted, Blocked
<1>5. CASE plan.type = "blocked"
  BY <1>5 DEF PlanFits
<1>6. CASE plan = AppendSynthetic(<<Interrupted(u)>>)
  <2>1. ResultFits(t, Interrupted(u))
    BY <1>1 DEF ResultFits, Interrupted
  <2>2. ResultsFit(t, <<Interrupted(u)>>)
    BY <2>1, OneResultFits
  <2>3. plan.type = "appendSynthetic" /\ plan.results = <<Interrupted(u)>>
    BY <1>6 DEF AppendSynthetic
  <2> HIDE DEF plan
  <2>9. PlanFits(t, process, plan)
    BY <2>2, <2>3, Zenon DEF PlanFits
  <2> QED BY <2>9 DEF plan
<1>7. CASE /\ plan = Replay(u)
           /\ tool.env = process.env /\ tool.replay # "never"
           /\ t.attempts[a].config.tools[tool.name] = process.config.tools[tool.name]
           /\ process.replay[tool.name] = "safe" /\ process.key[tool.name] = tool.key
  <2>1. Matches(t, process, u)
    BY <1>2, <1>3, <1>7 DEF Matches
  <2>2. plan.type = "startTool" /\ plan.mode = "replay" /\ plan.tool = u
    BY <1>7 DEF Replay
  <2> HIDE DEF plan
  <2>9. PlanFits(t, process, plan)
    BY <1>1, <2>1, <2>2, Zenon DEF PlanFits
  <2> QED BY <2>9 DEF plan
<1> QED BY <1>4, <1>5, <1>6, <1>7

(* A call that was never started.                                           *)
LEMMA PlanUnstartedFits ==
  ASSUME NEW t, NEW process \in Setups, Good(t), ~Idle(t), HasCalls(t), ~t.operation.abort,
         NEW k \in DOMAIN LastCalls(t)
  PROVE  PlanFits(t, process, PlanUnstarted(t, process, k))
<1> DEFINE plan == PlanUnstarted(t, process, k)
<1>1. \/ plan.type = "blocked"
      \/ plan = AppendSynthetic(<<NotStarted(k)>>)
      \/ plan = Start(k)
  BY DEF PlanUnstarted, Blocked
<1>2. CASE plan.type = "blocked"
  BY <1>2 DEF PlanFits
<1>3. CASE plan = AppendSynthetic(<<NotStarted(k)>>)
  <2>1. ResultFits(t, NotStarted(k))
    BY DEF ResultFits, NotStarted
  <2>2. ResultsFit(t, <<NotStarted(k)>>)
    BY <2>1, OneResultFits
  <2>3. plan.type = "appendSynthetic" /\ plan.results = <<NotStarted(k)>>
    BY <1>3 DEF AppendSynthetic
  <2> HIDE DEF plan
  <2>9. PlanFits(t, process, plan)
    BY <2>2, <2>3, Zenon DEF PlanFits
  <2> QED BY <2>9 DEF plan
<1>4. CASE plan = Start(k)
  <2>1. plan.type = "startTool" /\ plan.mode = "start" /\ plan.index = k
    BY <1>4 DEF Start
  <2> HIDE DEF plan
  <2>9. PlanFits(t, process, plan)
    BY <2>1, Zenon DEF PlanFits
  <2> QED BY <2>9 DEF plan
<1> QED BY <1>1, <1>2, <1>3, <1>4

(* The first open call.                                                     *)
LEMMA PlanCallsFits ==
  ASSUME NEW t, NEW process \in Setups, Good(t), ~Idle(t), HasCalls(t), ~t.operation.abort
  PROVE  PlanFits(t, process, PlanCalls(t, process))
<1>1. CASE Open(t) # {}
  <2> DEFINE k == CHOOSE j \in Open(t) : \A l \in Open(t) : j <= l
  <2>1. DOMAIN LastCalls(t) = 1..Len(LastCalls(t)) /\ Len(LastCalls(t)) \in Nat
    BY HasCallsTypes, CallerTypes
  <2>2. Open(t) \in SUBSET Nat /\ \A l \in Open(t) : l \in DOMAIN LastCalls(t)
    BY <2>1 DEF Open, Unprocessed
  <2>3. \E j \in Open(t) : \A l \in Open(t) : j <= l
    BY <1>1, <2>2, Least, Zenon
  <2>4. k \in Open(t)
    BY <2>3, Zenon
  <2>5. PlanCalls(t, process)
          = IF StartedFor(t, k) # {}
              THEN PlanStarted(t, process, CHOOSE u \in StartedFor(t, k) : TRUE)
              ELSE PlanUnstarted(t, process, k)
    BY <1>1, Zenon DEF PlanCalls
  <2> HIDE DEF k
  <2>6. CASE StartedFor(t, k) # {}
    <3> DEFINE u == CHOOSE v \in StartedFor(t, k) : TRUE
    <3>1. u \in StartedFor(t, k)
      BY <2>6, Zenon
    <3>2. PlanCalls(t, process) = PlanStarted(t, process, u)
      BY <2>5, <2>6, Zenon
    <3> HIDE DEF u
    <3>3. t.tools[u].status = "pending"
      BY <2>4, <3>1 DEF Open
    <3> QED BY <3>1, <3>2, <3>3, PlanStartedFits, Zenon
  <2>7. CASE StartedFor(t, k) = {}
    BY <2>2, <2>4, <2>5, <2>7, PlanUnstartedFits, Zenon
  <2> QED BY <2>6, <2>7
<1>2. CASE Open(t) = {}
  <2> DEFINE plan == PlanCalls(t, process)
  <2>1. \/ plan.type = "blocked"
        \/ plan = StartStep(1, None, t.through) /\ t.through # None
    BY <1>2 DEF PlanCalls, Blocked
  <2>2. t.through \in Id \cup {None}
    BY Fields DEF Good, Sound
  <2>3. CASE plan.type = "blocked"
    BY <2>3 DEF PlanFits
  <2>4. CASE plan = StartStep(1, None, t.through) /\ t.through # None
    <3>1. /\ plan.type = "startStep" /\ plan.number \in 1..2
          /\ plan.step \in Id \cup {None} /\ plan.context \in Id
      BY <2>2, <2>4 DEF StartStep
    <3> HIDE DEF plan
    <3>2. PlanFits(t, process, plan)
      BY <3>1, Zenon DEF PlanFits
    <3> QED BY <3>2 DEF plan
  <2> QED BY <2>1, <2>3, <2>4
<1> QED BY <1>1, <1>2

(* After a truncated answer.                                                *)
LEMMA PlanTruncatedFits ==
  ASSUME NEW t, NEW process \in Setups, Good(t), ~Idle(t), HasCalls(t)
  PROVE  PlanFits(t, process, PlanTruncated(t))
<1> DEFINE plan == PlanTruncated(t)
<1>1. CASE Unprocessed(t) = {}
  <2>1. plan.type = "finish" /\ plan.outcome \in Outcome /\ plan.final \in Id \cup {None}
    BY <1>1 DEF PlanTruncated, Finish, Outcome
  <2> HIDE DEF plan
  <2>2. PlanFits(t, process, plan)
    BY <2>1, Zenon DEF PlanFits
  <2> QED BY <2>2 DEF plan
<1>2. CASE Unprocessed(t) # {}
  <2>1. plan = AppendSynthetic(InOrder(Unprocessed(t), NotStarted))
    BY <1>2, Zenon DEF PlanTruncated
  <2> DEFINE r == InOrder(Unprocessed(t), NotStarted)
  <2>2. ResultsFit(t, r)
    <3>1. Unprocessed(t) \subseteq DOMAIN LastCalls(t)
      BY DEF Unprocessed
    <3> QED BY <3>1, InOrderFits
  <2>3. plan = AppendSynthetic(r)
    BY <2>1
  <2> HIDE DEF plan, r
  <2>4. plan.type = "appendSynthetic" /\ plan.results = r
    BY <2>3 DEF AppendSynthetic
  <2>5. PlanFits(t, process, plan)
    BY <2>2, <2>4, Zenon DEF PlanFits
  <2> QED BY <2>5 DEF plan
<1> QED BY <1>1, <1>2

(* After an abort request.                                                  *)
LEMMA PlanAbortFits ==
  ASSUME NEW t, NEW process \in Setups, Good(t), ~Idle(t)
  PROVE  PlanFits(t, process, PlanAbort(t))
<1> DEFINE plan == PlanAbort(t)
<1>1. CASE Attempting(t)
  <2>1. plan.type = "closeAttempt" /\ t.operation.step # None
    BY <1>1 DEF PlanAbort, CloseAttempt, Attempting
  <2> QED BY <2>1 DEF PlanFits
<1>2. CASE ~Attempting(t) /\ HasCalls(t) /\ Open(t) # {}
  <2> DEFINE r == [n \in 1..Cardinality(Open(t)) |-> AbortResult(t, Nth(Open(t), n))]
  <2>1. plan = AppendSynthetic(r)
    BY <1>2, Zenon DEF PlanAbort, InOrder
  <2>2. ResultsFit(t, r)
    <3>1. Open(t) \subseteq DOMAIN LastCalls(t) /\ HasCalls(t)
      BY <1>2 DEF Open, Unprocessed
    <3> QED BY <3>1, InOrderFits
  <2> HIDE DEF plan, r
  <2>4. plan.type = "appendSynthetic" /\ plan.results = r
    BY <2>1 DEF AppendSynthetic
  <2>5. PlanFits(t, process, plan)
    BY <1>2, <2>2, <2>4, Zenon DEF PlanFits
  <2> QED BY <2>5 DEF plan
<1>3. CASE ~Attempting(t) /\ ~(HasCalls(t) /\ Open(t) # {})
  <2>1. plan.type = "finish" /\ plan.outcome \in Outcome /\ plan.final \in Id \cup {None}
    BY <1>3 DEF PlanAbort, Finish, Outcome
  <2> HIDE DEF plan
  <2>2. PlanFits(t, process, plan)
    BY <2>1, Zenon DEF PlanFits
  <2> QED BY <2>2 DEF plan
<1> QED BY <1>1, <1>2, <1>3

(* A step that still waited for the provider.                               *)
LEMMA PlanAttemptingFits ==
  ASSUME NEW t, NEW process \in Setups, Good(t), ~Idle(t), Attempting(t)
  PROVE  PlanFits(t, process, PlanAttempting(t, process))
<1> DEFINE plan == PlanAttempting(t, process)
           a == t.attempts[t.operation.step.attempt]
<1>1. a.step \in Id /\ a.context \in Id
  <2>1. Sound(t) /\ t.operation.step # None
    BY DEF Attempting, Good
  <2> QED BY <2>1, StepTypes
<1>2. plan.type = "blocked" \/ plan = StartStep(2, a.step, a.context)
  BY DEF PlanAttempting, Blocked
<1>3. plan.type = "blocked" \/
        /\ plan.type = "startStep" /\ plan.number \in 1..2
        /\ plan.step \in Id \cup {None} /\ plan.context \in Id
  BY <1>1, <1>2 DEF StartStep
<1> HIDE DEF plan
<1>4. PlanFits(t, process, plan)
  BY <1>3, Zenon DEF PlanFits
<1> QED BY <1>4 DEF plan

(* A step that has its answer.                                              *)
LEMMA PlanSettledFits ==
  ASSUME NEW t, NEW process \in Setups, Good(t), ~Idle(t), t.operation.step # None,
         ~t.operation.abort
  PROVE  PlanFits(t, process, PlanSettled(t, process))
<1> DEFINE plan == PlanSettled(t, process)
<1>1. CASE t.operation.kind = "compaction"
  <2>1. plan = Finish("completed", t.operations[t.operation.id].result)
    BY <1>1, Zenon DEF PlanSettled
  <2>2. t.operations[t.operation.id].result \in Id \cup {None}
    <3>1. t.operation.id \in Id /\ t \in State
      BY CurrentTypes DEF Good, Sound
    <3>2. t.operations[t.operation.id] # None
      BY <3>1 DEF Good, Sound, OneCurrent, Unfinished
    <3>3. t.operations[t.operation.id] \in OperationInfo
      BY <3>1, <3>2, Fields
    <3> QED BY <3>3 DEF OperationInfo
  <2> HIDE DEF plan
  <2>3. plan.type = "finish" /\ plan.outcome \in Outcome /\ plan.final \in Id \cup {None}
    BY <2>1, <2>2 DEF Finish, Outcome
  <2>4. PlanFits(t, process, plan)
    BY <2>3, Zenon DEF PlanFits
  <2> QED BY <2>4 DEF plan
<1>2. CASE t.operation.kind # "compaction" /\ ~HasCalls(t)
  <2>1. plan = Finish("completed", SettledEntry(t))
    BY <1>2, Zenon DEF PlanSettled
  <2>2. SettledEntry(t) \in Id \cup {None}
    BY StepTypes DEF SettledEntry, Good
  <2> HIDE DEF plan
  <2>3. plan.type = "finish" /\ plan.outcome \in Outcome /\ plan.final \in Id \cup {None}
    BY <2>1, <2>2 DEF Finish, Outcome
  <2>4. PlanFits(t, process, plan)
    BY <2>3, Zenon DEF PlanFits
  <2> QED BY <2>4 DEF plan
<1>3. CASE /\ t.operation.kind # "compaction" /\ HasCalls(t)
           /\ t.entries[SettledEntry(t)].stop = "length"
  BY <1>3, PlanTruncatedFits, Zenon DEF PlanSettled
<1>4. CASE /\ t.operation.kind # "compaction" /\ HasCalls(t)
           /\ t.entries[SettledEntry(t)].stop # "length"
  BY <1>4, PlanCallsFits, Zenon DEF PlanSettled
<1> QED BY <1>1, <1>2, <1>3, <1>4

(* Whatever the planner answers can be carried out.                         *)
LEMMA PlanAlwaysFits ==
  ASSUME NEW t, NEW process \in Setups, Good(t), ~Idle(t)
  PROVE  PlanFits(t, process, Plan(t, process))
<1> DEFINE plan == Plan(t, process)
<1>0. t.operation.input \in Id
  BY CurrentTypes DEF Good, Sound
<1>1. CASE t.operation.abort
  BY <1>1, PlanAbortFits, Zenon DEF Plan
<1>2. CASE ~t.operation.abort /\ t.operation.step = None
  <2>1. plan = StartStep(1, None, t.operation.input)
    BY <1>2, Zenon DEF Plan
  <2> HIDE DEF plan
  <2>2. /\ plan.type = "startStep" /\ plan.number \in 1..2
        /\ plan.step \in Id \cup {None} /\ plan.context \in Id
    BY <1>0, <2>1 DEF StartStep
  <2>3. PlanFits(t, process, plan)
    BY <2>2, Zenon DEF PlanFits
  <2> QED BY <2>3 DEF plan
<1>3. CASE /\ ~t.operation.abort /\ t.operation.step # None
           /\ t.operation.step.status = "failed"
  <2>1. plan = Finish("failed", None)
    BY <1>3, Zenon DEF Plan
  <2> HIDE DEF plan
  <2>2. plan.type = "finish" /\ plan.outcome \in Outcome /\ plan.final \in Id \cup {None}
    BY <2>1 DEF Finish, Outcome
  <2>3. PlanFits(t, process, plan)
    BY <2>2, Zenon DEF PlanFits
  <2> QED BY <2>3 DEF plan
<1>4. CASE /\ ~t.operation.abort /\ t.operation.step # None
           /\ t.operation.step.status # "failed" /\ Attempting(t)
  BY <1>4, PlanAttemptingFits, Zenon DEF Plan
<1>5. CASE /\ ~t.operation.abort /\ t.operation.step # None
           /\ t.operation.step.status # "failed" /\ ~Attempting(t)
  BY <1>5, PlanSettledFits, Zenon DEF Plan
<1> QED BY <1>1, <1>2, <1>3, <1>4, <1>5

-----------------------------------------------------------------------------
(* The inductive invariant *)

(* What each place of the worker holds of the session and of its job.       *)
AtRest == {"idle", "prompt", "compact", "start", "recover", "down"}
AtCompaction == {"admit", "summarize", "summaryError", "settle", "finishCompaction"}
AtRun ==
  {"step", "model", "modelError", "abortClose", "answered", "finishRun", "tools", "started",
   "execute", "executing", "toolAbort", "toolResult", "toolAborted"}
AtAttempt ==
  {"model", "modelError", "abortClose", "answered", "summarize", "summaryError", "settle"}
AtTool == {"started", "execute", "executing", "toolAbort", "toolResult"}
AtAnswer(at, j) ==
  \/ at \in {"answered", "finishRun", "tools", "started", "toolAborted"}
  \/ at \in {"execute", "executing", "toolAbort", "toolResult"} /\ ~j.direct

Job ==
  [op: Id \cup {None}, context: Id \cup {None}, step: Id \cup {None}, number: 1..2,
   attempt: Id \cup {None}, answer: Answers \cup {None}, assistant: Id \cup {None},
   index: Nat, last: Id \cup {None}, tool: Id \cup {None},
   summary: {"none", "summary", "invalid", "error"}, flag: BOOLEAN, auto: BOOLEAN,
   direct: BOOLEAN, recovering: BOOLEAN]

(* The job's operation is the session's.                                    *)
OperationFits(t, at, j) ==
  at \in AtCompaction \cup AtRun =>
    /\ ~Idle(t) /\ t.operation.id = j.op
    /\ at \in AtRun => t.operation.kind = "run"
    /\ at \in AtCompaction => t.operation.kind = "compaction"

(* A step to begin has its context.                                         *)
ContextFits(at, j) == at \in {"step", "admit"} => j.context \in Id

(* The attempt the worker waits for is the open one.                        *)
AttemptFits(t, at, j) ==
  at \in AtAttempt =>
    /\ j.step \in Id /\ j.attempt \in Id
    /\ t.operation.step = [attempt |-> j.attempt, status |-> "attempting"]

(* The calls of an answer are taken in order; the last has a result.        *)
AnswerFits(at, j) ==
  AtAnswer(at, j) =>
    /\ j.answer \in Answers /\ j.step \in Id
    /\ at # "answered" => j.assistant \in Id
    /\ at \notin {"answered", "finishRun"} =>
         /\ j.answer.calls # << >>
         /\ j.index \in 1..(Len(j.answer.calls) + 1)
         /\ j.index > 1 => j.last \in Id
         /\ at # "tools" => j.index <= Len(j.answer.calls)

(* A tool about to be executed is pending, and either it never was or it    *)
(* may be replayed here.                                                    *)
ToolFits(t, at, j, count, process) ==
  at \in AtTool =>
    /\ j.tool \in Id /\ t.tools[j.tool] # None
    /\ at \in {"started", "execute"} =>
         /\ t.tools[j.tool].status = "pending"
         /\ count[j.tool] = 0 \/ (j.recovering /\ Matches(t, process, j.tool))

(* What was executed was started, and once if it must not be replayed.      *)
EffectsFit(t, count) ==
  \A u \in Id : count[u] > 0 =>
    t.tools[u] # None /\ (t.tools[u].replay = "never" => count[u] <= 1)

(* Nobody presses Esc while a session is recovered.                         *)
UserFits(at, j, who) ==
  /\ at = "recover" => j.recovering
  /\ j.recovering \/ at = "down" => who = "idle"

CompactedFits(t, c) == NoCompaction(t) \/ c \in Id

(* Each answer that is kept is charged.                                     *)
Charged(t) == t.usage = Cardinality(SettledAttempts(t))

FileInv(t) == Good(t) /\ TailSide(t) /\ Charged(t)

IInv ==
  /\ TypeOK /\ job \in Job /\ FileInv(s)
  /\ OperationFits(s, pc, job) /\ ContextFits(pc, job) /\ AttemptFits(s, pc, job)
  /\ AnswerFits(pc, job) /\ ToolFits(s, pc, job, effects, now)
  /\ EffectsFit(s, effects) /\ UserFits(pc, job, user) /\ CompactedFits(s, compacted)

-----------------------------------------------------------------------------
(* What a line does to the session *)

(* The file's part of the invariant is kept, and so is every started tool.  *)
FileStep(t, t1) ==
  /\ FileInv(t1) /\ ToolsKept(t, t1)
  /\ \A c : CompactedFits(t, c) => CompactedFits(t1, c)

(* No tool starts once the operation is being aborted.                      *)
Intents(t, t1) ==
  \A u \in Id : t.tools[u] = None /\ t1.tools[u] # None => ~t.operation.abort

(* A step that leaves the file alone is such a step.                        *)
LEMMA SameFile ==
  ASSUME NEW t, FileInv(t)
  PROVE  FileStep(t, t) /\ Keeps(t, t, {}) /\ Intents(t, t)
BY KeepsNone DEF FileStep, ToolsKept, Intents

(* A line that neither settles an attempt nor begins a compaction.          *)
LEMMA PlainLine ==
  ASSUME NEW t, NEW t1, FileInv(t), NEW facts, Len(facts) \in Nat,
         \A n \in 1..Len(facts) : facts[n] \in Facts, t1 \in ReduceLine(t, facts),
         Without(Members(facts), {"assistant", "compaction", "usage", "compactionStarted"}),
         NoCompaction(t) \/ Without(Members(facts), {"user", "result"})
  PROVE  FileStep(t, t1) /\ Keeps(t, t1, Members(facts))
<1> DEFINE F == Members(facts)
<1>1. Good(t1) /\ Keeps(t, t1, F)
  BY LineKept DEF FileInv
<1> HIDE DEF F
<1>2. /\ Without(F, {"usage"}) /\ Without(F, {"assistant", "compaction"})
      /\ Without(F, {"compactionStarted"})
      /\ NoCompaction(t) \/ Without(F, {"user", "result", "compactionStarted"})
  BY Zenon DEF Without, F
<1>3. Charged(t1)
  BY <1>1, <1>2, Zenon DEF Keeps, KeepsCharges, Charged, FileInv
<1>4. TailSide(t1) /\ (NoCompaction(t) => NoCompaction(t1))
  BY <1>1, <1>2, Zenon DEF Keeps, KeepsTail, FileInv
<1>5. ToolsKept(t, t1)
  BY <1>1, Zenon DEF Keeps, KeepsTools
<1>6. \A c : CompactedFits(t, c) => CompactedFits(t1, c)
  BY <1>4, Zenon DEF CompactedFits
<1> QED BY <1>1, <1>3, <1>4, <1>5, <1>6, Zenon DEF FileStep, FileInv, F

(* Lines of one fact and of two.                                            *)
LEMMA PlainOne ==
  ASSUME NEW t, NEW t1, FileInv(t), NEW f \in Facts, t1 \in ReduceLine(t, <<f>>),
         f.type \notin {"assistant", "compaction", "usage", "compactionStarted"},
         NoCompaction(t) \/ f.type \notin {"user", "result"}
  PROVE  FileStep(t, t1) /\ Keeps(t, t1, {f}) /\ Reduces(t, t1, f)
<1>1. Len(<<f>>) = 1 /\ Members(<<f>>) = {f} /\ <<f>>[1] = f
  BY MembersOne
<1>2. Len(<<f>>) \in Nat /\ \A n \in 1..Len(<<f>>) : <<f>>[n] \in Facts
  BY <1>1
<1>3. /\ Without(Members(<<f>>), {"assistant", "compaction", "usage", "compactionStarted"})
      /\ NoCompaction(t) \/ Without(Members(<<f>>), {"user", "result"})
  BY <1>1, Zenon DEF Without
<1>4. FileStep(t, t1) /\ Keeps(t, t1, Members(<<f>>))
  BY <1>2, <1>3, PlainLine
<1> QED BY <1>1, <1>4, LineOne, Zenon

(* And of two.                                                              *)
LEMMA PlainTwo ==
  ASSUME NEW t, NEW t1, FileInv(t), NEW f \in Facts, NEW g \in Facts,
         t1 \in ReduceLine(t, <<f, g>>),
         f.type \notin {"assistant", "compaction", "usage", "compactionStarted"},
         g.type \notin {"assistant", "compaction", "usage", "compactionStarted"},
         NoCompaction(t) \/ (f.type \notin {"user", "result"} /\ g.type \notin {"user", "result"})
  PROVE  FileStep(t, t1) /\ Keeps(t, t1, {f, g})
<1>1. Len(<<f, g>>) = 2 /\ Members(<<f, g>>) = {f, g} /\ <<f, g>>[1] = f /\ <<f, g>>[2] = g
  BY MembersTwo
<1>2. Len(<<f, g>>) \in Nat /\ \A n \in 1..Len(<<f, g>>) : <<f, g>>[n] \in Facts
  <2>1. \A n \in 1..2 : n = 1 \/ n = 2
    OBVIOUS
  <2> QED BY <1>1, <2>1
<1>3. /\ Without(Members(<<f, g>>), {"assistant", "compaction", "usage", "compactionStarted"})
      /\ NoCompaction(t) \/ Without(Members(<<f, g>>), {"user", "result"})
  BY <1>1, Zenon DEF Without
<1>4. FileStep(t, t1) /\ Keeps(t, t1, Members(<<f, g>>))
  BY <1>2, <1>3, PlainLine
<1> QED BY <1>1, <1>4, Zenon

(* Facts that start no tool add no intent.                                  *)
LEMMA NoIntent ==
  ASSUME NEW t, NEW t1, NEW F, Keeps(t, t1, F), Without(F, {"toolStarted"})
  PROVE  Intents(t, t1)
BY Zenon DEF Keeps, KeepsTools, NoneStarted, Intents

(* Usage is charged with the answer it belongs to: a line that settles one  *)
(* attempt and charges one.                                                 *)
LEMMA ChargedLine ==
  ASSUME NEW t, NEW t1, FileInv(t), NEW f \in Facts, NEW g \in Facts,
         t1 \in ReduceLine(t, <<f, g>>),
         \/ f.type = "assistant" /\ g.type = "usage" /\ g.amount = 1
         \/ f.type = "usage" /\ f.amount = 1 /\ g.type = "compaction"
  PROVE  FileStep(t, t1) /\ Keeps(t, t1, {f, g}) /\ Intents(t, t1)
<1>1. Len(<<f, g>>) = 2 /\ Members(<<f, g>>) = {f, g} /\ <<f, g>>[1] = f /\ <<f, g>>[2] = g
  BY MembersTwo
<1>2. Len(<<f, g>>) \in Nat /\ \A n \in 1..Len(<<f, g>>) : <<f, g>>[n] \in Facts
  <2>1. \A n \in 1..2 : n = 1 \/ n = 2
    OBVIOUS
  <2> QED BY <1>1, <2>1
<1>3. Good(t1) /\ Keeps(t, t1, {f, g})
  <2>1. Good(t1) /\ Keeps(t, t1, Members(<<f, g>>))
    BY <1>2, LineKept DEF FileInv
  <2> QED BY <1>1, <2>1, Zenon
<1>4. /\ Without({f, g}, {"user", "result", "compactionStarted"})
      /\ Without({f, g}, {"toolStarted"}) /\ Without({f, g}, {"compactionStarted"})
  BY DEF Without
<1>5. Intents(t, t1)
  BY <1>3, <1>4, NoIntent
<1>6. ToolsKept(t, t1) /\ TailSide(t1) /\ (NoCompaction(t) => NoCompaction(t1))
  BY <1>3, <1>4, Zenon DEF Keeps, KeepsTail, KeepsTools, FileInv
<1>7. Charged(t1)
  <2>1. PICK m : Reduces(t, m, f) /\ Reduces(m, t1, g)
    BY LineTwo
  <2>2. /\ t \in State /\ Sound(t) /\ Ledger(t) /\ SettledSide(t) /\ Good(t)
        /\ t.usage = Cardinality(SettledAttempts(t))
    BY DEF FileInv, Charged, Good, Sound
  <2>3. Good(m) /\ EntriesPersist(t, m)
    BY <2>1, <2>2, GoodNext
  <2>4. m \in State /\ Sound(m) /\ Ledger(m) /\ SettledSide(m)
    BY <2>3 DEF Good, Sound
  <2>9. EntriesPersist(m, t1)
    BY <2>1, <2>3, GoodNext
  <2>5. FactDoes(t, m, f) /\ FactDoes(m, t1, g)
    BY <2>1, <2>2, <2>4, FactCases
  <2>6. IsFiniteSet(SettledAttempts(t)) /\ IsFiniteSet(SettledAttempts(m))
    <3>1. SettledAttempts(t) \in SUBSET Id /\ SettledAttempts(m) \in SUBSET Id
      BY DEF SettledAttempts
    <3> QED BY <3>1, BoundsAssumption, FS_Subset
  <2>7. CASE f.type = "assistant" /\ g.type = "usage" /\ g.amount = 1
    <3>1. PICK a : Settles(t, m, a)
      BY <2>2, <2>5, <2>7, FactSettles
    <3>2. SettlesNone(m, t1)
      BY <2>4, <2>5, <2>7, FactSettles
    <3>3. SettledAttempts(m) = SettledAttempts(t) \cup {a} /\ a \notin SettledAttempts(t)
      BY <2>2, <2>3, <3>1, SettlesSide
    <3>4. SettledAttempts(t1) = SettledAttempts(m)
      BY <2>4, <2>9, <3>2, SettlesNoneSide
    <3>5. Cardinality(SettledAttempts(t1)) = Cardinality(SettledAttempts(t)) + 1
      BY <2>6, <3>3, <3>4, FS_AddElement
    <3>6. m.usage = t.usage
      BY <2>1, <2>2, <2>7, FactCharge
    <3>7. t1.usage = m.usage + 1
      BY <2>1, <2>4, <2>7, FactCharge
    <3> QED BY <2>2, <3>5, <3>6, <3>7 DEF Charged
  <2>8. CASE f.type = "usage" /\ f.amount = 1 /\ g.type = "compaction"
    <3>1. PICK a : Settles(m, t1, a)
      BY <2>4, <2>5, <2>8, FactSettles
    <3>2. SettlesNone(t, m)
      BY <2>2, <2>5, <2>8, FactSettles
    <3>3. SettledAttempts(t1) = SettledAttempts(m) \cup {a} /\ a \notin SettledAttempts(m)
      BY <2>4, <2>9, <3>1, SettlesSide
    <3>4. SettledAttempts(m) = SettledAttempts(t)
      BY <2>2, <2>3, <3>2, SettlesNoneSide
    <3>5. Cardinality(SettledAttempts(t1)) = Cardinality(SettledAttempts(t)) + 1
      BY <2>6, <3>3, <3>4, FS_AddElement
    <3>6. m.usage = t.usage + 1
      BY <2>1, <2>2, <2>8, FactCharge
    <3>7. t1.usage = m.usage
      BY <2>1, <2>4, <2>8, FactCharge
    <3> QED BY <2>2, <3>5, <3>6, <3>7 DEF Charged
  <2> QED BY <2>7, <2>8
<1>8. \A c : CompactedFits(t, c) => CompactedFits(t1, c)
  BY <1>6, Zenon DEF CompactedFits
<1> QED BY <1>3, <1>5, <1>6, <1>7, <1>8, Zenon DEF FileStep, FileInv

-----------------------------------------------------------------------------
(* Where the worker rests *)

(* A job that has nothing yet, and one of a recovery.                       *)
LEMMA NoJobType == NoJob \in Job
BY DEF NoJob, Job

(* The job of the recovery loop.                                            *)
LEMMA RecoveringType ==
  [NoJob EXCEPT !.recovering = TRUE] \in Job /\ [NoJob EXCEPT !.recovering = TRUE].recovering
BY NoJobType DEF Job

(* A place that holds nothing of the session keeps the invariant, whatever  *)
(* the file has become.                                                     *)
LEMMA Rests ==
  ASSUME IInv, FileStep(s, s'), pc' \in AtRest, job' \in Job, messages' \in Seq(Id),
         cancel' \in BOOLEAN, coordination' \in {"Waiting", "DurableReady", "NonDurable"},
         user' \in {"idle", "request", "waiting", "cancel"}, now' \in Setups,
         effects' = effects, compacted' = compacted, UserFits(pc', job', user')
  PROVE  IInv'
<1>1. TypeOK'
  <2>1. s' \in State
    BY DEF FileStep, FileInv, Good, Sound
  <2> QED BY <2>1 DEF IInv, TypeOK, AtRest
<1>2. /\ OperationFits(s, pc, job)' /\ ContextFits(pc, job)' /\ AttemptFits(s, pc, job)'
      /\ AnswerFits(pc, job)' /\ ToolFits(s, pc, job, effects, now)'
  BY DEF AtRest, OperationFits, ContextFits, AttemptFits, AnswerFits, ToolFits, AtCompaction,
         AtRun, AtAttempt, AtAnswer, AtTool
<1>3. EffectsFit(s', effects)
  BY Zenon DEF IInv, EffectsFit, FileStep, ToolsKept
<1>4. CompactedFits(s', compacted)
  BY Zenon DEF IInv, FileStep
<1>5. FileInv(s')
  BY Zenon DEF FileStep
<1> QED BY <1>1, <1>2, <1>3, <1>4, <1>5 DEF IInv

(* The process ends.                                                        *)
LEMMA ExitRests ==
  ASSUME IInv, FileStep(s, s'), Exit, now' = now, effects' = effects, compacted' = compacted
  PROVE  IInv'
<1>1. /\ pc' = "down" /\ job' = NoJob /\ messages' = << >> /\ cancel' = FALSE
      /\ coordination' = "Waiting" /\ user' = "idle"
  BY DEF Exit
<1>2. pc' \in AtRest /\ job' \in Job /\ messages' \in Seq(Id) /\ UserFits(pc', job', user')
  BY <1>1, NoJobType DEF AtRest, UserFits
<1>3. now' \in Setups
  BY DEF IInv, TypeOK
<1> QED BY <1>1, <1>2, <1>3, Rests

(* An operation returns.                                                    *)
LEMMA ReturnRests ==
  ASSUME IInv, FileStep(s, s'), Return, messages' \in Seq(Id), now' = now, effects' = effects,
         compacted' = compacted, cancel' = cancel,
         coordination' \in {"Waiting", "DurableReady", "NonDurable"},
         user' \in {"idle", "request", "waiting", "cancel"}, user = "idle" => user' = "idle"
  PROVE  IInv'
<1>1. UserFits(pc, job, user) /\ now \in Setups /\ cancel \in BOOLEAN
  BY DEF IInv, TypeOK
<1>2. CASE job.recovering
  <2>1. pc' = "recover" /\ job' = [NoJob EXCEPT !.recovering = TRUE]
    BY <1>2 DEF Return, Goto, Set
  <2>2. job' \in Job /\ job'.recovering
    BY <2>1, RecoveringType
  <2>3. pc' \in AtRest /\ UserFits(pc', job', user')
    BY <1>1, <1>2, <2>1, <2>2 DEF AtRest, UserFits
  <2> QED BY <1>1, <2>2, <2>3, Rests
<1>3. CASE ~job.recovering
  <2>1. pc' = "idle" /\ job' = NoJob
    BY <1>3 DEF Return, Goto, Set
  <2>2. job' \in Job /\ ~job'.recovering
    BY <2>1, NoJobType DEF NoJob
  <2>3. pc' \in AtRest /\ UserFits(pc', job', user')
    BY <2>1, <2>2 DEF AtRest, UserFits
  <2> QED BY <1>1, <2>2, <2>3, Rests
<1> QED BY <1>2, <1>3

(* A line that is refused ends the process and leaves the file alone.       *)
LEMMA RefusedExits ==
  ASSUME IInv, s' = s, Exit, UNCHANGED <<compacted, now, history, left>>
  PROVE  IInv' /\ Intents(s, s')
<1>1. FileStep(s, s') /\ Intents(s, s')
  BY SameFile DEF IInv
<1>2. now' = now /\ effects' = effects /\ compacted' = compacted
  BY DEF history
<1> QED BY <1>1, <1>2, ExitRests

-----------------------------------------------------------------------------
(* The steps that append nothing *)

(* What is unchanged with the file.                                         *)
Frame == UNCHANGED <<file, now, effects>>

(* A step that leaves the file alone keeps the file's part.                 *)
LEMMA FrameKept ==
  ASSUME IInv, Frame
  PROVE  /\ s' = s /\ now' = now /\ effects' = effects /\ compacted' = compacted
         /\ FileStep(s, s') /\ FileInv(s') /\ Intents(s, s') /\ now' \in Setups /\ s' \in State
         /\ EffectsFit(s', effects') /\ CompactedFits(s', compacted')
<1>1. s' = s /\ now' = now /\ effects' = effects /\ compacted' = compacted
  BY DEF Frame, file, session
<1>2. FileStep(s, s) /\ Intents(s, s)
  BY SameFile DEF IInv
<1> QED BY <1>1, <1>2 DEF IInv, TypeOK

(* Steps from rest to rest.                                                 *)
LEMMA TakePromptRests == ASSUME IInv, TakePrompt PROVE IInv' /\ Intents(s, s')
<1>1. Frame
  BY DEF TakePrompt, Frame
<1>2. /\ pc' \in {"prompt", "compact"} /\ job' = NoJob /\ messages' = messages
      /\ cancel' = FALSE /\ coordination' = "Waiting" /\ user' = user
  BY DEF TakePrompt, Goto, Set
<1>3. pc' \in AtRest /\ job' \in Job /\ UserFits(pc', job', user') /\ messages' \in Seq(Id)
      /\ user' \in {"idle", "request", "waiting", "cancel"}
  <2>1. ~NoJob.recovering
    BY DEF NoJob
  <2> QED BY <1>2, <2>1, NoJobType DEF AtRest, UserFits, IInv, TypeOK
<1> QED BY <1>1, <1>2, <1>3, FrameKept, Rests

(* A prompt is sent at once, or the context is compacted first.             *)
LEMMA AutoCompactRests == ASSUME IInv, AutoCompact PROVE IInv' /\ Intents(s, s')
<1>1. Frame
  BY DEF AutoCompact, Frame, history
<1>2. /\ pc' \in {"start", "compact"} /\ (job' = job \/ job' = [job EXCEPT !.auto = TRUE])
      /\ messages' = messages /\ cancel' = cancel /\ coordination' = coordination /\ user' = user
  BY DEF AutoCompact, Goto, Set, abort
<1>3. job' \in Job /\ job'.recovering = job.recovering
  <2>1. job \in Job
    BY DEF IInv
  <2> QED BY <1>2, <2>1 DEF Job
<1>4. /\ pc' \in AtRest /\ UserFits(pc', job', user') /\ messages' \in Seq(Id)
      /\ cancel' \in BOOLEAN /\ coordination' \in {"Waiting", "DurableReady", "NonDurable"}
      /\ user' \in {"idle", "request", "waiting", "cancel"}
  <2>1. UserFits(pc', job', user')
    <3>1. job'.recovering => user' = "idle"
      BY <1>2, <1>3 DEF UserFits, IInv
    <3> QED BY <1>2, <3>1 DEF UserFits
  <2> QED BY <1>2, <2>1 DEF AtRest, IInv, TypeOK
<1> QED BY <1>1, <1>3, <1>4, FrameKept, Rests

(* A crash.                                                                 *)
LEMMA CrashRests == ASSUME IInv, Crash PROVE IInv' /\ Intents(s, s')
<1>1. Frame /\ Exit
  BY DEF Crash, Frame, history
<1> QED BY <1>1, FrameKept, ExitRests

(* The end of an idle process.                                              *)
LEMMA QuitRests == ASSUME IInv, Quit PROVE IInv' /\ Intents(s, s')
<1>1. Frame /\ Exit
  BY DEF Quit, Frame, history
<1> QED BY <1>1, FrameKept, ExitRests

(* A recovery that the planner blocks.                                      *)
LEMMA BlockedRests == ASSUME IInv, RecoveryBlocked PROVE IInv' /\ Intents(s, s')
<1>1. Frame /\ Exit
  BY DEF RecoveryBlocked, Frame, history
<1> QED BY <1>1, FrameKept, ExitRests

(* A restart, by a process of any declarations.                             *)
LEMMA RestartRests == ASSUME IInv, Restart PROVE IInv' /\ Intents(s, s')
<1>1. /\ s' = s /\ effects' = effects /\ compacted' = compacted /\ now' \in Setups
      /\ pc' = "recover" /\ job' = [NoJob EXCEPT !.recovering = TRUE]
      /\ messages' = messages /\ cancel' = cancel /\ coordination' = coordination
      /\ user' = user /\ pc = "down"
  BY DEF Restart, Goto, Set, file, session, abort, history
<1>2. job' \in Job /\ job'.recovering
  BY <1>1, RecoveringType
<1>3. /\ pc' \in AtRest /\ UserFits(pc', job', user') /\ messages' \in Seq(Id)
      /\ cancel' \in BOOLEAN /\ coordination' \in {"Waiting", "DurableReady", "NonDurable"}
      /\ user' \in {"idle", "request", "waiting", "cancel"}
  BY <1>1, <1>2 DEF AtRest, UserFits, IInv, TypeOK
<1>4. FileStep(s, s') /\ Intents(s, s')
  BY <1>1, SameFile DEF IInv
<1> QED BY <1>1, <1>2, <1>3, <1>4, Rests

(* A recovered session is idle.                                             *)
LEMMA RecoveryDoneRests == ASSUME IInv, RecoveryDone PROVE IInv' /\ Intents(s, s')
<1>1. Frame
  BY DEF RecoveryDone, Frame, history
<1>2. /\ pc' = "idle" /\ job' = NoJob /\ messages' = s.context
      /\ cancel' = cancel /\ coordination' = coordination /\ user' = user
  BY DEF RecoveryDone, Goto, Set, abort
<1>3. /\ pc' \in AtRest /\ job' \in Job /\ UserFits(pc', job', user')
      /\ cancel' \in BOOLEAN /\ coordination' \in {"Waiting", "DurableReady", "NonDurable"}
      /\ user' \in {"idle", "request", "waiting", "cancel"}
  <2>1. ~NoJob.recovering
    BY DEF NoJob
  <2> QED BY <1>2, <2>1, NoJobType DEF AtRest, UserFits, IInv, TypeOK
<1>4. messages' \in Seq(Id)
  BY <1>2, Fields DEF IInv, TypeOK
<1> QED BY <1>1, <1>3, <1>4, FrameKept, Rests

(* The terminal thread alone.                                               *)
LEMMA UserOnly ==
  ASSUME IInv, Frame, pc' = pc, job' = job, messages' = messages, cancel' \in BOOLEAN,
         coordination' = coordination, user' \in {"idle", "request", "waiting", "cancel"},
         UserFits(pc, job, user')
  PROVE  IInv' /\ Intents(s, s')
<1>1. TypeOK'
  BY FrameKept DEF IInv, TypeOK
<1>2. /\ OperationFits(s, pc, job)' /\ ContextFits(pc, job)' /\ AttemptFits(s, pc, job)'
      /\ AnswerFits(pc, job)' /\ ToolFits(s, pc, job, effects, now)'
  BY FrameKept, Zenon DEF IInv
<1>3. UserFits(pc, job, user)' /\ job' \in Job
  BY DEF IInv
<1> QED BY <1>1, <1>2, <1>3, FrameKept DEF IInv

(* Esc is pressed: never while the session is recovered.                    *)
LEMMA EscKeeps == ASSUME IInv, Esc PROVE IInv' /\ Intents(s, s')
<1>1. /\ Frame /\ pc' = pc /\ job' = job /\ messages' = messages /\ cancel' = cancel
      /\ coordination' = coordination /\ user' = "request"
      /\ pc # "down" /\ ~job.recovering
  BY DEF Esc, Frame
<1>2. UserFits(pc, job, user') /\ cancel' \in BOOLEAN
  BY <1>1 DEF IInv, UserFits, TypeOK
<1> QED BY <1>1, <1>2, UserOnly

(* The cancel flag is set.                                                  *)
LEMMA CancelKeeps == ASSUME IInv, Cancel PROVE IInv' /\ Intents(s, s')
<1>1. /\ Frame /\ pc' = pc /\ job' = job /\ messages' = messages /\ cancel' = TRUE
      /\ coordination' = coordination /\ user' = "idle"
  BY DEF Cancel, Frame, history
<1>2. UserFits(pc, job, user')
  BY <1>1 DEF IInv, UserFits
<1> QED BY <1>1, <1>2, UserOnly

-----------------------------------------------------------------------------
(* Where the worker is inside an operation *)

Places ==
  {"idle", "prompt", "compact", "admit", "summarize", "summaryError",
   "settle", "finishCompaction", "start", "step", "model",
   "modelError", "abortClose", "answered", "finishRun", "tools",
   "started", "execute", "executing", "toolAbort", "toolResult",
   "toolAborted", "recover", "down"}

(* What the worker holds, for the places that hold something.               *)
WorkerFits(t, at, j, count, process) ==
  /\ OperationFits(t, at, j) /\ ContextFits(at, j) /\ AttemptFits(t, at, j)
  /\ AnswerFits(at, j) /\ ToolFits(t, at, j, count, process)

(* A step of the worker to a place whose conditions hold.                   *)
LEMMA Moves ==
  ASSUME IInv, FileStep(s, s'), pc' \in Places, job' \in Job, messages' \in Seq(Id),
         cancel' \in BOOLEAN, coordination' \in {"Waiting", "DurableReady", "NonDurable"},
         user' \in {"idle", "request", "waiting", "cancel"}, now' = now,
         effects' = effects, compacted' = compacted, UserFits(pc', job', user'),
         WorkerFits(s', pc', job', effects, now)
  PROVE  IInv'
<1>1. TypeOK'
  <2>1. s' \in State
    BY DEF FileStep, FileInv, Good, Sound
  <2> QED BY <2>1 DEF IInv, TypeOK, Places
<1>2. /\ OperationFits(s, pc, job)' /\ ContextFits(pc, job)' /\ AttemptFits(s, pc, job)'
      /\ AnswerFits(pc, job)' /\ ToolFits(s, pc, job, effects, now)'
  BY Zenon DEF WorkerFits
<1>3. EffectsFit(s', effects)
  BY Zenon DEF IInv, EffectsFit, FileStep, ToolsKept
<1>4. CompactedFits(s', compacted)
  BY Zenon DEF IInv, FileStep
<1>5. FileInv(s')
  BY Zenon DEF FileStep
<1> QED BY <1>1, <1>2, <1>3, <1>4, <1>5 DEF IInv

(* In a run.                                                                *)
LEMMA RunNow ==
  ASSUME IInv, pc \in AtRun
  PROVE  /\ ~Idle(s) /\ s.operation.id = job.op /\ job.op \in Id
         /\ s.operation.kind = "run" /\ NoCompaction(s)
         /\ s \in State /\ FileInv(s) /\ Good(s) /\ now \in Setups
         /\ now.config \in ConfigurationSnapshot
         /\ \A outcome \in Outcome, final \in Id \cup {None} : Finished(outcome, final) \in Facts
<1>1. ~Idle(s) /\ s.operation.id = job.op /\ s.operation.kind = "run"
  BY DEF IInv, OperationFits
<1>2. s \in State /\ FileInv(s) /\ Good(s) /\ now \in Setups
  BY DEF IInv, TypeOK, FileInv
<1>3. job.op \in Id
  BY <1>1, <1>2, CurrentTypes
<1>4. now.config \in ConfigurationSnapshot
  BY <1>2, SetupsAssumption
<1>5. \A outcome \in Outcome, final \in Id \cup {None} : Finished(outcome, final) \in Facts
  BY <1>1, <1>3, FinishFactTypes DEF Finished
<1> QED BY <1>1, <1>2, <1>3, <1>4, <1>5 DEF NoCompaction

(* In a compaction.                                                         *)
LEMMA CompactionNow ==
  ASSUME IInv, pc \in AtCompaction
  PROVE  /\ ~Idle(s) /\ s.operation.id = job.op /\ job.op \in Id
         /\ s.operation.kind = "compaction" /\ ~NoCompaction(s)
         /\ s \in State /\ FileInv(s) /\ Good(s) /\ now \in Setups
         /\ now.config \in ConfigurationSnapshot /\ compacted \in Id
         /\ s.operations[job.op].result \in Id
         /\ \A outcome \in Outcome, final \in Id \cup {None} : Finished(outcome, final) \in Facts
<1>1. ~Idle(s) /\ s.operation.id = job.op /\ s.operation.kind = "compaction"
  BY DEF IInv, OperationFits
<1>2. s \in State /\ FileInv(s) /\ Good(s) /\ now \in Setups /\ Sound(s)
  BY DEF IInv, TypeOK, FileInv, Good
<1>3. job.op \in Id
  BY <1>1, <1>2, CurrentTypes
<1>4. now.config \in ConfigurationSnapshot
  BY <1>2, SetupsAssumption
<1>5. \A outcome \in Outcome, final \in Id \cup {None} : Finished(outcome, final) \in Facts
  BY <1>1, <1>3, FinishFactTypes DEF Finished
<1>6. ~NoCompaction(s)
  BY <1>1 DEF NoCompaction
<1>7. compacted \in Id
  BY <1>6 DEF IInv, CompactedFits
<1>8. s.operations[job.op].result \in Id
  <2>1. s.operations[job.op] # None /\ s.operations[job.op].kind = "compaction"
    BY <1>1, <1>2, <1>3 DEF Sound, OneCurrent, Unfinished, Linked
  <2>2. s.operations[job.op].result # None
    BY <1>2, <1>3, <2>1 DEF Sound, Linked
  <2>3. s.operations[job.op] \in OperationInfo
    BY <1>2, <1>3, <2>1, Fields
  <2> QED BY <2>2, <2>3 DEF OperationInfo
<1> QED BY <1>1, <1>2, <1>3, <1>4, <1>5, <1>6, <1>7, <1>8

(* The facts that begin something.                                          *)
LEMMA RunBegun ==
  ASSUME NEW t, NEW t1, t \in State, t1 \in State, NEW op \in Id, NEW input \in Id,
         Reduces(t, t1, RunStarted(op, input))
  PROVE  Idle(t) /\ ~Idle(t1) /\ t1.operation.id = op /\ t1.operation.kind = "run"
<1> DEFINE f == RunStarted(op, input)
           o == [kind |-> "run", id |-> op, input |-> input, step |-> None, abort |-> FALSE]
<1>1. f.type = "runStarted" /\ f.op = op /\ f.input = input
  BY DEF RunStarted
<1> HIDE DEF f
<1>2. CanRunStarted(t, f) /\ t1 = DoRunStarted(t, f)
  BY <1>1, Reduced DEF ReducesRunStarted, f
<1>3. t1.operation = o
  BY <1>1, <1>2 DEF DoRunStarted, State
<1>4. o \in OperationState
  BY DEF OperationState
<1>5. o.id = op /\ o.kind = "run"
  OBVIOUS
<1> HIDE DEF o
<1> QED BY <1>2, <1>3, <1>4, <1>5, NoneAssumption DEF CanRunStarted, Idle

(* A compaction begins from an idle session, and is the current operation.  *)
LEMMA CompactionBegun ==
  ASSUME NEW t, NEW t1, t \in State, t1 \in State, NEW op \in Id, NEW input \in Id,
         NEW result, NEW source, Reduces(t, t1, CompactionStarted(op, input, result, source))
  PROVE  Idle(t) /\ ~Idle(t1) /\ t1.operation.id = op /\ t1.operation.kind = "compaction"
<1> DEFINE f == CompactionStarted(op, input, result, source)
           o == [kind |-> "compaction", id |-> op, input |-> input, step |-> None,
                 abort |-> FALSE]
<1>1. f.type = "compactionStarted" /\ f.op = op /\ f.input = input
  BY DEF CompactionStarted
<1> HIDE DEF f
<1>2. CanCompactionStarted(t, f) /\ t1 = DoCompactionStarted(t, f)
  BY <1>1, Reduced DEF ReducesCompactionStarted, f
<1>3. t1.operation = o
  BY <1>1, <1>2 DEF DoCompactionStarted, State
<1>4. o \in OperationState
  BY DEF OperationState
<1>5. o.id = op /\ o.kind = "compaction"
  OBVIOUS
<1> HIDE DEF o
<1> QED BY <1>2, <1>3, <1>4, <1>5, NoneAssumption DEF CanCompactionStarted, Idle

(* The attempt that begins is the open one.                                 *)
LEMMA AttemptBegun ==
  ASSUME NEW t, NEW t1, t \in State, ~Idle(t), NEW f \in Facts, Reduces(t, t1, f),
         f.type = "stepAttempt"
  PROVE  t1.operation.step = [attempt |-> f.attempt, status |-> "attempting"]
<1>1. t1 = DoStepAttempt(t, f)
  BY Reduced DEF ReducesStepAttempt
<1>2. t1.operation = [t.operation EXCEPT !.step = [attempt |-> f.attempt, status |-> "attempting"]]
  BY <1>1, Zenon DEF DoStepAttempt, State
<1>3. t.operation \in OperationState
  BY CurrentTypes
<1> QED BY <1>2, <1>3 DEF OperationState

(* The tool that is started was not, and is pending.                        *)
LEMMA ToolBegun ==
  ASSUME NEW t, NEW t1, Good(t), NEW f \in Facts, Reduces(t, t1, f), f.type = "toolStarted"
  PROVE  /\ t.tools[f.id] = None /\ t1.tools[f.id] # None /\ t1.tools[f.id].status = "pending"
         /\ t1.tools[f.id].call = f.call
<1>1. f \in ToolFacts
  BY DEF Facts, UserFacts, AssistantFacts, SyntheticFacts, ResultFacts, SummaryFacts, RunFacts,
         CompactionFacts, AttemptFacts, FailureFacts, ToolFacts, AbortFacts, FinishFacts, UsageFacts
<1> DEFINE tool == [op |-> f.op, step |-> f.step, assistant |-> f.assistant,
         index |-> f.index, call |-> f.call, name |-> f.name,
         args |-> f.args, replay |-> f.replay, key |-> f.key,
         env |-> f.env, result |-> f.result, status |-> "pending"]
<1>2. f.id \in Id /\ tool \in ToolCallState /\ tool.status = "pending" /\ tool.call = f.call
  BY <1>1 DEF ToolFacts, ToolCallState
<1>3. CanToolStarted(t, f) /\ t1 = DoToolStarted(t, f)
  BY Reduced DEF ReducesToolStarted
<1>4. Free(t, f.id)
  BY <1>3 DEF CanToolStarted
<1>5. t.tools[f.id] = None
  BY <1>2, <1>4 DEF Good, Ledger, AttemptSide, Unused
<1>6. t1.tools = [t.tools EXCEPT ![f.id] = tool]
  BY <1>3, Zenon DEF DoToolStarted, Good, Sound, State
<1>7. t1.tools[f.id] = tool
  BY <1>2, <1>6, Fields DEF Good, Sound
<1> HIDE DEF tool
<1> QED BY <1>2, <1>5, <1>7, NoneAssumption

-----------------------------------------------------------------------------
(* Steps inside an operation *)

(* What a line of one fact leaves alone.                                    *)
LEMMA OneKeeps ==
  ASSUME NEW t, NEW t1, NEW f, Keeps(t, t1, {f})
  PROVE  /\ f.type # "operationFinished" => CurrentKept(t, t1)
         /\ f.type \in Steady => StepKept(t, t1)
         /\ f.type # "toolStarted" => Intents(t, t1)
         /\ f.type \notin {"toolStarted", "result"} => t1.tools = t.tools
         /\ ToolsKept(t, t1)
<1>1. /\ f.type # "operationFinished" => Without({f}, {"operationFinished"})
      /\ f.type # "toolStarted" => Without({f}, {"toolStarted"})
      /\ f.type \notin {"toolStarted", "result"} => Without({f}, {"toolStarted", "result"})
  BY DEF Without
<1>2. f.type \in Steady => {f} \subseteq {g \in {f} : g.type \in Steady}
  OBVIOUS
<1>3. f.type # "toolStarted" => Intents(t, t1)
  BY <1>1, NoIntent
<1> QED BY <1>1, <1>2, <1>3, Zenon DEF Keeps, KeepsTools, KeepsOperation

(* The file grows by a line, and the worker goes on.                        *)
LEMMA Appended ==
  ASSUME IInv, FileStep(s, s'), pc' \in Places \ {"recover", "down"}, job' \in Job,
         job'.recovering = job.recovering, messages' \in Seq(Id), UNCHANGED abort,
         UNCHANGED <<compacted, now, history>>, WorkerFits(s', pc', job', effects, now)
  PROVE  IInv'
<1>1. /\ cancel' = cancel /\ coordination' = coordination /\ user' = user
      /\ compacted' = compacted /\ now' = now /\ effects' = effects
  BY DEF abort, history
<1>2. /\ cancel' \in BOOLEAN /\ coordination' \in {"Waiting", "DurableReady", "NonDurable"}
      /\ user' \in {"idle", "request", "waiting", "cancel"}
  BY <1>1 DEF IInv, TypeOK
<1>3. UserFits(pc', job', user')
  BY <1>1 DEF UserFits, IInv
<1>4. pc' \in Places
  OBVIOUS
<1> QED BY <1>1, <1>2, <1>3, <1>4, Moves

(* Only the worker moves.                                                   *)
LEMMA Local ==
  ASSUME IInv, s' = s, pc' \in Places \ {"recover", "down"}, job' \in Job,
         job'.recovering = job.recovering, messages' \in Seq(Id), UNCHANGED abort,
         UNCHANGED <<compacted, now, history>>, WorkerFits(s, pc', job', effects, now)
  PROVE  IInv' /\ Intents(s, s')
<1>1. FileStep(s, s') /\ Intents(s, s')
  BY SameFile DEF IInv
<1> QED BY <1>1, Appended

(* A line that ends an operation, or the process.                           *)
LEMMA Returned ==
  ASSUME IInv, FileStep(s, s'), Return, UNCHANGED <<messages, abort>>,
         UNCHANGED <<compacted, now, history>>
  PROVE  IInv'
<1>1. /\ cancel' = cancel /\ coordination' = coordination /\ user' = user
      /\ compacted' = compacted /\ now' = now /\ effects' = effects /\ messages' = messages
  BY DEF abort, history
<1>2. /\ messages' \in Seq(Id) /\ coordination' \in {"Waiting", "DurableReady", "NonDurable"}
      /\ user' \in {"idle", "request", "waiting", "cancel"}
  BY <1>1 DEF IInv, TypeOK
<1> QED BY <1>1, <1>2, ReturnRests

(* A line, and then the process ends.                                       *)
LEMMA Exited ==
  ASSUME IInv, FileStep(s, s'), Exit, UNCHANGED <<compacted, now, history>>
  PROVE  IInv'
<1>1. compacted' = compacted /\ now' = now /\ effects' = effects
  BY DEF history
<1> QED BY <1>1, ExitRests

-----------------------------------------------------------------------------
(* The model loop *)

(* The provider answers, or fails.                                          *)
LEMMA CallModelKeeps == ASSUME IInv, CallModel PROVE IInv' /\ Intents(s, s')
<1>1. /\ pc = "model" /\ s' = s /\ messages' = messages /\ UNCHANGED abort
      /\ UNCHANGED <<compacted, now, history>>
      /\ \/ \E answer \in Answers : pc' = "answered" /\ job' = [job EXCEPT !.answer = answer]
         \/ pc' = "modelError" /\ job' = job
  BY DEF CallModel, Goto, Set, file, session
<1>2. /\ job \in Job /\ messages' \in Seq(Id) /\ OperationFits(s, "model", job)
      /\ AttemptFits(s, "model", job)
  BY <1>1 DEF IInv, TypeOK
<1>3. CASE \E answer \in Answers : pc' = "answered" /\ job' = [job EXCEPT !.answer = answer]
  <2>1. PICK answer \in Answers : pc' = "answered" /\ job' = [job EXCEPT !.answer = answer]
    BY <1>3
  <2>2. /\ job' \in Job /\ job'.recovering = job.recovering /\ job'.answer = answer
        /\ job'.op = job.op /\ job'.step = job.step /\ job'.attempt = job.attempt
    BY <1>2, <2>1 DEF Job
  <2>3. OperationFits(s, "answered", job') /\ AttemptFits(s, "answered", job')
    BY <1>2, <2>2 DEF OperationFits, AttemptFits, AtRun, AtCompaction, AtAttempt
  <2>4. job'.step \in Id
    BY <1>2, <2>2 DEF AttemptFits, AtAttempt
  <2>5. ContextFits("answered", job') /\ AnswerFits("answered", job')
        /\ ToolFits(s, "answered", job', effects, now)
    BY <2>2, <2>4 DEF ContextFits, AnswerFits, AtAnswer, ToolFits, AtTool
  <2>6. WorkerFits(s, pc', job', effects, now)
    BY <2>1, <2>3, <2>5 DEF WorkerFits
  <2>7. pc' \in Places \ {"recover", "down"}
    BY <2>1 DEF Places
  <2> QED BY <1>1, <1>2, <2>2, <2>6, <2>7, Local
<1>4. CASE pc' = "modelError" /\ job' = job
  <2>1. WorkerFits(s, pc', job', effects, now)
    BY <1>2, <1>4 DEF WorkerFits, OperationFits, AttemptFits, AtRun, AtCompaction, AtAttempt,
         ContextFits, AnswerFits, AtAnswer, ToolFits, AtTool
  <2>2. pc' \in Places \ {"recover", "down"}
    BY <1>4 DEF Places
  <2> QED BY <1>1, <1>2, <1>4, <2>1, <2>2, Local
<1> QED BY <1>1, <1>3, <1>4

(* The attempt that is admitted is the one the worker then waits for.       *)
LEMMA AdmitStepKeeps == ASSUME IInv, AdmitStep PROVE IInv' /\ Intents(s, s')
<1> DEFINE step == IF job.step = None THEN New(2) ELSE job.step
           f == StepAttempt(job.op, step, New(1), "run", job.number, job.context, now.config)
<1>1. /\ pc = "step" /\ Room(2) /\ UNCHANGED <<compacted, now, history, left>>
      /\ \/ /\ s' \in ReduceLine(s, <<f>>) /\ pc' \in {"model", "modelError"}
            /\ job' = [job EXCEPT !.step = step, !.attempt = New(1)]
            /\ messages' = messages /\ UNCHANGED abort
         \/ s' = s /\ Exit
  BY Zenon DEF AdmitStep, Commit, CommitOr, Goto, Set, session
<1>2. pc \in AtRun /\ job \in Job /\ messages \in Seq(Id) /\ s \in State
  BY <1>1 DEF AtRun, IInv, TypeOK
<1>3. /\ ~Idle(s) /\ s.operation.id = job.op /\ job.op \in Id /\ s.operation.kind = "run"
      /\ FileInv(s) /\ now.config \in ConfigurationSnapshot
  BY <1>2, RunNow
<1>4. New(1) \in Id /\ New(2) \in Id
  BY <1>1, <1>2, Allocates
<1>5. step \in Id /\ job.context \in Id /\ job.number \in 1..2
  BY <1>1, <1>2, <1>4 DEF IInv, Job, ContextFits
<1>6. f \in Facts
  BY <1>3, <1>4, <1>5, AttemptFactTypes
<1>7. f.type = "stepAttempt" /\ f.attempt = New(1)
  BY DEF StepAttempt
<1> HIDE DEF f, step
<1>8. CASE /\ s' \in ReduceLine(s, <<f>>) /\ pc' \in {"model", "modelError"}
           /\ job' = [job EXCEPT !.step = step, !.attempt = New(1)]
           /\ messages' = messages /\ UNCHANGED abort
  <2>1. FileStep(s, s') /\ Keeps(s, s', {f}) /\ Reduces(s, s', f)
    BY <1>3, <1>6, <1>7, <1>8, PlainOne
  <2>2. s'.operation.step = [attempt |-> New(1), status |-> "attempting"]
    BY <1>2, <1>3, <1>6, <1>7, <2>1, AttemptBegun
  <2>3. CurrentKept(s, s') /\ Intents(s, s')
    BY <1>7, <2>1, OneKeeps
  <2>4. ~Idle(s') /\ s'.operation.id = job.op /\ s'.operation.kind = "run"
    BY <1>3, <2>3 DEF CurrentKept
  <2>5. /\ job' \in Job /\ job'.step = step /\ job'.attempt = New(1) /\ job'.op = job.op
        /\ job'.recovering = job.recovering
    BY <1>2, <1>4, <1>5, <1>8 DEF Job
  <2>6. OperationFits(s', pc', job')
    BY <1>8, <2>4, <2>5 DEF OperationFits, AtRun, AtCompaction
  <2>7. AttemptFits(s', pc', job')
    BY <1>4, <1>5, <2>2, <2>5 DEF AttemptFits
  <2>8. ContextFits(pc', job') /\ AnswerFits(pc', job') /\ ToolFits(s', pc', job', effects, now)
    BY <1>8 DEF ContextFits, AnswerFits, AtAnswer, ToolFits, AtTool
  <2>9. WorkerFits(s', pc', job', effects, now)
    BY <2>6, <2>7, <2>8 DEF WorkerFits
  <2>10. pc' \in Places \ {"recover", "down"}
    BY <1>8 DEF Places
  <2>11. messages' \in Seq(Id) /\ UNCHANGED abort /\ UNCHANGED <<compacted, now, history>>
    BY <1>1, <1>2, <1>8
  <2> QED BY <2>1, <2>3, <2>5, <2>9, <2>10, <2>11, Appended
<1>9. CASE s' = s /\ Exit
  BY <1>1, <1>9, RefusedExits
<1> QED BY <1>1, <1>8, <1>9

-----------------------------------------------------------------------------
(* Lines that only answer calls and end things *)

Closing ==
  {f \in Facts : f.type \notin {"assistant", "compaction", "usage", "compactionStarted",
                                "toolStarted"}}

(* Such a line keeps the file's part of it and starts no tool.              *)
LEMMA ClosingLine ==
  ASSUME NEW t, NEW t1, FileInv(t), NoCompaction(t), NEW facts \in Seq(Closing),
         t1 \in ReduceLine(t, facts)
  PROVE  FileStep(t, t1) /\ Keeps(t, t1, Members(facts)) /\ Intents(t, t1)
<1>1. Len(facts) \in Nat /\ \A n \in 1..Len(facts) : facts[n] \in Closing
  OBVIOUS
<1>2. \A n \in 1..Len(facts) : facts[n] \in Facts
  BY <1>1 DEF Closing
<1>3. \A f \in Members(facts) : f \in Closing
  BY <1>1 DEF Members
<1>4. /\ Without(Members(facts), {"assistant", "compaction", "usage", "compactionStarted"})
      /\ Without(Members(facts), {"toolStarted"})
  BY <1>3, Zenon DEF Without, Closing
<1>5. FileStep(t, t1) /\ Keeps(t, t1, Members(facts))
  BY <1>1, <1>2, <1>4, PlainLine
<1>6. Intents(t, t1)
  BY <1>4, <1>5, NoIntent
<1> QED BY <1>5, <1>6

(* Of these are the ends of attempts and operations and the abort requests, *)
LEMMA ClosingFacts ==
  ASSUME IInv, pc \in AtRun
  PROVE  /\ \A outcome \in Outcome, final \in Id \cup {None} : Finished(outcome, final) \in Closing
         /\ \A step \in Id, a \in Id : StepFailed(job.op, step, a) \in Closing
         /\ \A phase \in {"model", "tool", "compact"}, call \in CallId \cup {None} :
              AbortRequested(job.op, "run", phase, call) \in Closing
<1>1. job.op \in Id
      /\ \A outcome \in Outcome, final \in Id \cup {None} : Finished(outcome, final) \in Facts
  BY RunNow
<1>2. \A outcome, final : Finished(outcome, final).type = "operationFinished"
  BY DEF Finished, OperationFinished
<1>3. \A step \in Id, a \in Id : StepFailed(job.op, step, a) \in Facts
  BY <1>1, FailureFactTypes
<1>4. \A step, a : StepFailed(job.op, step, a).type = "stepFailed"
  BY DEF StepFailed
<1>5. \A phase \in {"model", "tool", "compact"}, call \in CallId \cup {None} :
        AbortRequested(job.op, "run", phase, call) \in Facts
  BY <1>1, AbortFactTypes
<1>6. \A phase, call : AbortRequested(job.op, "run", phase, call).type = "abortRequested"
  BY DEF AbortRequested
<1> QED BY <1>1, <1>2, <1>3, <1>4, <1>5, <1>6 DEF Closing

(* and the results of calls.                                                *)
LEMMA ClosingResults ==
  ASSUME IInv, pc \in AtRun
  PROVE  /\ \A u \in Id : s.tools[u] # None => Result(u) \in Closing
         /\ \A i \in Id, k \in Nat, call \in Call : job.step \in Id /\ job.assistant \in Id =>
              SyntheticToolResult(i, job.step, job.assistant, k, call) \in Closing
<1>1. s \in State
  BY RunNow
<1>2. \A u \in Id : s.tools[u] # None => Result(u) \in Facts
  BY <1>1, ResultFactTypes
<1>3. \A u : Result(u).type = "result"
  BY DEF Result, ToolResult
<1>4. \A i \in Id, k \in Nat, call \in Call : job.step \in Id /\ job.assistant \in Id =>
        SyntheticToolResult(i, job.step, job.assistant, k, call) \in Facts
  BY SyntheticFactTypes
<1>5. \A i, k, call : SyntheticToolResult(i, job.step, job.assistant, k, call).type = "synthetic"
  BY DEF SyntheticToolResult
<1> QED BY <1>2, <1>3, <1>4, <1>5 DEF Closing

(* A line of these that ends the operation.                                 *)
LEMMA ClosingReturn ==
  ASSUME IInv, pc \in AtRun, NEW facts \in Seq(Closing), s' \in ReduceLine(s, facts), Return,
         UNCHANGED <<messages, abort>>, UNCHANGED <<compacted, now, history>>
  PROVE  IInv' /\ Intents(s, s')
<1>1. FileInv(s) /\ NoCompaction(s)
  BY RunNow
<1>2. FileStep(s, s') /\ Intents(s, s')
  BY <1>1, ClosingLine
<1> QED BY <1>2, Returned

(* A line of these that ends the process.                                   *)
LEMMA ClosingExit ==
  ASSUME IInv, pc \in AtRun, NEW facts \in Seq(Closing), s' \in ReduceLine(s, facts), Exit,
         UNCHANGED <<compacted, now, history>>
  PROVE  IInv' /\ Intents(s, s')
<1>1. FileInv(s) /\ NoCompaction(s)
  BY RunNow
<1>2. FileStep(s, s') /\ Intents(s, s')
  BY <1>1, ClosingLine
<1> QED BY <1>2, Exited

(* The results of the calls from the k-th on.                               *)
LEMMA SkippedFacts ==
  ASSUME IInv, pc \in AtRun, job.answer \in Answers, job.step \in Id, job.assistant \in Id,
         NEW k \in Nat \ {0}, k <= Len(job.answer.calls) + 1,
         Room(Len(job.answer.calls) - k + 1)
  PROVE  Skipped(k) \in Seq(Closing)
<1> DEFINE m == Len(job.answer.calls) - k + 1
<1>1. job.answer.calls \in Seq(Call) /\ Len(job.answer.calls) \in Nat /\ s \in State
  BY AnswersAssumption, RunNow
<1>2. m \in Nat
  BY <1>1
<1>3. ASSUME NEW n \in 1..m
      PROVE  SyntheticToolResult(New(n), job.step, job.assistant, k + n - 1,
                                 job.answer.calls[k + n - 1]) \in Closing
  <2>1. New(n) \in Id
    BY <1>1, <1>2, Allocates
  <2>2. k + n - 1 \in Nat /\ k + n - 1 \in 1..Len(job.answer.calls)
    BY <1>1
  <2>3. job.answer.calls[k + n - 1] \in Call
    BY <1>1, <2>2
  <2> QED BY <2>1, <2>2, <2>3, ClosingResults
<1>4. Skipped(k) = [n \in 1..m |-> SyntheticToolResult(New(n), job.step, job.assistant,
                                     k + n - 1, job.answer.calls[k + n - 1])]
  BY DEF Skipped
<1> HIDE DEF m
<1>5. Skipped(k) \in [1..m -> Closing]
  BY <1>3, <1>4, Zenon
<1> QED BY <1>2, <1>5

-----------------------------------------------------------------------------
(* The ends of a run *)

(* A failed request ends the run and the process, an aborted one the run.   *)
LEMMA ModelErrorKeeps == ASSUME IInv, ModelError PROVE IInv' /\ Intents(s, s')
<1> DEFINE facts == <<StepFailed(job.op, job.step, job.attempt), Finished("failed", None)>>
<1>1. /\ pc = "modelError" /\ UNCHANGED <<compacted, now, history, left>>
      /\ \/ /\ s' = s /\ pc' = "abortClose" /\ job' = [job EXCEPT !.flag = s.operation.abort]
            /\ messages' = messages /\ UNCHANGED abort
         \/ s' \in ReduceLine(s, facts) /\ Exit
         \/ s' = s /\ Exit
  BY Zenon DEF ModelError, Commit, CommitOr, Goto, Set, session
<1>2. /\ pc \in AtRun /\ job \in Job /\ messages \in Seq(Id) /\ OperationFits(s, pc, job)
      /\ AttemptFits(s, pc, job) /\ s \in State
  BY <1>1 DEF AtRun, IInv, TypeOK
<1>3. job.step \in Id /\ job.attempt \in Id
  BY <1>1, <1>2 DEF AttemptFits, AtAttempt
<1>4. ~Idle(s)
  BY <1>2, RunNow
<1>5. facts \in Seq(Closing)
  BY <1>2, <1>3, ClosingFacts DEF Outcome
<1> HIDE DEF facts
<1>6. CASE /\ s' = s /\ pc' = "abortClose" /\ job' = [job EXCEPT !.flag = s.operation.abort]
           /\ messages' = messages /\ UNCHANGED abort
  <2>1. s.operation.abort \in BOOLEAN
    BY <1>2, <1>4, CurrentTypes
  <2>2. /\ job' \in Job /\ job'.recovering = job.recovering /\ job'.op = job.op
        /\ job'.step = job.step /\ job'.attempt = job.attempt
    BY <1>2, <1>6, <2>1 DEF Job
  <2>3. WorkerFits(s, pc', job', effects, now)
    BY <1>1, <1>2, <1>6, <2>2 DEF WorkerFits, OperationFits, AttemptFits, AtRun, AtCompaction,
         AtAttempt, ContextFits, AnswerFits, AtAnswer, ToolFits, AtTool
  <2>4. pc' \in Places \ {"recover", "down"} /\ messages' \in Seq(Id)
    BY <1>2, <1>6 DEF Places
  <2> QED BY <1>1, <1>6, <2>2, <2>3, <2>4, Local
<1>7. CASE s' \in ReduceLine(s, facts) /\ Exit
  BY <1>1, <1>2, <1>5, <1>7, ClosingExit
<1>8. CASE s' = s /\ Exit
  BY <1>1, <1>8, RefusedExits
<1> QED BY <1>1, <1>6, <1>7, <1>8

(* An aborted attempt ends its run.                                         *)
LEMMA AbortCloseKeeps == ASSUME IInv, AbortClose PROVE IInv' /\ Intents(s, s')
<1> DEFINE request == <<AbortRequested(job.op, "run", "model", None)>>
           ends == <<StepFailed(job.op, job.step, job.attempt), Finished("aborted", None)>>
           facts == (IF job.flag THEN << >> ELSE request) \o ends
<1>1. /\ pc = "abortClose" /\ UNCHANGED <<compacted, now, history, left>>
      /\ \/ s' \in ReduceLine(s, facts) /\ Return /\ UNCHANGED <<messages, abort>>
         \/ s' = s /\ Exit
  BY Zenon DEF AbortClose, Commit, CommitOr, session
<1>2. pc \in AtRun /\ AttemptFits(s, pc, job)
  BY <1>1 DEF AtRun, IInv
<1>3. job.step \in Id /\ job.attempt \in Id
  BY <1>1, <1>2 DEF AttemptFits, AtAttempt
<1>4. ends \in Seq(Closing)
  BY <1>2, <1>3, ClosingFacts DEF Outcome
<1>5. request \in Seq(Closing) /\ << >> \in Seq(Closing)
  BY <1>2, ClosingFacts
<1> HIDE DEF request, ends
<1>6. facts \in Seq(Closing)
  BY <1>4, <1>5
<1> HIDE DEF facts
<1>7. CASE s' \in ReduceLine(s, facts) /\ Return /\ UNCHANGED <<messages, abort>>
  BY <1>1, <1>2, <1>6, <1>7, ClosingReturn
<1>8. CASE s' = s /\ Exit
  BY <1>1, <1>8, RefusedExits
<1> QED BY <1>1, <1>7, <1>8

(* An answer without calls ends the run.                                    *)
LEMMA FinishRunKeeps == ASSUME IInv, FinishRun PROVE IInv' /\ Intents(s, s')
<1> DEFINE good == <<Finished("completed", job.assistant)>>
           bad == <<Finished("failed", None)>>
<1>1. /\ pc = "finishRun" /\ UNCHANGED <<compacted, now, history, left>>
      /\ \/ s' \in ReduceLine(s, good) /\ Return /\ UNCHANGED <<messages, abort>>
         \/ s' \in ReduceLine(s, bad) /\ Exit
         \/ s' = s /\ Exit
  BY Zenon DEF FinishRun, Commit, CommitOr, session
<1>2. pc \in AtRun /\ job \in Job
  BY <1>1 DEF AtRun, IInv
<1>3. good \in Seq(Closing) /\ bad \in Seq(Closing)
  BY <1>2, ClosingFacts DEF Outcome, Job
<1> HIDE DEF good, bad
<1>4. CASE s' \in ReduceLine(s, good) /\ Return /\ UNCHANGED <<messages, abort>>
  BY <1>1, <1>2, <1>3, <1>4, ClosingReturn
<1>5. CASE s' \in ReduceLine(s, bad) /\ Exit
  BY <1>1, <1>2, <1>3, <1>5, ClosingExit
<1>6. CASE s' = s /\ Exit
  BY <1>1, <1>6, RefusedExits
<1> QED BY <1>1, <1>4, <1>5, <1>6

-----------------------------------------------------------------------------
(* The tools of an answer *)

(* What the worker has of an answer, and of the tool it executes.           *)
LEMMA AnswerNow ==
  ASSUME IInv, pc \in AtRun, AtAnswer(pc, job), pc \notin {"answered", "finishRun"}
  PROVE  /\ job \in Job /\ messages \in Seq(Id) /\ effects \in [Id -> Nat]
         /\ job.answer \in Answers /\ job.answer.calls \in Seq(Call)
         /\ Len(job.answer.calls) \in Nat \ {0}
         /\ job.step \in Id /\ job.assistant \in Id
         /\ job.index \in 1..(Len(job.answer.calls) + 1)
         /\ job.index > 1 => job.last \in Id
         /\ pc # "tools" => job.index <= Len(job.answer.calls)
<1>1. job \in Job /\ messages \in Seq(Id) /\ effects \in [Id -> Nat] /\ AnswerFits(pc, job)
  BY DEF IInv, TypeOK
<1>2. /\ job.answer \in Answers /\ job.step \in Id /\ job.assistant \in Id
      /\ job.answer.calls # << >>
      /\ job.index \in 1..(Len(job.answer.calls) + 1)
      /\ job.index > 1 => job.last \in Id
      /\ pc # "tools" => job.index <= Len(job.answer.calls)
  BY <1>1 DEF AnswerFits
<1>3. job.answer.calls \in Seq(Call)
  BY <1>2, AnswersAssumption
<1> QED BY <1>1, <1>2, <1>3

(* The answer is appended with its usage, and its calls are next.           *)
LEMMA SettleStepKeeps == ASSUME IInv, SettleStep PROVE IInv' /\ Intents(s, s')
<1> DEFINE f == AssistantMessage(New(1), job.step, job.attempt, job.answer)
           g == UsageFact(job.op, job.attempt, 1)
<1>1. /\ pc = "answered" /\ Room(1) /\ UNCHANGED <<compacted, now, history, left>>
      /\ \/ /\ s' \in ReduceLine(s, <<f, g>>)
            /\ pc' = IF job.answer.calls = << >> THEN "finishRun" ELSE "tools"
            /\ job' = [job EXCEPT !.assistant = New(1), !.index = 1]
            /\ messages' = Append(messages, New(1)) /\ UNCHANGED abort
         \/ s' = s /\ Exit
  BY Zenon DEF SettleStep, Commit, CommitOr, Goto, Set, session
<1>2. /\ pc \in AtRun /\ job \in Job /\ messages \in Seq(Id) /\ s \in State
      /\ AttemptFits(s, pc, job) /\ AnswerFits(pc, job)
  BY <1>1 DEF AtRun, IInv, TypeOK
<1>3. /\ ~Idle(s) /\ s.operation.id = job.op /\ job.op \in Id /\ s.operation.kind = "run"
      /\ FileInv(s)
  BY <1>2, RunNow
<1>4. New(1) \in Id
  BY <1>1, <1>2, Allocates
<1>5. job.step \in Id /\ job.attempt \in Id /\ job.answer \in Answers
  BY <1>1, <1>2 DEF AttemptFits, AtAttempt, AnswerFits, AtAnswer
<1>6. f \in Facts /\ g \in Facts
  BY <1>3, <1>4, <1>5, AnswerFactTypes, FailureFactTypes
<1>7. f.type = "assistant" /\ g.type = "usage" /\ g.amount = 1
  BY DEF AssistantMessage, UsageFact
<1> HIDE DEF f, g
<1>8. CASE /\ s' \in ReduceLine(s, <<f, g>>)
           /\ pc' = IF job.answer.calls = << >> THEN "finishRun" ELSE "tools"
           /\ job' = [job EXCEPT !.assistant = New(1), !.index = 1]
           /\ messages' = Append(messages, New(1)) /\ UNCHANGED abort
  <2>1. FileStep(s, s') /\ Keeps(s, s', {f, g}) /\ Intents(s, s')
    BY <1>3, <1>6, <1>7, <1>8, ChargedLine
  <2>2. CurrentKept(s, s')
    <3>1. Without({f, g}, {"operationFinished"})
      BY <1>7 DEF Without
    <3> QED BY <2>1, <3>1, Zenon DEF Keeps, KeepsOperation
  <2>3. ~Idle(s') /\ s'.operation.id = job.op /\ s'.operation.kind = "run"
    BY <1>3, <2>2 DEF CurrentKept
  <2>4. /\ job' \in Job /\ job'.assistant = New(1) /\ job'.index = 1 /\ job'.op = job.op
        /\ job'.answer = job.answer /\ job'.step = job.step
        /\ job'.recovering = job.recovering
    BY <1>2, <1>4, <1>8 DEF Job
  <2>5. OperationFits(s', pc', job')
    BY <1>8, <2>3, <2>4 DEF OperationFits, AtRun, AtCompaction
  <2>6. AnswerFits(pc', job')
    <3>1. job.answer.calls \in Seq(Call)
      BY <1>5, AnswersAssumption
    <3> QED BY <1>4, <1>5, <1>8, <2>4, <3>1 DEF AnswerFits, AtAnswer
  <2>7. /\ ContextFits(pc', job') /\ AttemptFits(s', pc', job')
        /\ ToolFits(s', pc', job', effects, now)
    BY <1>8 DEF ContextFits, AttemptFits, AtAttempt, ToolFits, AtTool
  <2>8. WorkerFits(s', pc', job', effects, now)
    BY <2>5, <2>6, <2>7 DEF WorkerFits
  <2>9. pc' \in Places \ {"recover", "down"} /\ messages' \in Seq(Id)
    BY <1>2, <1>4, <1>8 DEF Places
  <2> QED BY <1>1, <1>8, <2>1, <2>4, <2>8, <2>9, Appended
<1>9. CASE s' = s /\ Exit
  BY <1>1, <1>9, RefusedExits
<1> QED BY <1>1, <1>8, <1>9

(* After the last call the next step has the last result as its context.    *)
LEMMA NextStepKeeps == ASSUME IInv, NextStep PROVE IInv' /\ Intents(s, s')
<1>1. /\ pc = "tools" /\ job.index > Len(job.answer.calls) /\ s' = s /\ pc' = "step"
      /\ job' = [job EXCEPT !.context = job.last, !.step = None, !.number = 1,
                            !.attempt = None, !.answer = None, !.assistant = None,
                            !.last = None]
      /\ messages' = messages /\ UNCHANGED abort /\ UNCHANGED <<compacted, now, history>>
  BY DEF NextStep, Goto, Set, file, session
<1>2. pc \in AtRun /\ AtAnswer(pc, job) /\ OperationFits(s, pc, job)
  BY <1>1 DEF AtRun, AtAnswer, IInv
<1>3. /\ job \in Job /\ messages \in Seq(Id) /\ Len(job.answer.calls) \in Nat \ {0}
      /\ job.index \in 1..(Len(job.answer.calls) + 1) /\ (job.index > 1 => job.last \in Id)
  BY <1>1, <1>2, AnswerNow
<1>4. job.last \in Id
  BY <1>1, <1>3
<1>5. /\ job' \in Job /\ job'.context = job.last /\ job'.op = job.op
      /\ job'.recovering = job.recovering
  <2>1. job' \in Job
    BY <1>1, <1>3, <1>4, 1 \in 1..2 DEF Job
  <2> QED BY <1>1, <1>3, <2>1 DEF Job
<1>6. WorkerFits(s, pc', job', effects, now)
  BY <1>1, <1>2, <1>4, <1>5 DEF WorkerFits, OperationFits, AttemptFits, AtRun, AtCompaction,
       AtAttempt, ContextFits, AnswerFits, AtAnswer, ToolFits, AtTool
<1>7. pc' \in Places \ {"recover", "down"}
  BY <1>1 DEF Places
<1> QED BY <1>1, <1>3, <1>5, <1>6, <1>7, Local

(* A call that is not executed gets its result at once.                     *)
LEMMA PreExecutionKeeps == ASSUME IInv, PreExecutionResult PROVE IInv' /\ Intents(s, s')
<1> DEFINE f == SyntheticToolResult(New(1), job.step, job.assistant, job.index, ToolCall)
<1>1. /\ pc = "tools" /\ job.index <= Len(job.answer.calls) /\ Room(1)
      /\ UNCHANGED <<compacted, now, history, left>>
      /\ \/ /\ s' \in ReduceLine(s, <<f>>) /\ pc' = pc /\ job' = Answered(New(1))
            /\ messages' = Append(messages, New(1)) /\ UNCHANGED abort
         \/ s' = s /\ Exit
  BY Zenon DEF PreExecutionResult, Commit, CommitOr, Goto, Set, session
<1>2. pc \in AtRun /\ AtAnswer(pc, job)
  BY <1>1 DEF AtRun, AtAnswer
<1>3. /\ ~Idle(s) /\ s.operation.id = job.op /\ s.operation.kind = "run" /\ FileInv(s)
      /\ NoCompaction(s) /\ s \in State
  BY <1>2, RunNow
<1>4. /\ job \in Job /\ messages \in Seq(Id) /\ job.answer \in Answers
      /\ job.answer.calls \in Seq(Call) /\ Len(job.answer.calls) \in Nat \ {0}
      /\ job.step \in Id /\ job.assistant \in Id
      /\ job.index \in 1..(Len(job.answer.calls) + 1)
  BY <1>1, <1>2, AnswerNow
<1>5. New(1) \in Id
  BY <1>1, <1>3, Allocates
<1>6. ToolCall \in Call /\ job.index \in Nat
  BY <1>1, <1>4 DEF ToolCall
<1>7. f \in Closing
  BY <1>2, <1>4, <1>5, <1>6, ClosingResults
<1>8. f.type = "synthetic"
  BY DEF SyntheticToolResult
<1> HIDE DEF f
<1>9. CASE /\ s' \in ReduceLine(s, <<f>>) /\ pc' = pc /\ job' = Answered(New(1))
           /\ messages' = Append(messages, New(1)) /\ UNCHANGED abort
  <2>1. FileStep(s, s') /\ Keeps(s, s', {f})
    BY <1>3, <1>7, <1>8, <1>9, PlainOne DEF Closing
  <2>2. CurrentKept(s, s') /\ Intents(s, s')
    BY <1>8, <2>1, OneKeeps
  <2>3. ~Idle(s') /\ s'.operation.id = job.op /\ s'.operation.kind = "run"
    BY <1>3, <2>2 DEF CurrentKept
  <2>4. /\ job' \in Job /\ job'.index = job.index + 1 /\ job'.last = New(1) /\ job'.op = job.op
        /\ job'.answer = job.answer /\ job'.step = job.step /\ job'.assistant = job.assistant
        /\ job'.recovering = job.recovering
    <3>1. job' = [job EXCEPT !.index = @ + 1, !.last = New(1), !.tool = None]
      BY <1>9 DEF Answered
    <3>2. job.index + 1 \in Nat
      BY <1>6
    <3>3. job' \in Job
      BY <1>4, <1>5, <3>1, <3>2 DEF Job
    <3> QED BY <1>4, <3>1, <3>3 DEF Job
  <2>5. AnswerFits(pc', job')
    BY <1>1, <1>4, <1>5, <1>9, <2>4 DEF AnswerFits, AtAnswer
  <2>6. /\ OperationFits(s', pc', job') /\ ContextFits(pc', job') /\ AttemptFits(s', pc', job')
        /\ ToolFits(s', pc', job', effects, now)
    BY <1>1, <1>9, <2>3, <2>4 DEF OperationFits, AtRun, AtCompaction, ContextFits, AttemptFits,
         AtAttempt, ToolFits, AtTool
  <2>7. WorkerFits(s', pc', job', effects, now)
    BY <2>5, <2>6 DEF WorkerFits
  <2>8. pc' \in Places \ {"recover", "down"} /\ messages' \in Seq(Id)
    BY <1>1, <1>4, <1>5, <1>9 DEF Places
  <2> QED BY <1>1, <1>9, <2>1, <2>2, <2>4, <2>7, <2>8, Appended
<1>10. CASE s' = s /\ Exit
  BY <1>1, <1>10, RefusedExits
<1> QED BY <1>1, <1>9, <1>10

(* The tool that is started was never executed.                             *)
LEMMA StartToolKeeps == ASSUME IInv, StartTool PROVE IInv' /\ Intents(s, s')
<1> DEFINE f == ToolStarted(New(1), job.op, job.step, job.assistant, job.index, ToolCall,
                            now.replay[ToolCall.name], now.key[ToolCall.name], now.env, New(2))
           facts == Skipped(job.index) \o <<Finished("aborted", None)>>
<1>1. /\ pc = "tools" /\ job.index <= Len(job.answer.calls) /\ Room(2)
      /\ Room(Len(job.answer.calls) - job.index + 1)
      /\ UNCHANGED <<compacted, now, history, left>>
      /\ \/ /\ s' \in ReduceLine(s, <<f>>) /\ ~s.operation.abort
            /\ pc' = "started" /\ job' = [job EXCEPT !.tool = New(1)]
            /\ messages' = messages /\ UNCHANGED abort
         \/ s' \in ReduceLine(s, facts) /\ Return /\ UNCHANGED <<messages, abort>>
         \/ s' = s /\ Exit
  BY Zenon DEF StartTool, Commit, CommitOr, Goto, Set, session
<1>2. pc \in AtRun /\ AtAnswer(pc, job)
  BY <1>1 DEF AtRun, AtAnswer
<1>3. /\ ~Idle(s) /\ s.operation.id = job.op /\ s.operation.kind = "run" /\ FileInv(s)
      /\ NoCompaction(s) /\ s \in State /\ job.op \in Id /\ now \in Setups /\ Good(s)
  BY <1>2, RunNow
<1>4. /\ job \in Job /\ messages \in Seq(Id) /\ job.answer \in Answers
      /\ job.answer.calls \in Seq(Call) /\ Len(job.answer.calls) \in Nat \ {0}
      /\ job.step \in Id /\ job.assistant \in Id /\ effects \in [Id -> Nat]
      /\ job.index \in 1..(Len(job.answer.calls) + 1) /\ (job.index > 1 => job.last \in Id)
  BY <1>1, <1>2, AnswerNow
<1>5. New(1) \in Id /\ New(2) \in Id
  BY <1>1, <1>3, Allocates
<1>6. ToolCall \in Call /\ job.index \in Nat \ {0}
  <2>1. job.index \in Nat \ {0} /\ job.index \in 1..Len(job.answer.calls)
    BY <1>1, <1>4
  <2> QED BY <1>4, <2>1 DEF ToolCall
<1>7. f \in Facts
  BY <1>3, <1>4, <1>5, <1>6, ToolFactTypes
<1>8. f.type = "toolStarted" /\ f.id = New(1)
  BY DEF ToolStarted
<1>9. facts \in Seq(Closing)
  <2>1. Skipped(job.index) \in Seq(Closing)
    BY <1>1, <1>2, <1>4, <1>6, SkippedFacts
  <2>2. Finished("aborted", None) \in Closing
    BY <1>2, ClosingFacts DEF Outcome
  <2> QED BY <2>1, <2>2
<1> HIDE DEF f, facts
<1>10. CASE /\ s' \in ReduceLine(s, <<f>>) /\ ~s.operation.abort
            /\ pc' = "started" /\ job' = [job EXCEPT !.tool = New(1)]
            /\ messages' = messages /\ UNCHANGED abort
  <2>1. FileStep(s, s') /\ Keeps(s, s', {f}) /\ Reduces(s, s', f)
    BY <1>3, <1>7, <1>8, <1>10, PlainOne
  <2>2. CurrentKept(s, s')
    BY <1>8, <2>1, OneKeeps
  <2>3. Intents(s, s')
    BY <1>10 DEF Intents
  <2>4. ~Idle(s') /\ s'.operation.id = job.op /\ s'.operation.kind = "run"
    BY <1>3, <2>2 DEF CurrentKept
  <2>5. s.tools[New(1)] = None /\ s'.tools[New(1)] # None /\ s'.tools[New(1)].status = "pending"
    BY <1>3, <1>7, <1>8, <2>1, ToolBegun
  <2>6. effects[New(1)] = 0
    <3>1. effects[New(1)] \in Nat /\ ~(effects[New(1)] > 0)
      BY <1>4, <1>5, <2>5 DEF IInv, EffectsFit
    <3> QED BY <3>1
  <2>7. /\ job' \in Job /\ job'.tool = New(1) /\ job'.index = job.index /\ job'.last = job.last
        /\ job'.answer = job.answer /\ job'.step = job.step /\ job'.assistant = job.assistant
        /\ job'.recovering = job.recovering /\ job'.op = job.op
    BY <1>4, <1>5, <1>10 DEF Job
  <2>8. AnswerFits(pc', job')
    BY <1>1, <1>4, <1>10, <2>7 DEF AnswerFits, AtAnswer
  <2>9. ToolFits(s', pc', job', effects, now)
    BY <1>5, <2>5, <2>6, <2>7 DEF ToolFits
  <2>10. OperationFits(s', pc', job') /\ ContextFits(pc', job') /\ AttemptFits(s', pc', job')
    BY <1>10, <2>4, <2>7 DEF OperationFits, AtRun, AtCompaction, ContextFits, AttemptFits,
         AtAttempt
  <2>11. WorkerFits(s', pc', job', effects, now)
    BY <2>8, <2>9, <2>10 DEF WorkerFits
  <2>12. pc' \in Places \ {"recover", "down"} /\ messages' \in Seq(Id)
    BY <1>4, <1>10 DEF Places
  <2> QED BY <1>1, <1>10, <2>1, <2>3, <2>7, <2>11, <2>12, Appended
<1>11. CASE s' \in ReduceLine(s, facts) /\ Return /\ UNCHANGED <<messages, abort>>
  BY <1>1, <1>2, <1>9, <1>11, ClosingReturn
<1>12. CASE s' = s /\ Exit
  BY <1>1, <1>12, RefusedExits
<1> QED BY <1>1, <1>10, <1>11, <1>12

-----------------------------------------------------------------------------
(* The tool that is executed *)

(* It was started.                                                          *)
LEMMA ToolNow ==
  ASSUME IInv, pc \in AtTool
  PROVE  /\ pc \in AtRun /\ job \in Job /\ messages \in Seq(Id) /\ effects \in [Id -> Nat]
         /\ job.tool \in Id /\ s.tools[job.tool] # None
         /\ s.tools[job.tool].result \in Id /\ s.tools[job.tool].call \in CallId
         /\ Result(job.tool) \in Closing /\ Result(job.tool).type = "result"
         /\ AnswerFits(pc, job) /\ OperationFits(s, pc, job)
<1>1. /\ pc \in AtRun /\ job \in Job /\ messages \in Seq(Id) /\ effects \in [Id -> Nat]
      /\ s \in State /\ AnswerFits(pc, job) /\ OperationFits(s, pc, job)
  BY DEF AtTool, AtRun, IInv, TypeOK
<1>2. job.tool \in Id /\ s.tools[job.tool] # None
  BY DEF IInv, ToolFits
<1>3. s.tools[job.tool] \in ToolCallState
  BY <1>1, <1>2, Fields
<1>4. s.tools[job.tool].result \in Id /\ s.tools[job.tool].call \in CallId
  BY <1>3 DEF ToolCallState
<1>5. Result(job.tool) \in Closing
  BY <1>1, <1>2, ClosingResults
<1>6. Result(job.tool).type = "result"
  BY DEF Result, ToolResult
<1> QED BY <1>1, <1>2, <1>4, <1>5, <1>6

(* The abort is looked at again before the effect.                          *)
LEMMA CheckStartedKeeps == ASSUME IInv, CheckStarted PROVE IInv' /\ Intents(s, s')
<1> DEFINE facts == <<Result(job.tool)>> \o Skipped(job.index + 1)
                      \o <<Finished("aborted", None)>>
<1>1. /\ pc = "started" /\ Room(Len(job.answer.calls) - job.index)
      /\ UNCHANGED <<compacted, now, history, left>>
      /\ \/ s' \in ReduceLine(s, facts) /\ Return /\ UNCHANGED <<messages, abort>>
         \/ s' = s /\ Exit
         \/ s' = s /\ pc' = "execute" /\ job' = job /\ messages' = messages /\ UNCHANGED abort
  BY Zenon DEF CheckStarted, Commit, CommitOr, Goto, session
<1>2. pc \in AtTool /\ AtAnswer(pc, job)
  BY <1>1 DEF AtTool, AtAnswer
<1>3. /\ pc \in AtRun /\ job \in Job /\ messages \in Seq(Id) /\ job.tool \in Id
      /\ Result(job.tool) \in Closing /\ AnswerFits(pc, job) /\ OperationFits(s, pc, job)
  BY <1>2, ToolNow
<1>4. /\ job.answer \in Answers /\ Len(job.answer.calls) \in Nat \ {0}
      /\ job.step \in Id /\ job.assistant \in Id
      /\ job.index \in 1..(Len(job.answer.calls) + 1) /\ job.index <= Len(job.answer.calls)
  BY <1>1, <1>2, <1>3, AnswerNow
<1>5. facts \in Seq(Closing)
  <2>1. /\ job.index + 1 \in Nat \ {0} /\ job.index + 1 <= Len(job.answer.calls) + 1
        /\ Len(job.answer.calls) - (job.index + 1) + 1 = Len(job.answer.calls) - job.index
    BY <1>4
  <2>2. Skipped(job.index + 1) \in Seq(Closing)
    BY <1>1, <1>3, <1>4, <2>1, SkippedFacts
  <2>3. Finished("aborted", None) \in Closing
    BY <1>3, ClosingFacts DEF Outcome
  <2> QED BY <1>3, <2>2, <2>3
<1> HIDE DEF facts
<1>6. CASE s' \in ReduceLine(s, facts) /\ Return /\ UNCHANGED <<messages, abort>>
  BY <1>1, <1>3, <1>5, <1>6, ClosingReturn
<1>7. CASE s' = s /\ Exit
  BY <1>1, <1>7, RefusedExits
<1>8. CASE s' = s /\ pc' = "execute" /\ job' = job /\ messages' = messages /\ UNCHANGED abort
  <2>1. ToolFits(s, pc', job', effects, now)
    BY <1>1, <1>2, <1>8 DEF IInv, ToolFits, AtTool
  <2>2. AnswerFits(pc', job')
    BY <1>1, <1>3, <1>8 DEF AnswerFits, AtAnswer
  <2>3. WorkerFits(s, pc', job', effects, now)
    BY <1>1, <1>3, <1>8, <2>1, <2>2 DEF WorkerFits, OperationFits, AttemptFits, AtRun, AtCompaction,
         AtAttempt, ContextFits
  <2>4. pc' \in Places \ {"recover", "down"}
    BY <1>8 DEF Places
  <2> QED BY <1>1, <1>3, <1>8, <2>3, <2>4, Local
<1> QED BY <1>1, <1>6, <1>7, <1>8

(* The effect: at most one for a tool that must not be replayed.            *)
LEMMA ExecuteKeeps == ASSUME IInv, Execute PROVE IInv' /\ Intents(s, s')
<1>1. /\ pc = "execute" /\ pc' = "executing" /\ s' = s /\ compacted' = compacted
      /\ effects' = (IF cancel THEN effects ELSE [effects EXCEPT ![job.tool] = @ + 1])
      /\ job' = job /\ messages' = messages /\ now' = now
      /\ cancel' = cancel /\ coordination' = coordination /\ user' = user
  BY DEF Execute, Goto, file, session, abort
<1>2. pc \in AtTool
  BY <1>1 DEF AtTool
<1>3. /\ effects \in [Id -> Nat] /\ job.tool \in Id /\ s.tools[job.tool] # None
      /\ AnswerFits(pc, job) /\ OperationFits(s, pc, job)
  BY <1>2, ToolNow
<1>4. effects[job.tool] = 0 \/ Matches(s, now, job.tool)
  BY <1>1, <1>2 DEF IInv, ToolFits
<1>5. effects' \in [Id -> Nat]
  BY <1>1, <1>3
<1>6. EffectsFit(s', effects')
  <2> SUFFICES ASSUME NEW u \in Id, effects'[u] > 0
               PROVE  s.tools[u] # None /\ (s.tools[u].replay = "never" => effects'[u] <= 1)
    BY <1>1 DEF EffectsFit
  <2>1. effects[u] > 0 => s.tools[u] # None /\ (s.tools[u].replay = "never" => effects[u] <= 1)
    BY DEF IInv, EffectsFit
  <2>2. CASE effects'[u] = effects[u]
    BY <2>1, <2>2
  <2>3. CASE effects'[u] # effects[u]
    <3>1. u = job.tool /\ effects'[u] = effects[u] + 1
      BY <1>1, <1>3, <2>3
    <3>2. effects[u] = 0 \/ s.tools[u].replay = "safe"
      BY <1>4, <3>1 DEF Matches
    <3> QED BY <1>3, <3>1, <3>2
  <2> QED BY <2>2, <2>3
<1>7. TypeOK'
  BY <1>1, <1>5 DEF IInv, TypeOK
<1>8. /\ OperationFits(s, pc, job)' /\ ContextFits(pc, job)' /\ AttemptFits(s, pc, job)'
      /\ AnswerFits(pc, job)'
  BY <1>1, <1>3 DEF OperationFits, AtRun, AtCompaction, ContextFits, AttemptFits, AtAttempt,
       AnswerFits, AtAnswer
<1>9. ToolFits(s, pc, job, effects, now)'
  BY <1>1, <1>3 DEF ToolFits
<1>10. UserFits(pc, job, user)'
  BY <1>1 DEF IInv, UserFits
<1>11. job' \in Job /\ FileInv(s') /\ CompactedFits(s', compacted')
  BY <1>1 DEF IInv
<1>12. Intents(s, s')
  BY <1>1, SameFile DEF IInv
<1> QED BY <1>6, <1>7, <1>8, <1>9, <1>10, <1>11, <1>12 DEF IInv

(* The tool returns.                                                        *)
LEMMA ToolReturnsKeeps == ASSUME IInv, ToolReturns PROVE IInv' /\ Intents(s, s')
<1>1. /\ pc = "executing" /\ s' = s /\ pc' \in {"toolAbort", "toolResult"}
      /\ job' = [job EXCEPT !.flag = cancel]
      /\ messages' = messages /\ UNCHANGED abort /\ UNCHANGED <<compacted, now, history>>
  BY DEF ToolReturns, Goto, Set, file, session
<1>2. pc \in AtTool
  BY <1>1 DEF AtTool
<1>3. /\ job \in Job /\ messages \in Seq(Id) /\ job.tool \in Id /\ s.tools[job.tool] # None
      /\ AnswerFits(pc, job) /\ OperationFits(s, pc, job) /\ cancel \in BOOLEAN
  BY <1>2, ToolNow DEF IInv, TypeOK
<1>4. /\ job' \in Job /\ job'.recovering = job.recovering /\ job'.op = job.op
      /\ job'.tool = job.tool /\ job'.direct = job.direct /\ job'.answer = job.answer
      /\ job'.step = job.step /\ job'.assistant = job.assistant /\ job'.index = job.index
      /\ job'.last = job.last
  BY <1>1, <1>3 DEF Job
<1>5. AnswerFits(pc', job') /\ ToolFits(s, pc', job', effects, now)
  BY <1>1, <1>3, <1>4 DEF AnswerFits, AtAnswer, ToolFits
<1>6. WorkerFits(s, pc', job', effects, now)
  BY <1>1, <1>3, <1>4, <1>5 DEF WorkerFits, OperationFits, AttemptFits, AtRun, AtCompaction,
       AtAttempt, ContextFits
<1>7. pc' \in Places \ {"recover", "down"}
  BY <1>1 DEF Places
<1> QED BY <1>1, <1>3, <1>4, <1>6, <1>7, Local

(* The abort of a tool is appended before its result.                       *)
LEMMA ToolAbortKeeps == ASSUME IInv, ToolAbort PROVE IInv' /\ Intents(s, s')
<1> DEFINE f == AbortRequested(job.op, "run", "tool", s.tools[job.tool].call)
<1>1. /\ pc = "toolAbort" /\ UNCHANGED <<compacted, now, history, left>>
      /\ \/ /\ s' \in ReduceLine(s, <<f>>) /\ pc' = "toolResult" /\ job' = job
            /\ messages' = messages /\ UNCHANGED abort
         \/ s' = s /\ Exit
  BY Zenon DEF ToolAbort, Commit, CommitOr, Goto, session
<1>2. pc \in AtTool
  BY <1>1 DEF AtTool
<1>3. /\ pc \in AtRun /\ job \in Job /\ messages \in Seq(Id) /\ job.tool \in Id
      /\ s.tools[job.tool] # None /\ s.tools[job.tool].call \in CallId
      /\ AnswerFits(pc, job) /\ OperationFits(s, pc, job)
  BY <1>2, ToolNow
<1>4. FileInv(s) /\ ~Idle(s) /\ NoCompaction(s)
  BY <1>3, RunNow
<1>5. f \in Facts /\ f.type = "abortRequested"
  <2>1. f \in Closing
    BY <1>3, ClosingFacts
  <2> QED BY <2>1 DEF Closing, AbortRequested
<1> HIDE DEF f
<1>6. CASE /\ s' \in ReduceLine(s, <<f>>) /\ pc' = "toolResult" /\ job' = job
           /\ messages' = messages /\ UNCHANGED abort
  <2>1. FileStep(s, s') /\ Keeps(s, s', {f})
    BY <1>4, <1>5, <1>6, PlainOne
  <2>2. CurrentKept(s, s') /\ Intents(s, s') /\ ToolsKept(s, s')
    BY <1>5, <2>1, OneKeeps
  <2>3. s'.tools[job.tool] # None
    BY <1>3, <2>2 DEF ToolsKept
  <2>4. OperationFits(s', pc', job')
    BY <1>3, <1>4, <1>6, <2>2 DEF OperationFits, CurrentKept, AtRun, AtCompaction
  <2>5. AnswerFits(pc', job') /\ ToolFits(s', pc', job', effects, now)
    BY <1>1, <1>3, <1>6, <2>3 DEF AnswerFits, AtAnswer, ToolFits
  <2>6. WorkerFits(s', pc', job', effects, now)
    BY <1>6, <2>4, <2>5 DEF WorkerFits, AttemptFits, AtAttempt, ContextFits
  <2>7. pc' \in Places \ {"recover", "down"}
    BY <1>6 DEF Places
  <2> QED BY <1>1, <1>3, <1>6, <2>1, <2>2, <2>6, <2>7, Appended
<1>7. CASE s' = s /\ Exit
  BY <1>1, <1>7, RefusedExits
<1> QED BY <1>1, <1>6, <1>7

(* The result is appended; the worker goes to the next call, or returns.    *)
LEMMA AppendResultKeeps == ASSUME IInv, AppendResult PROVE IInv' /\ Intents(s, s')
<1> DEFINE f == Result(job.tool)
           result == s.tools[job.tool].result
<1>1. /\ pc = "toolResult" /\ UNCHANGED <<compacted, now, history, left>>
      /\ \/ /\ s' \in ReduceLine(s, <<f>>) /\ UNCHANGED abort
            /\ \/ Return /\ UNCHANGED messages
               \/ /\ ~job.direct /\ pc' = "toolAborted" /\ job' = job /\ messages' = messages
               \/ /\ ~job.direct /\ pc' = "tools" /\ job' = Answered(result)
                  /\ messages' = Append(messages, result)
         \/ s' = s /\ Exit
  BY Zenon DEF AppendResult, Commit, CommitOr, Goto, Set, session
<1>2. pc \in AtTool
  BY <1>1 DEF AtTool
<1>3. /\ pc \in AtRun /\ job \in Job /\ messages \in Seq(Id) /\ result \in Id
      /\ f \in Closing /\ f.type = "result"
      /\ AnswerFits(pc, job) /\ OperationFits(s, pc, job)
  BY <1>2, ToolNow
<1>4. FileInv(s) /\ ~Idle(s) /\ NoCompaction(s) /\ s.operation.id = job.op
      /\ s.operation.kind = "run"
  BY <1>3, RunNow
<1> HIDE DEF f, result
<1>5. CASE s' = s /\ Exit
  BY <1>1, <1>5, RefusedExits
<1>6. ASSUME s' \in ReduceLine(s, <<f>>)
      PROVE  /\ FileStep(s, s') /\ Intents(s, s') /\ ~Idle(s') /\ s'.operation.id = job.op
             /\ s'.operation.kind = "run"
  <2>1. FileStep(s, s') /\ Keeps(s, s', {f})
    BY <1>3, <1>4, <1>6, PlainOne DEF Closing
  <2>2. CurrentKept(s, s') /\ Intents(s, s')
    BY <1>3, <2>1, OneKeeps
  <2> QED BY <1>4, <2>1, <2>2 DEF CurrentKept
<1>7. CASE s' \in ReduceLine(s, <<f>>) /\ Return /\ UNCHANGED <<messages, abort>>
  BY <1>1, <1>6, <1>7, Returned
<1>8. CASE /\ s' \in ReduceLine(s, <<f>>) /\ ~job.direct /\ pc' = "toolAborted" /\ job' = job
           /\ messages' = messages /\ UNCHANGED abort
  <2>1. OperationFits(s', pc', job')
    BY <1>6, <1>8 DEF OperationFits, AtRun, AtCompaction
  <2>2. AnswerFits(pc', job')
    BY <1>1, <1>3, <1>8 DEF AnswerFits, AtAnswer
  <2>3. WorkerFits(s', pc', job', effects, now)
    BY <1>8, <2>1, <2>2 DEF WorkerFits, AttemptFits, AtAttempt, ContextFits, ToolFits, AtTool
  <2>4. pc' \in Places \ {"recover", "down"}
    BY <1>8 DEF Places
  <2> QED BY <1>1, <1>3, <1>6, <1>8, <2>3, <2>4, Appended
<1>9. CASE /\ s' \in ReduceLine(s, <<f>>) /\ ~job.direct /\ pc' = "tools"
           /\ job' = Answered(result) /\ messages' = Append(messages, result) /\ UNCHANGED abort
  <2>1. AtAnswer(pc, job)
    BY <1>1, <1>9 DEF AtAnswer
  <2>2. /\ job.answer \in Answers /\ job.answer.calls # << >>
        /\ Len(job.answer.calls) \in Nat \ {0} /\ job.step \in Id /\ job.assistant \in Id
        /\ job.index \in 1..(Len(job.answer.calls) + 1) /\ job.index <= Len(job.answer.calls)
    BY <1>1, <1>3, <2>1, AnswerNow DEF AnswerFits
  <2>3. /\ job' \in Job /\ job'.index = job.index + 1 /\ job'.last = result /\ job'.op = job.op
        /\ job'.answer = job.answer /\ job'.step = job.step /\ job'.assistant = job.assistant
        /\ job'.recovering = job.recovering
    <3>1. job' = [job EXCEPT !.index = @ + 1, !.last = result, !.tool = None]
      BY <1>9 DEF Answered
    <3>2. job.index + 1 \in Nat
      BY <2>2
    <3>3. job' \in Job
      BY <1>3, <3>1, <3>2 DEF Job
    <3> QED BY <1>3, <3>1, <3>3 DEF Job
  <2>4. AnswerFits(pc', job')
    BY <1>3, <1>9, <2>2, <2>3 DEF AnswerFits, AtAnswer
  <2>5. OperationFits(s', pc', job')
    BY <1>6, <1>9, <2>3 DEF OperationFits, AtRun, AtCompaction
  <2>6. WorkerFits(s', pc', job', effects, now)
    BY <1>9, <2>4, <2>5 DEF WorkerFits, AttemptFits, AtAttempt, ContextFits, ToolFits, AtTool
  <2>7. pc' \in Places \ {"recover", "down"} /\ messages' \in Seq(Id)
    BY <1>3, <1>9 DEF Places
  <2> QED BY <1>1, <1>6, <1>9, <2>3, <2>6, <2>7, Appended
<1> QED BY <1>1, <1>5, <1>7, <1>8, <1>9

(* The calls after an aborted one are skipped.                              *)
LEMMA ToolAbortedKeeps == ASSUME IInv, ToolAborted PROVE IInv' /\ Intents(s, s')
<1> DEFINE facts == Skipped(job.index + 1) \o <<Finished("aborted", None)>>
<1>1. /\ pc = "toolAborted" /\ Room(Len(job.answer.calls) - job.index)
      /\ UNCHANGED <<compacted, now, history, left>>
      /\ \/ s' \in ReduceLine(s, facts) /\ Return /\ UNCHANGED <<messages, abort>>
         \/ s' = s /\ Exit
  BY Zenon DEF ToolAborted, Commit, CommitOr, session
<1>2. pc \in AtRun /\ AtAnswer(pc, job)
  BY <1>1 DEF AtRun, AtAnswer
<1>3. /\ job.answer \in Answers /\ Len(job.answer.calls) \in Nat \ {0}
      /\ job.step \in Id /\ job.assistant \in Id
      /\ job.index \in 1..(Len(job.answer.calls) + 1) /\ job.index <= Len(job.answer.calls)
  BY <1>1, <1>2, AnswerNow
<1>4. facts \in Seq(Closing)
  <2>1. /\ job.index + 1 \in Nat \ {0} /\ job.index + 1 <= Len(job.answer.calls) + 1
        /\ Len(job.answer.calls) - (job.index + 1) + 1 = Len(job.answer.calls) - job.index
    BY <1>3
  <2>2. Skipped(job.index + 1) \in Seq(Closing)
    BY <1>1, <1>2, <1>3, <2>1, SkippedFacts
  <2>3. Finished("aborted", None) \in Closing
    BY <1>2, ClosingFacts DEF Outcome
  <2> QED BY <2>2, <2>3
<1> HIDE DEF facts
<1>5. CASE s' \in ReduceLine(s, facts) /\ Return /\ UNCHANGED <<messages, abort>>
  BY <1>1, <1>2, <1>4, <1>5, ClosingReturn
<1>6. CASE s' = s /\ Exit
  BY <1>1, <1>6, RefusedExits
<1> QED BY <1>1, <1>5, <1>6

-----------------------------------------------------------------------------
(* The start of a run *)

(* Where the worker gets to, whatever changed.                              *)
LEMMA Lands ==
  ASSUME IInv, FileInv(s'), EffectsFit(s', effects), effects' = effects,
         compacted' \in Id \cup {None}, CompactedFits(s', compacted'),
         pc' \in Places, job' \in Job, messages' \in Seq(Id),
         cancel' \in BOOLEAN, coordination' \in {"Waiting", "DurableReady", "NonDurable"},
         user' \in {"idle", "request", "waiting", "cancel"}, now' = now,
         UserFits(pc', job', user'), WorkerFits(s', pc', job', effects, now)
  PROVE  IInv'
<1>1. TypeOK'
  <2>1. s' \in State
    BY DEF FileInv, Good, Sound
  <2> QED BY <2>1 DEF IInv, TypeOK, Places
<1>2. /\ OperationFits(s, pc, job)' /\ ContextFits(pc, job)' /\ AttemptFits(s, pc, job)'
      /\ AnswerFits(pc, job)' /\ ToolFits(s, pc, job, effects, now)'
  BY Zenon DEF WorkerFits
<1> QED BY <1>1, <1>2 DEF IInv

(* A place of rest holds nothing.                                           *)
LEMMA RestFits ==
  ASSUME NEW t, NEW at \in AtRest, NEW j, NEW count, NEW process
  PROVE  WorkerFits(t, at, j, count, process) /\ at \in Places
BY DEF AtRest, WorkerFits, OperationFits, ContextFits, AttemptFits, AnswerFits, ToolFits,
       AtCompaction, AtRun, AtAttempt, AtAnswer, AtTool, Places

(* What is published to the terminal thread.                                *)
LEMMA PublishTypes ==
  ASSUME IInv, NEW state \in {"Waiting", "DurableReady", "NonDurable"}, Publish(state)
  PROVE  /\ coordination' \in {"Waiting", "DurableReady", "NonDurable"}
         /\ user' \in {"idle", "request", "waiting", "cancel"}
         /\ user = "idle" => user' = "idle"
BY DEF Publish, IInv, TypeOK

(* The user message and the run it starts.                                  *)
LEMMA StartRunKeeps == ASSUME IInv, StartRun PROVE IInv' /\ Intents(s, s')
<1> DEFINE f == UserMessage(New(1))
           g == RunStarted(New(2), New(1))
<1>1. /\ pc = "start" /\ Room(2) /\ UNCHANGED <<compacted, now, history, left>> /\ cancel' = FALSE
      /\ \/ /\ s' \in ReduceLine(s, <<f, g>>) /\ Publish("DurableReady")
            /\ messages' = Append(messages, New(1)) /\ pc' = "step"
            /\ job' = [NoJob EXCEPT !.op = New(2), !.context = New(1)]
         \/ s' = s /\ Exit
  BY Zenon DEF StartRun, Commit, CommitOr, Goto, Set, session
<1>2. messages \in Seq(Id) /\ s \in State /\ FileInv(s) /\ Good(s)
  BY DEF IInv, TypeOK, FileInv
<1>3. New(1) \in Id /\ New(2) \in Id
  BY <1>1, <1>2, Allocates
<1>4. f \in Facts /\ g \in Facts
  BY <1>3, RunFactTypes
<1>5. f.type = "user" /\ g.type = "runStarted"
  BY DEF UserMessage, RunStarted
<1>6. CASE /\ s' \in ReduceLine(s, <<f, g>>) /\ Publish("DurableReady")
           /\ messages' = Append(messages, New(1)) /\ pc' = "step"
           /\ job' = [NoJob EXCEPT !.op = New(2), !.context = New(1)]
  <2>1. PICK m : Reduces(s, m, f) /\ Reduces(m, s', g)
    BY <1>6, LineTwo
  <2>2. Good(m) /\ Good(s')
    BY <1>2, <1>4, <2>1, GoodNext
  <2>3. m \in State /\ s' \in State /\ Sound(s) /\ Ledger(s)
    BY <1>2, <2>2 DEF Good, Sound
  <2>4. Idle(m) /\ ~Idle(s') /\ s'.operation.id = New(2) /\ s'.operation.kind = "run"
    BY <1>3, <2>1, <2>3, RunBegun
  <2>5. Idle(s)
    <3>1. FactDoes(s, m, f)
      BY <1>2, <1>4, <2>1, FactCases
    <3>2. StepKept(s, m)
      BY <1>5, <2>3, <3>1, FactStep DEF Steady
    <3> QED BY <2>4, <3>2 DEF StepKept
  <2> HIDE DEF f, g
  <2>6. FileStep(s, s') /\ Keeps(s, s', {f, g})
    BY <1>2, <1>4, <1>5, <1>6, <2>5, PlainTwo DEF NoCompaction
  <2>7. Intents(s, s')
    <3>1. Without({f, g}, {"toolStarted"})
      BY <1>5 DEF Without
    <3> QED BY <2>6, <3>1, NoIntent
  <2>8. /\ job' \in Job /\ job'.op = New(2) /\ job'.context = New(1) /\ ~job'.recovering
    BY <1>3, <1>6, NoJobType DEF Job, NoJob
  <2>9. WorkerFits(s', pc', job', effects, now)
    BY <1>3, <1>6, <2>4, <2>8 DEF WorkerFits, OperationFits, AttemptFits, AtRun, AtCompaction,
         AtAttempt, ContextFits, AnswerFits, AtAnswer, ToolFits, AtTool
  <2>10. pc' \in Places /\ messages' \in Seq(Id) /\ UserFits(pc', job', user')
    BY <1>2, <1>3, <1>6, <2>8 DEF Places, UserFits
  <2>11. /\ coordination' \in {"Waiting", "DurableReady", "NonDurable"}
         /\ user' \in {"idle", "request", "waiting", "cancel"}
    BY <1>6, PublishTypes
  <2>12. now' = now /\ effects' = effects /\ compacted' = compacted /\ cancel' \in BOOLEAN
    BY <1>1 DEF history
  <2> QED BY <2>6, <2>7, <2>8, <2>9, <2>10, <2>11, <2>12, Moves
<1>7. CASE s' = s /\ Exit
  BY <1>1, <1>7, RefusedExits
<1> QED BY <1>1, <1>6, <1>7

-----------------------------------------------------------------------------
(* The ends of a compaction *)

(* A compaction ends, with or without an error, and so may the process.     *)
LEMMA CompactionEnds ==
  ASSUME IInv, FileStep(s, s'), UNCHANGED <<compacted, now, history>>,
         \/ Exit
         \/ /\ Return \/ (pc' = "start" /\ job' = NoJob)
            /\ messages' \in Seq(Id) /\ UNCHANGED abort
  PROVE  IInv'
<1>1. compacted' = compacted /\ now' = now /\ effects' = effects
  BY DEF history
<1>2. CASE Exit
  BY <1>2, Exited
<1>3. CASE messages' \in Seq(Id) /\ UNCHANGED abort /\ (Return \/ (pc' = "start" /\ job' = NoJob))
  <2>1. /\ cancel' = cancel /\ coordination' = coordination /\ user' = user
        /\ cancel' \in BOOLEAN /\ now' \in Setups
        /\ coordination' \in {"Waiting", "DurableReady", "NonDurable"}
        /\ user' \in {"idle", "request", "waiting", "cancel"}
    BY <1>1, <1>3 DEF abort, IInv, TypeOK
  <2>2. CASE Return
    BY <1>1, <1>3, <2>1, <2>2, ReturnRests
  <2>3. CASE pc' = "start" /\ job' = NoJob
    <3>1. pc' \in AtRest /\ job' \in Job /\ UserFits(pc', job', user')
      BY <2>3, NoJobType DEF AtRest, UserFits, NoJob
    <3> QED BY <1>1, <1>3, <2>1, <3>1, Rests
  <2> QED BY <1>3, <2>2, <2>3
<1> QED BY <1>2, <1>3

(* A transaction of it is refused.                                          *)
LEMMA CompactionRefusedKeeps ==
  ASSUME IInv, s' = s, CompactionRefused, UNCHANGED <<compacted, now, history>>
  PROVE  IInv' /\ Intents(s, s')
<1>1. FileStep(s, s') /\ Intents(s, s')
  BY SameFile DEF IInv
<1>2. \/ Exit
      \/ pc' = "start" /\ job' = NoJob /\ UNCHANGED <<messages, abort>>
  BY DEF CompactionRefused, CompactionErr, Goto, Set
<1>3. messages \in Seq(Id)
  BY DEF IInv, TypeOK
<1>4. \/ Exit
      \/ /\ Return \/ (pc' = "start" /\ job' = NoJob)
         /\ messages' \in Seq(Id) /\ UNCHANGED abort
  BY <1>2, <1>3
<1> QED BY <1>1, <1>4, CompactionEnds

(* Its facts.                                                               *)
LEMMA CompactionFacts1 ==
  ASSUME IInv, pc \in AtCompaction
  PROVE  /\ \A outcome \in Outcome, final \in Id \cup {None} :
              /\ Finished(outcome, final) \in Facts
              /\ Finished(outcome, final).type = "operationFinished"
         /\ \A step \in Id, a \in Id :
              /\ StepFailed(job.op, step, a) \in Facts /\ UsageFact(job.op, a, 1) \in Facts
              /\ StepFailed(job.op, step, a).type = "stepFailed"
              /\ UsageFact(job.op, a, 1).type = "usage" /\ UsageFact(job.op, a, 1).amount = 1
<1>1. job.op \in Id
      /\ \A outcome \in Outcome, final \in Id \cup {None} : Finished(outcome, final) \in Facts
  BY CompactionNow
<1>2. \A outcome, final : Finished(outcome, final).type = "operationFinished"
  BY DEF Finished, OperationFinished
<1>3. \A step \in Id, a \in Id :
        StepFailed(job.op, step, a) \in Facts /\ UsageFact(job.op, a, 1) \in Facts
  BY <1>1, FailureFactTypes
<1>4. \A step, a : /\ StepFailed(job.op, step, a).type = "stepFailed"
                   /\ UsageFact(job.op, a, 1).type = "usage"
                   /\ UsageFact(job.op, a, 1).amount = 1
  BY DEF StepFailed, UsageFact
<1> QED BY <1>1, <1>2, <1>3, <1>4

(* A line that ends it.                                                     *)
LEMMA FinishedLine ==
  ASSUME IInv, pc \in AtCompaction, NEW outcome \in Outcome, NEW final \in Id \cup {None},
         s' \in ReduceLine(s, <<Finished(outcome, final)>>)
  PROVE  FileStep(s, s') /\ Intents(s, s')
<1> DEFINE f == Finished(outcome, final)
<1>1. f \in Facts /\ f.type = "operationFinished"
  BY CompactionFacts1
<1>2. FileInv(s)
  BY DEF IInv
<1> HIDE DEF f
<1>3. FileStep(s, s') /\ Keeps(s, s', {f})
  <2>1. s' \in ReduceLine(s, <<f>>)
    BY DEF f
  <2> QED BY <1>1, <1>2, <2>1, PlainOne
<1> QED BY <1>1, <1>3, OneKeeps

(* One that ends its attempt, too.                                          *)
LEMMA FailedLine ==
  ASSUME IInv, pc \in AtCompaction, NEW outcome \in Outcome, job.step \in Id, job.attempt \in Id,
         s' \in ReduceLine(s, <<StepFailed(job.op, job.step, job.attempt),
                              Finished(outcome, None)>>)
  PROVE  FileStep(s, s') /\ Intents(s, s')
<1> DEFINE f == StepFailed(job.op, job.step, job.attempt)
           g == Finished(outcome, None)
<1>1. f \in Facts /\ f.type = "stepFailed" /\ g \in Facts /\ g.type = "operationFinished"
  BY CompactionFacts1
<1>2. FileInv(s)
  BY DEF IInv
<1> HIDE DEF f, g
<1>3. FileStep(s, s') /\ Keeps(s, s', {f, g})
  <2>1. s' \in ReduceLine(s, <<f, g>>)
    BY DEF f, g
  <2> QED BY <1>1, <1>2, <2>1, PlainTwo
<1>4. Without({f, g}, {"toolStarted"})
  BY <1>1 DEF Without
<1> QED BY <1>3, <1>4, NoIntent

(* What is sent is projected again.                                         *)
LEMMA ReprojectType ==
  ASSUME IInv, FileStep(s, s'), Reproject
  PROVE  messages' \in Seq(Id)
<1>1. s' \in State
  BY DEF FileStep, FileInv, Good, Sound
<1> QED BY <1>1, Fields DEF Reproject, IInv, TypeOK

-----------------------------------------------------------------------------
(* The steps of a compaction *)

(* An attempt of a compaction is admitted, unless it is being aborted.      *)
LEMMA AdmitCompactionKeeps == ASSUME IInv, AdmitCompaction PROVE IInv' /\ Intents(s, s')
<1> DEFINE step == IF job.step = None THEN New(2) ELSE job.step
           f == StepAttempt(job.op, step, New(1), "compaction", job.number, job.context,
                            now.config)
<1>1. /\ pc = "admit" /\ Room(2) /\ UNCHANGED <<compacted, now, history, left>>
      /\ \/ /\ s' \in ReduceLine(s, <<f>>) /\ pc' \in {"summarize", "summaryError"}
            /\ job' = [job EXCEPT !.step = step, !.attempt = New(1)]
            /\ messages' = messages /\ UNCHANGED abort
         \/ /\ s' \in ReduceLine(s, <<Finished("aborted", None)>>)
            /\ Return /\ UNCHANGED abort /\ messages' = messages
         \/ s' = s /\ Return /\ UNCHANGED abort /\ messages' = messages
         \/ s' = s /\ CompactionRefused
  BY Zenon DEF AdmitCompaction, CompactionAborted, CommitOr, Goto, Set, session
<1>2. pc \in AtCompaction /\ job \in Job /\ messages \in Seq(Id) /\ s \in State
  BY <1>1 DEF AtCompaction, IInv, TypeOK
<1>3. /\ ~Idle(s) /\ s.operation.id = job.op /\ job.op \in Id /\ s.operation.kind = "compaction"
      /\ FileInv(s) /\ now.config \in ConfigurationSnapshot
  BY <1>2, CompactionNow
<1>4. New(1) \in Id /\ New(2) \in Id
  BY <1>1, <1>2, Allocates
<1>5. step \in Id /\ job.context \in Id /\ job.number \in 1..2
  BY <1>1, <1>2, <1>4 DEF IInv, Job, ContextFits
<1>6. f \in Facts
  BY <1>3, <1>4, <1>5, AttemptFactTypes
<1>7. f.type = "stepAttempt" /\ f.attempt = New(1)
  BY DEF StepAttempt
<1> HIDE DEF f, step
<1>8. CASE /\ s' \in ReduceLine(s, <<f>>) /\ pc' \in {"summarize", "summaryError"}
           /\ job' = [job EXCEPT !.step = step, !.attempt = New(1)]
           /\ messages' = messages /\ UNCHANGED abort
  <2>1. FileStep(s, s') /\ Keeps(s, s', {f}) /\ Reduces(s, s', f)
    BY <1>3, <1>6, <1>7, <1>8, PlainOne
  <2>2. s'.operation.step = [attempt |-> New(1), status |-> "attempting"]
    BY <1>2, <1>3, <1>6, <1>7, <2>1, AttemptBegun
  <2>3. CurrentKept(s, s') /\ Intents(s, s')
    BY <1>7, <2>1, OneKeeps
  <2>4. ~Idle(s') /\ s'.operation.id = job.op /\ s'.operation.kind = "compaction"
    BY <1>3, <2>3 DEF CurrentKept
  <2>5. /\ job' \in Job /\ job'.step = step /\ job'.attempt = New(1) /\ job'.op = job.op
        /\ job'.recovering = job.recovering
    BY <1>2, <1>4, <1>5, <1>8 DEF Job
  <2>6. OperationFits(s', pc', job')
    BY <1>8, <2>4, <2>5 DEF OperationFits, AtRun, AtCompaction
  <2>7. AttemptFits(s', pc', job')
    BY <1>4, <1>5, <2>2, <2>5 DEF AttemptFits
  <2>8. ContextFits(pc', job') /\ AnswerFits(pc', job') /\ ToolFits(s', pc', job', effects, now)
    BY <1>8 DEF ContextFits, AnswerFits, AtAnswer, ToolFits, AtTool
  <2>9. WorkerFits(s', pc', job', effects, now)
    BY <2>6, <2>7, <2>8 DEF WorkerFits
  <2>10. pc' \in Places \ {"recover", "down"}
    BY <1>8 DEF Places
  <2>11. messages' \in Seq(Id) /\ UNCHANGED abort /\ UNCHANGED <<compacted, now, history>>
    BY <1>1, <1>2, <1>8
  <2> QED BY <1>1, <2>1, <2>3, <2>5, <2>9, <2>10, <2>11, Appended
<1>9. CASE /\ s' \in ReduceLine(s, <<Finished("aborted", None)>>)
           /\ Return /\ UNCHANGED abort /\ messages' = messages
  <2>1. FileStep(s, s') /\ Intents(s, s')
    BY <1>2, <1>9, FinishedLine DEF Outcome
  <2> QED BY <1>1, <1>2, <1>9, <2>1, CompactionEnds
<1>10. CASE s' = s /\ Return /\ UNCHANGED abort /\ messages' = messages
  <2>1. FileStep(s, s') /\ Intents(s, s')
    BY <1>10, SameFile DEF IInv
  <2> QED BY <1>1, <1>2, <1>10, <2>1, CompactionEnds
<1>11. CASE s' = s /\ CompactionRefused
  BY <1>1, <1>11, CompactionRefusedKeeps
<1> QED BY <1>1, <1>8, <1>9, <1>10, <1>11

(* The provider sends a summary, or fails.                                  *)
LEMMA SummarizeKeeps == ASSUME IInv, Summarize PROVE IInv' /\ Intents(s, s')
<1>1. /\ pc = "summarize" /\ s' = s /\ messages' = messages /\ UNCHANGED abort
      /\ UNCHANGED <<compacted, now, history>>
      /\ \/ /\ pc' = "settle"
            /\ \E summary \in {"summary", "invalid"} : job' = [job EXCEPT !.summary = summary]
         \/ pc' = "summaryError" /\ job' = job
  BY DEF Summarize, Goto, Set, file, session
<1>2. /\ job \in Job /\ messages' \in Seq(Id) /\ OperationFits(s, pc, job)
      /\ AttemptFits(s, pc, job)
  BY <1>1 DEF IInv, TypeOK
<1>3. /\ job' \in Job /\ job'.recovering = job.recovering /\ job'.op = job.op
      /\ job'.step = job.step /\ job'.attempt = job.attempt
  BY <1>1, <1>2 DEF Job
<1>4. WorkerFits(s, pc', job', effects, now)
  BY <1>1, <1>2, <1>3 DEF WorkerFits, OperationFits, AttemptFits, AtRun, AtCompaction, AtAttempt,
       ContextFits, AnswerFits, AtAnswer, ToolFits, AtTool
<1>5. pc' \in Places \ {"recover", "down"}
  BY <1>1 DEF Places
<1> QED BY <1>1, <1>2, <1>3, <1>4, <1>5, Local

(* What failed because of Esc is an abort in the file.                      *)
LEMMA SummaryErrorKeeps == ASSUME IInv, SummaryError PROVE IInv' /\ Intents(s, s')
<1> DEFINE f == AbortRequested(job.op, "compaction", "compact", None)
<1>1. /\ pc = "summaryError" /\ UNCHANGED <<compacted, now, history, left>>
      /\ \/ /\ s' = s \/ s' \in ReduceLine(s, <<f>>)
            /\ pc' = "settle" /\ job' = [job EXCEPT !.summary = "error"]
            /\ messages' = messages /\ UNCHANGED abort
         \/ s' = s /\ CompactionRefused
  BY Zenon DEF SummaryError, CommitOr, Goto, Set, session
<1>2. /\ pc \in AtCompaction /\ job \in Job /\ messages \in Seq(Id) /\ OperationFits(s, pc, job)
      /\ AttemptFits(s, pc, job)
  BY <1>1 DEF IInv, TypeOK, AtCompaction
<1>3. ~Idle(s) /\ FileInv(s) /\ job.op \in Id
  BY <1>2, CompactionNow
<1>4. f \in Facts
  BY <1>3, AbortFactTypes
<1>5. f.type = "abortRequested"
  BY DEF AbortRequested
<1> HIDE DEF f
<1>6. CASE /\ s' = s \/ s' \in ReduceLine(s, <<f>>)
           /\ pc' = "settle" /\ job' = [job EXCEPT !.summary = "error"]
           /\ messages' = messages /\ UNCHANGED abort
  <2>1. FileStep(s, s') /\ Intents(s, s') /\ CurrentKept(s, s') /\ StepKept(s, s')
    <3>1. CASE s' = s
      BY <1>3, <3>1, SameFile DEF CurrentKept, StepKept
    <3>2. CASE s' \in ReduceLine(s, <<f>>)
      <4>1. FileStep(s, s') /\ Keeps(s, s', {f})
        BY <1>3, <1>4, <1>5, <3>2, PlainOne
      <4> QED BY <1>5, <4>1, OneKeeps DEF Steady
    <3> QED BY <1>6, <3>1, <3>2
  <2>2. /\ job' \in Job /\ job'.recovering = job.recovering /\ job'.op = job.op
        /\ job'.step = job.step /\ job'.attempt = job.attempt
    BY <1>2, <1>6 DEF Job
  <2>3. OperationFits(s', pc', job')
    BY <1>1, <1>2, <1>3, <1>6, <2>1, <2>2 DEF OperationFits, CurrentKept, AtRun, AtCompaction
  <2>4. AttemptFits(s', pc', job')
    BY <1>1, <1>2, <1>3, <1>6, <2>1, <2>2 DEF AttemptFits, StepKept, AtAttempt
  <2>5. WorkerFits(s', pc', job', effects, now)
    BY <1>6, <2>3, <2>4 DEF WorkerFits, ContextFits, AnswerFits, AtAnswer, ToolFits, AtTool
  <2>6. pc' \in Places \ {"recover", "down"}
    BY <1>6 DEF Places
  <2> QED BY <1>1, <1>2, <1>6, <2>1, <2>2, <2>5, <2>6, Appended
<1>7. CASE s' = s /\ CompactionRefused
  BY <1>1, <1>7, CompactionRefusedKeeps
<1> QED BY <1>1, <1>6, <1>7

(* The summary is appended with its usage, or the compaction fails.         *)
LEMMA SettleCompactionKeeps == ASSUME IInv, SettleCompaction PROVE IInv' /\ Intents(s, s')
<1> DEFINE f == UsageFact(job.op, job.attempt, 1)
           g == CompactionEntry(s.operations[job.op].result, job.op, compacted,
                                Retained(s, compacted))
           Fails(outcome) ==
             <<StepFailed(job.op, job.step, job.attempt), Finished(outcome, None)>>
<1>1. /\ pc = "settle" /\ UNCHANGED <<compacted, now, history, left>>
      /\ \/ /\ s' \in ReduceLine(s, Fails("aborted"))
            /\ Return /\ UNCHANGED abort /\ Reproject
         \/ /\ s' \in ReduceLine(s, <<f, g>>) /\ pc' = "finishCompaction"
            /\ job' = job /\ messages' = messages /\ UNCHANGED abort
         \/ /\ s' \in ReduceLine(s, Fails("failed"))
            /\ Exit \/ (pc' = "start" /\ job' = NoJob /\ UNCHANGED abort /\ Reproject)
         \/ s' = s /\ CompactionRefused
  BY Zenon DEF SettleCompaction, CompactionAborted, CompactionFailed, CompactionErr, CommitOr,
       Goto, Set, session
<1>2. /\ pc \in AtCompaction /\ job \in Job /\ messages \in Seq(Id) /\ OperationFits(s, pc, job)
      /\ AttemptFits(s, pc, job) /\ s \in State
  BY <1>1 DEF IInv, TypeOK, AtCompaction
<1>3. job.step \in Id /\ job.attempt \in Id
  BY <1>1, <1>2 DEF AttemptFits, AtAttempt
<1>4. /\ ~Idle(s) /\ FileInv(s) /\ job.op \in Id /\ compacted \in Id
      /\ s.operations[job.op].result \in Id
  BY <1>2, CompactionNow
<1>5. CASE s' \in ReduceLine(s, Fails("aborted")) /\ Return /\ UNCHANGED abort /\ Reproject
  <2>1. FileStep(s, s') /\ Intents(s, s')
    BY <1>2, <1>3, <1>5, FailedLine DEF Outcome
  <2>2. messages' \in Seq(Id)
    BY <1>5, <2>1, ReprojectType
  <2> QED BY <1>1, <1>5, <2>1, <2>2, CompactionEnds
<1>6. CASE /\ s' \in ReduceLine(s, Fails("failed"))
           /\ Exit \/ (pc' = "start" /\ job' = NoJob /\ UNCHANGED abort /\ Reproject)
  <2>1. FileStep(s, s') /\ Intents(s, s')
    BY <1>2, <1>3, <1>6, FailedLine DEF Outcome
  <2>2. Exit \/ (pc' = "start" /\ job' = NoJob /\ UNCHANGED abort /\ messages' \in Seq(Id))
    BY <1>6, <2>1, ReprojectType
  <2>3. UNCHANGED <<compacted, now, history>>
    BY <1>1
  <2>4. IInv'
    BY <2>1, <2>2, <2>3, CompactionEnds
  <2> QED BY <2>1, <2>4
<1>7. CASE /\ s' \in ReduceLine(s, <<f, g>>) /\ pc' = "finishCompaction"
           /\ job' = job /\ messages' = messages /\ UNCHANGED abort
  <2>1. Retained(s, compacted) \in Seq(Id)
    <3>1. s.transcript \in Seq(Id)
      BY <1>2, Fields
    <3>2. /\ Through(s, compacted) \in 0..Len(s.transcript)
          /\ Through(s, s.operation.input) \in 0..Len(s.transcript)
      BY <1>2, ThroughType
    <3> QED BY <3>1, <3>2 DEF Retained
  <2>2. f \in Facts /\ g \in Facts
    BY <1>2, <1>3, <1>4, <2>1, CompactionFacts1, SummaryFactTypes
  <2>3. f.type = "usage" /\ f.amount = 1 /\ g.type = "compaction"
    BY DEF UsageFact, CompactionEntry
  <2> HIDE DEF f, g
  <2>4. FileStep(s, s') /\ Keeps(s, s', {f, g}) /\ Intents(s, s')
    BY <1>4, <1>7, <2>2, <2>3, ChargedLine
  <2>5. CurrentKept(s, s')
    <3>1. Without({f, g}, {"operationFinished"})
      BY <2>3 DEF Without
    <3> QED BY <2>4, <3>1, Zenon DEF Keeps, KeepsOperation
  <2>6. OperationFits(s', pc', job')
    BY <1>1, <1>2, <1>4, <1>7, <2>5 DEF OperationFits, CurrentKept, AtRun, AtCompaction
  <2>7. WorkerFits(s', pc', job', effects, now)
    BY <1>7, <2>6 DEF WorkerFits, AttemptFits, AtAttempt, ContextFits, AnswerFits, AtAnswer,
         ToolFits, AtTool
  <2>8. pc' \in Places \ {"recover", "down"}
    BY <1>7 DEF Places
  <2> QED BY <1>1, <1>2, <1>7, <2>4, <2>7, <2>8, Appended
<1>8. CASE s' = s /\ CompactionRefused
  BY <1>1, <1>8, CompactionRefusedKeeps
<1> QED BY <1>1, <1>5, <1>6, <1>7, <1>8

(* A compaction with a summary is completed.                                *)
LEMMA FinishCompactionKeeps == ASSUME IInv, FinishCompaction PROVE IInv' /\ Intents(s, s')
<1> DEFINE result == s.operations[job.op].result
<1>1. /\ pc = "finishCompaction" /\ UNCHANGED <<compacted, now, history, left>>
      /\ \/ /\ s' \in ReduceLine(s, <<Finished("completed", result)>>)
            /\ Return \/ (pc' = "start" /\ job' = NoJob)
            /\ UNCHANGED abort /\ Reproject
         \/ s' = s /\ CompactionRefused
  BY Zenon DEF FinishCompaction, CompactionOk, CommitOr, Goto, Set, session
<1>2. pc \in AtCompaction
  BY <1>1 DEF AtCompaction
<1>3. result \in Id
  BY <1>2, CompactionNow
<1>4. CASE /\ s' \in ReduceLine(s, <<Finished("completed", result)>>)
           /\ Return \/ (pc' = "start" /\ job' = NoJob)
           /\ UNCHANGED abort /\ Reproject
  <2>1. FileStep(s, s') /\ Intents(s, s')
    BY <1>2, <1>3, <1>4, FinishedLine DEF Outcome
  <2>2. messages' \in Seq(Id)
    BY <1>4, <2>1, ReprojectType
  <2> QED BY <1>1, <1>4, <2>1, <2>2, CompactionEnds
<1>5. CASE s' = s /\ CompactionRefused
  BY <1>1, <1>5, CompactionRefusedKeeps
<1> QED BY <1>1, <1>4, <1>5

-----------------------------------------------------------------------------
(* The start of a compaction *)

(* There is a place to cut, and it is one of the context.                   *)
LEMMA CutType ==
  ASSUME NEW t, t = s, t \in State
  PROVE  Cut \in 0..Len(s.context)
<1> DEFINE n == Len(s.context)
           most == IF n > Keep THEN n - Keep ELSE 0
           cuts == {k \in 0..most : k = 0 \/ s.entries[s.context[k + 1]].type = "user"}
<1>1. n \in Nat /\ Keep \in Nat
  BY Fields, BoundsAssumption
<1>2. most \in Nat /\ most <= n
  BY <1>1
<1> HIDE DEF n, most
<1>3. 0 \in cuts /\ \A j \in cuts : j \in 0..most
  BY <1>2
<1>4. cuts \in SUBSET Nat /\ cuts # {} /\ \A j \in cuts : j <= most
  <2>1. \A j \in cuts : j \in Nat /\ j <= most
    BY <1>2, <1>3
  <2> HIDE DEF cuts
  <2> QED BY <1>3, <2>1
<1>5. Cut = CHOOSE k \in cuts : \A j \in cuts : j <= k
  BY Zenon DEF Cut, n, most
<1> HIDE DEF cuts
<1>6. \E k \in cuts : \A j \in cuts : j <= k
  BY <1>2, <1>4, Greatest
<1>7. Cut \in cuts
  BY <1>5, <1>6
<1>8. Cut \in 0..n
  BY <1>1, <1>2, <1>3, <1>7
<1> QED BY <1>8 DEF n

(* What a compaction is to go through, and up to where it compacts.         *)
LEMMA CompactionBounds ==
  ASSUME IInv, ~NothingToCompact
  PROVE  /\ s.through \in Id /\ s.transcript[Len(s.transcript) - Kept] \in Id
         /\ Source(s, s.through) \in Seq(Id)
<1>1. s \in State /\ s.transcript \in Seq(Id) /\ Len(s.transcript) \in Nat
      /\ Len(s.context) \in Nat
  BY Fields DEF IInv, TypeOK
<1>2. Cut \in 0..Len(s.context)
  BY <1>1, CutType
<1>3. Kept \in Nat /\ Len(s.transcript) > Kept
  BY <1>1, <1>2 DEF Kept, NothingToCompact
<1>4. Len(s.transcript) - Kept \in 1..Len(s.transcript) /\ s.transcript # << >>
      /\ Len(s.transcript) \in 1..Len(s.transcript)
  BY <1>1, <1>3
<1>5. s.through = s.transcript[Len(s.transcript)]
  BY <1>4 DEF IInv, FileInv, TailSide, ThroughSide
<1>6. Through(s, s.through) \in 0..Len(s.transcript)
  BY <1>1, ThroughType
<1>7. Source(s, s.through) \in Seq(Id)
  BY <1>1, <1>6 DEF Source
<1> QED BY <1>1, <1>4, <1>5, <1>7

(* The line that begins it.                                                 *)
LEMMA CompactionLine ==
  ASSUME NEW t, NEW t1, FileInv(t), NEW f \in Facts, f.type = "compactionStarted",
         f.input = t.through, t1 \in ReduceLine(t, <<f>>)
  PROVE  FileInv(t1) /\ ToolsKept(t, t1) /\ Intents(t, t1) /\ Reduces(t, t1, f)
<1>1. Reduces(t, t1, f)
  BY LineOne
<1>2. Good(t) /\ TailSide(t) /\ Charged(t)
  BY DEF FileInv
<1>3. Good(t1)
  BY <1>1, <1>2, GoodNext
<1>4. Keeps(t, t1, {f})
  BY <1>1, <1>2, KeepsOne
<1>5. ToolsKept(t, t1) /\ Intents(t, t1)
  BY <1>4, OneKeeps
<1>6. TailSide(t1)
  BY <1>1, <1>2, FactTail
<1>7. Charged(t1)
  <2>1. Without({f}, {"usage"}) /\ Without({f}, {"assistant", "compaction"})
    BY DEF Without
  <2> QED BY <1>2, <1>4, <2>1, Zenon DEF Keeps, KeepsCharges, Charged
<1> QED BY <1>1, <1>3, <1>5, <1>6, <1>7 DEF FileInv

(* A compaction starts, or there is nothing to compact, or it is refused,   *)
(* by the guard or by the store.                                            *)
LEMMA StartCompactionKeeps == ASSUME IInv, StartCompaction PROVE IInv' /\ Intents(s, s')
<1> DEFINE f == CompactionStarted(New(1), s.through, New(2), Source(s, s.through))
           Ends == (pc' = "start" /\ job' = NoJob) \/ Return
<1>1. /\ pc = "compact" /\ UNCHANGED <<now, history, left>>
      /\ \/ /\ Publish("NonDurable") /\ Ends /\ s' = s /\ compacted' = compacted
            /\ messages' = messages /\ cancel' = cancel
         \/ /\ ~NothingToCompact /\ Room(2) /\ cancel' = FALSE
            /\ \/ /\ s' \in ReduceLine(s, <<f>>) /\ Publish("DurableReady") /\ pc' = "admit"
                  /\ compacted' = s.transcript[Len(s.transcript) - Kept]
                  /\ job' = [job EXCEPT !.op = New(1), !.context = s.through]
                  /\ messages' = messages
               \/ /\ s' = s /\ compacted' = compacted
                  /\ \/ /\ pc' = "start" /\ job' = NoJob /\ messages' = messages
                        /\ Publish("NonDurable")
                     \/ Exit
         \/ s' = s /\ compacted' = compacted /\ CompactionRefused
  BY Zenon DEF StartCompaction, CompactionErr, CommitOr, Goto, Set, file, session
<1>2. job \in Job /\ messages \in Seq(Id) /\ s \in State /\ FileInv(s) /\ now \in Setups
      /\ cancel \in BOOLEAN
  BY DEF IInv, TypeOK
<1>3. now' = now /\ effects' = effects
  BY <1>1 DEF history
<1>4. CASE /\ Publish("NonDurable") /\ Ends /\ s' = s /\ compacted' = compacted
           /\ messages' = messages /\ cancel' = cancel
  <2>1. /\ coordination' \in {"Waiting", "DurableReady", "NonDurable"}
        /\ user' \in {"idle", "request", "waiting", "cancel"}
        /\ user = "idle" => user' = "idle"
    BY <1>4, PublishTypes
  <2>2. FileStep(s, s') /\ Intents(s, s')
    BY <1>4, SameFile DEF IInv
  <2>3. CASE Return
    BY <1>2, <1>3, <1>4, <2>1, <2>2, <2>3, ReturnRests
  <2>4. CASE pc' = "start" /\ job' = NoJob
    <3>1. pc' \in AtRest /\ job' \in Job /\ UserFits(pc', job', user')
      BY <2>4, NoJobType DEF AtRest, UserFits, NoJob
    <3> QED BY <1>2, <1>3, <1>4, <2>1, <2>2, <3>1, Rests
  <2> QED BY <1>4, <2>3, <2>4
<1>5. ASSUME ~NothingToCompact, Room(2), compacted' = s.transcript[Len(s.transcript) - Kept]
      PROVE  /\ compacted' \in Id /\ s.through \in Id /\ New(1) \in Id /\ New(2) \in Id
             /\ f \in Facts /\ f.type = "compactionStarted" /\ f.input = s.through
  <2>1. /\ s.through \in Id /\ compacted' \in Id /\ Source(s, s.through) \in Seq(Id)
    BY <1>5, CompactionBounds
  <2>2. New(1) \in Id /\ New(2) \in Id
    BY <1>2, <1>5, Allocates
  <2>3. f \in Facts
    BY <2>1, <2>2, CompactionFactTypes
  <2>4. f.type = "compactionStarted" /\ f.input = s.through
    BY DEF CompactionStarted
  <2> QED BY <2>1, <2>2, <2>3, <2>4
<1>6. CASE /\ ~NothingToCompact /\ Room(2) /\ cancel' = FALSE
           /\ compacted' = s.transcript[Len(s.transcript) - Kept]
           /\ s' \in ReduceLine(s, <<f>>) /\ Publish("DurableReady") /\ pc' = "admit"
           /\ job' = [job EXCEPT !.op = New(1), !.context = s.through]
           /\ messages' = messages
  <2>1. /\ compacted' \in Id /\ s.through \in Id /\ New(1) \in Id
        /\ f \in Facts /\ f.type = "compactionStarted" /\ f.input = s.through
    BY <1>5, <1>6
  <2>2. s' \in ReduceLine(s, <<f>>)
    BY <1>6
  <2>3. FileInv(s') /\ ToolsKept(s, s') /\ Intents(s, s') /\ Reduces(s, s', f)
    <3> HIDE DEF f
    <3> QED BY <1>2, <2>1, <2>2, CompactionLine
  <2>4. s' \in State
    BY <2>3 DEF FileInv, Good, Sound
  <2>5. ~Idle(s') /\ s'.operation.id = New(1) /\ s'.operation.kind = "compaction"
    BY <1>2, <2>1, <2>3, <2>4, CompactionBegun
  <2>6. /\ job' \in Job /\ job'.op = New(1) /\ job'.context = s.through
        /\ job'.recovering = job.recovering
    BY <1>2, <1>6, <2>1 DEF Job
  <2>7. /\ coordination' \in {"Waiting", "DurableReady", "NonDurable"}
        /\ user' \in {"idle", "request", "waiting", "cancel"}
        /\ user = "idle" => user' = "idle"
    BY <1>6, PublishTypes
  <2>8. WorkerFits(s', pc', job', effects, now)
    BY <1>6, <2>1, <2>5, <2>6 DEF WorkerFits, OperationFits, AttemptFits, AtRun, AtCompaction,
         AtAttempt, ContextFits, AnswerFits, AtAnswer, ToolFits, AtTool
  <2>9. pc' \in Places /\ UserFits(pc', job', user')
    BY <1>1, <1>6, <2>6, <2>7 DEF Places, UserFits, IInv
  <2>10. EffectsFit(s', effects)
    BY <2>3, Zenon DEF IInv, EffectsFit, ToolsKept
  <2>11. CompactedFits(s', compacted') /\ compacted' \in Id \cup {None}
    BY <2>1 DEF CompactedFits
  <2>12. messages' \in Seq(Id) /\ cancel' \in BOOLEAN
    BY <1>2, <1>6
  <2>13. IInv'
    BY <1>3, <2>3, <2>6, <2>7, <2>8, <2>9, <2>10, <2>11, <2>12, Lands
  <2> QED BY <2>3, <2>13
<1>7. CASE /\ cancel' = FALSE /\ s' = s /\ compacted' = compacted
           /\ \/ /\ pc' = "start" /\ job' = NoJob /\ messages' = messages
                 /\ Publish("NonDurable")
              \/ Exit
  <2>1. FileStep(s, s') /\ Intents(s, s')
    BY <1>7, SameFile DEF IInv
  <2>2. CASE /\ pc' = "start" /\ job' = NoJob /\ messages' = messages
             /\ Publish("NonDurable")
    <3>1. /\ coordination' \in {"Waiting", "DurableReady", "NonDurable"}
          /\ user' \in {"idle", "request", "waiting", "cancel"}
      BY <2>2, PublishTypes
    <3>2. pc' \in AtRest /\ job' \in Job /\ UserFits(pc', job', user') /\ cancel' \in BOOLEAN
      BY <1>7, <2>2, NoJobType DEF AtRest, UserFits, NoJob
    <3> QED BY <1>2, <1>3, <1>7, <2>1, <2>2, <3>1, <3>2, Rests
  <2>3. CASE Exit
    BY <1>3, <1>7, <2>1, <2>3, ExitRests
  <2> QED BY <1>7, <2>2, <2>3
<1>8. \/ /\ Publish("NonDurable") /\ Ends /\ s' = s /\ compacted' = compacted
         /\ messages' = messages /\ cancel' = cancel
      \/ /\ ~NothingToCompact /\ Room(2) /\ cancel' = FALSE
         /\ compacted' = s.transcript[Len(s.transcript) - Kept]
         /\ s' \in ReduceLine(s, <<f>>) /\ Publish("DurableReady") /\ pc' = "admit"
         /\ job' = [job EXCEPT !.op = New(1), !.context = s.through]
         /\ messages' = messages
      \/ /\ cancel' = FALSE /\ s' = s /\ compacted' = compacted
         /\ \/ /\ pc' = "start" /\ job' = NoJob /\ messages' = messages
               /\ Publish("NonDurable")
            \/ Exit
      \/ s' = s /\ compacted' = compacted /\ CompactionRefused
  BY <1>1, Zenon
<1>9. CASE s' = s /\ compacted' = compacted /\ CompactionRefused
  BY <1>1, <1>9, CompactionRefusedKeeps
<1> QED BY <1>4, <1>6, <1>7, <1>8, <1>9

-----------------------------------------------------------------------------
(* Recovery *)

(* Where the recovery loop is, and what its planner answers.                *)
LEMMA RecoveryNow ==
  ASSUME IInv, pc = "recover", ~Idle(s)
  PROVE  /\ s \in State /\ FileInv(s) /\ Good(s) /\ Sound(s) /\ now \in Setups
         /\ PlanFits(s, now, RecoveryPlan)
         /\ s.operation.id \in Id /\ s.operation.kind \in {"run", "compaction"}
         /\ job \in Job /\ job.recovering /\ user = "idle" /\ messages \in Seq(Id)
         /\ effects \in [Id -> Nat] /\ cancel \in BOOLEAN
         /\ coordination \in {"Waiting", "DurableReady", "NonDurable"}
<1>1. s \in State /\ FileInv(s) /\ Good(s) /\ Sound(s) /\ now \in Setups
  BY DEF IInv, TypeOK, FileInv, Good
<1>2. PlanFits(s, now, RecoveryPlan)
  BY <1>1, PlanAlwaysFits DEF RecoveryPlan
<1>3. s.operation.id \in Id /\ s.operation.kind \in {"run", "compaction"}
  BY <1>1, CurrentTypes
<1>4. job \in Job /\ job.recovering /\ user = "idle" /\ messages \in Seq(Id)
  BY DEF IInv, TypeOK, UserFits
<1>5. effects \in [Id -> Nat] /\ cancel \in BOOLEAN
      /\ coordination \in {"Waiting", "DurableReady", "NonDurable"}
  BY DEF IInv, TypeOK
<1> QED BY <1>1, <1>2, <1>3, <1>4, <1>5

(* The loop goes round.                                                     *)
LEMMA AgainRests ==
  ASSUME IInv, pc = "recover", FileStep(s, s'), Again, UNCHANGED <<compacted, now, history>>
  PROVE  IInv'
<1>1. /\ pc' = "recover" /\ job' = job /\ messages' = messages /\ cancel' = cancel
      /\ coordination' = coordination /\ user' = user
      /\ compacted' = compacted /\ now' = now /\ effects' = effects
  BY DEF Again, abort, history
<1>2. pc' \in AtRest /\ job' \in Job /\ messages' \in Seq(Id) /\ cancel' \in BOOLEAN
      /\ coordination' \in {"Waiting", "DurableReady", "NonDurable"}
      /\ user' \in {"idle", "request", "waiting", "cancel"} /\ now' \in Setups
      /\ UserFits(pc', job', user')
  BY <1>1 DEF IInv, TypeOK, AtRest
<1> QED BY <1>1, <1>2, Rests

(* Recovery closes an attempt that a crash left open.                       *)
LEMMA RecoverCloseKeeps == ASSUME IInv, RecoverCloseAttempt PROVE IInv' /\ Intents(s, s')
<1> DEFINE f == StepFailed(s.operation.id, CurrentStep, s.operation.step.attempt)
<1>1. /\ pc = "recover" /\ ~Idle(s) /\ RecoveryPlan.type = "closeAttempt"
      /\ UNCHANGED <<compacted, now, history, left>>
      /\ \/ s' \in ReduceLine(s, <<f>>) /\ Again
         \/ s' = s /\ Exit
  BY Zenon DEF RecoverCloseAttempt, Recovers, Commit, CommitOr, session
<1>2. /\ s \in State /\ FileInv(s) /\ Sound(s) /\ PlanFits(s, now, RecoveryPlan)
      /\ s.operation.id \in Id
  BY <1>1, RecoveryNow
<1>3. s.operation.step # None
  BY <1>1, <1>2 DEF PlanFits
<1>4. s.operation.step.attempt \in Id /\ CurrentStep \in Id
  BY <1>1, <1>2, <1>3, CurrentTypes, StepTypes DEF CurrentStep
<1>5. f \in Facts
  BY <1>2, <1>4, FailureFactTypes
<1>6. f.type = "stepFailed"
  BY DEF StepFailed
<1> HIDE DEF f
<1>7. CASE s' \in ReduceLine(s, <<f>>) /\ Again
  <2>1. FileStep(s, s') /\ Keeps(s, s', {f})
    BY <1>2, <1>5, <1>6, <1>7, PlainOne
  <2>2. Intents(s, s')
    BY <1>6, <2>1, OneKeeps
  <2> QED BY <1>1, <1>7, <2>1, <2>2, AgainRests
<1>8. CASE s' = s /\ Exit
  BY <1>1, <1>8, RefusedExits
<1> QED BY <1>1, <1>7, <1>8

(* Recovery finishes the operation.                                         *)
LEMMA RecoverFinishKeeps == ASSUME IInv, RecoverFinish PROVE IInv' /\ Intents(s, s')
<1> DEFINE f == OperationFinished(s.operation.id, s.operation.kind, RecoveryPlan.outcome,
                                  RecoveryPlan.final)
<1>1. /\ pc = "recover" /\ ~Idle(s) /\ RecoveryPlan.type = "finish"
      /\ UNCHANGED <<compacted, now, history, left>>
      /\ \/ s' \in ReduceLine(s, <<f>>) /\ Again
         \/ s' = s /\ Exit
  BY Zenon DEF RecoverFinish, Recovers, Commit, CommitOr, session
<1>2. /\ FileInv(s) /\ PlanFits(s, now, RecoveryPlan)
      /\ s.operation.id \in Id /\ s.operation.kind \in {"run", "compaction"}
  BY <1>1, RecoveryNow
<1>3. RecoveryPlan.outcome \in Outcome /\ RecoveryPlan.final \in Id \cup {None}
  BY <1>1, <1>2 DEF PlanFits
<1>4. f \in Facts
  BY <1>2, <1>3, FinishFactTypes
<1>5. f.type = "operationFinished"
  BY DEF OperationFinished
<1> HIDE DEF f
<1>6. CASE s' \in ReduceLine(s, <<f>>) /\ Again
  <2>1. FileStep(s, s') /\ Keeps(s, s', {f})
    BY <1>2, <1>4, <1>5, <1>6, PlainOne
  <2>2. Intents(s, s')
    BY <1>5, <2>1, OneKeeps
  <2> QED BY <1>1, <1>6, <2>1, <2>2, AgainRests
<1>7. CASE s' = s /\ Exit
  BY <1>1, <1>7, RefusedExits
<1> QED BY <1>1, <1>6, <1>7

(* Recovery appends results for calls that will not be executed.            *)
LEMMA RecoverSyntheticKeeps == ASSUME IInv, RecoverSynthetic PROVE IInv' /\ Intents(s, s')
<1> DEFINE results == RecoveryPlan.results
           Fact(n) ==
             IF "tool" \in DOMAIN results[n]
               THEN Result(results[n].tool)
               ELSE SyntheticToolResult(New(n), CurrentStep, SettledEntry(s),
                      results[n].index, LastCalls(s)[results[n].index])
           facts == [n \in DOMAIN results |-> Fact(n)]
<1>1. /\ pc = "recover" /\ ~Idle(s) /\ RecoveryPlan.type = "appendSynthetic"
      /\ UNCHANGED <<compacted, now, history, left>> /\ Room(Len(results))
      /\ \/ s' \in ReduceLine(s, facts) /\ Again
         \/ s' = s /\ Exit
  BY Zenon DEF RecoverSynthetic, Recovers, Commit, CommitOr, session
<1>2. s \in State /\ FileInv(s) /\ Good(s) /\ PlanFits(s, now, RecoveryPlan)
  BY <1>1, RecoveryNow
<1>3. HasCalls(s) /\ ResultsFit(s, results)
  BY <1>1, <1>2 DEF PlanFits
<1>4. /\ Len(results) \in Nat /\ DOMAIN results = 1..Len(results)
      /\ \A n \in DOMAIN results : ResultFits(s, results[n])
  BY <1>3 DEF ResultsFit
<1>5. /\ s.operation.kind = "run" /\ CurrentStep \in Id /\ SettledEntry(s) \in Id
      /\ Callers(s) # {}
  BY <1>1, <1>2, <1>3, HasCallsTypes DEF CurrentStep
<1>6. LastCalls(s) \in Seq(Call) /\ DOMAIN LastCalls(s) = 1..Len(LastCalls(s))
  BY <1>2, <1>5, CallerTypes
<1>7. ASSUME NEW n \in 1..Len(results) PROVE Fact(n) \in Closing
  <2> HIDE DEF results
  <2>1. ResultFits(s, results[n]) /\ New(n) \in Id
    BY <1>1, <1>2, <1>4, Allocates
  <2>2. CASE "tool" \in DOMAIN results[n]
    <3>1. Result(results[n].tool) \in Facts
      BY <1>2, <2>1, <2>2, ResultFactTypes DEF ResultFits
    <3>2. Result(results[n].tool).type = "result"
      BY DEF Result, ToolResult
    <3> QED BY <2>2, <3>1, <3>2 DEF Closing
  <2>3. CASE "tool" \notin DOMAIN results[n]
    <3>1. results[n].index \in DOMAIN LastCalls(s)
      BY <2>1, <2>3 DEF ResultFits
    <3>2. results[n].index \in Nat /\ LastCalls(s)[results[n].index] \in Call
      BY <1>6, <3>1
    <3> DEFINE g == SyntheticToolResult(New(n), CurrentStep, SettledEntry(s),
                      results[n].index, LastCalls(s)[results[n].index])
    <3>3. g \in Facts
      BY <1>5, <2>1, <3>2, SyntheticFactTypes
    <3>4. g.type = "synthetic"
      BY DEF SyntheticToolResult
    <3> QED BY <2>3, <3>3, <3>4 DEF Closing
  <2> QED BY <2>2, <2>3
<1>8. facts \in Seq(Closing)
  <2> HIDE DEF results
  <2>1. facts = [n \in 1..Len(results) |-> Fact(n)]
    BY <1>4, Zenon
  <2> HIDE DEF Fact, facts
  <2>2. facts \in [1..Len(results) -> Closing]
    BY <1>7, <2>1
  <2> QED BY <1>4, <2>2
<1> HIDE DEF facts
<1>9. CASE s' \in ReduceLine(s, facts) /\ Again
  <2>1. FileStep(s, s') /\ Intents(s, s')
    BY <1>2, <1>5, <1>8, <1>9, ClosingLine DEF NoCompaction
  <2> QED BY <1>1, <1>9, <2>1, AgainRests
<1>10. CASE s' = s /\ Exit
  BY <1>1, <1>10, RefusedExits
<1> QED BY <1>1, <1>9, <1>10

(* The job of a recovery.                                                   *)
LEMMA RecoveringJob ==
  ASSUME s.operation.id \in Id
  PROVE  /\ Recovering \in Job /\ Recovering.op = s.operation.id /\ Recovering.recovering
         /\ DOMAIN Recovering = DOMAIN NoJob
BY NoJobType DEF Recovering, Job, NoJob

(* Recovery executes again what it may.                                     *)
LEMMA RecoverReplayKeeps == ASSUME IInv, RecoverReplay PROVE IInv' /\ Intents(s, s')
<1>1. /\ pc = "recover" /\ ~Idle(s) /\ RecoveryPlan.type = "startTool"
      /\ RecoveryPlan.mode = "replay" /\ pc' = "execute" /\ s' = s
      /\ job' = [Recovering EXCEPT !.tool = RecoveryPlan.tool, !.direct = TRUE]
      /\ messages' = messages /\ compacted' = compacted /\ now' = now /\ effects' = effects
      /\ cancel' = cancel /\ coordination' = coordination /\ user' = user
  BY DEF RecoverReplay, Recovers, Goto, Set, file, session, abort, history
<1>2. /\ s \in State /\ FileInv(s) /\ Good(s) /\ PlanFits(s, now, RecoveryPlan)
      /\ s.operation.id \in Id /\ messages \in Seq(Id) /\ user = "idle" /\ cancel \in BOOLEAN
      /\ coordination \in {"Waiting", "DurableReady", "NonDurable"}
  BY <1>1, RecoveryNow
<1>3. /\ HasCalls(s) /\ RecoveryPlan.tool \in Id /\ s.tools[RecoveryPlan.tool] # None
      /\ s.tools[RecoveryPlan.tool].status = "pending" /\ Matches(s, now, RecoveryPlan.tool)
  BY <1>1, <1>2 DEF PlanFits
<1>4. s.operation.kind = "run"
  BY <1>1, <1>2, <1>3, HasCallsTypes
<1>5. /\ job' \in Job /\ job'.op = s.operation.id /\ job'.recovering /\ job'.direct
      /\ job'.tool = RecoveryPlan.tool
  BY <1>1, <1>2, <1>3, RecoveringJob DEF Job
<1>6. FileStep(s, s') /\ Intents(s, s')
  BY <1>1, SameFile DEF IInv
<1>7. ToolFits(s', pc', job', effects, now)
  BY <1>1, <1>3, <1>5 DEF ToolFits
<1>8. WorkerFits(s', pc', job', effects, now)
  BY <1>1, <1>4, <1>5, <1>7 DEF WorkerFits, OperationFits, AttemptFits, AtRun, AtCompaction,
       AtAttempt, ContextFits, AnswerFits, AtAnswer
<1>9. pc' \in Places /\ UserFits(pc', job', user')
  BY <1>1, <1>2 DEF Places, UserFits
<1>10. /\ messages' \in Seq(Id) /\ cancel' \in BOOLEAN
       /\ coordination' \in {"Waiting", "DurableReady", "NonDurable"}
       /\ user' \in {"idle", "request", "waiting", "cancel"}
  BY <1>1, <1>2
<1> QED BY <1>1, <1>5, <1>6, <1>8, <1>9, <1>10, Moves

(* Recovery starts a call that was not started.                             *)
LEMMA RecoverStartKeeps == ASSUME IInv, RecoverStart PROVE IInv' /\ Intents(s, s')
<1> DEFINE k == RecoveryPlan.index
           call == LastCalls(s)[k]
           f == ToolStarted(New(1), s.operation.id, CurrentStep, SettledEntry(s), k, call,
                            now.replay[call.name], now.key[call.name], now.env, New(2))
<1>1. /\ pc = "recover" /\ ~Idle(s) /\ RecoveryPlan.type = "startTool"
      /\ RecoveryPlan.mode = "start" /\ Room(2)
      /\ UNCHANGED <<compacted, now, history, left>>
      /\ \/ s' = s /\ Exit
         \/ /\ s' \in ReduceLine(s, <<f>>) /\ pc' = "execute"
            /\ job' = [Recovering EXCEPT !.tool = New(1), !.direct = TRUE]
            /\ messages' = messages /\ UNCHANGED abort
  BY Zenon DEF RecoverStart, Recovers, Commit, CommitOr, Goto, Set, session
<1>2. /\ s \in State /\ FileInv(s) /\ Good(s) /\ PlanFits(s, now, RecoveryPlan)
      /\ s.operation.id \in Id /\ messages \in Seq(Id) /\ user = "idle" /\ cancel \in BOOLEAN
      /\ coordination \in {"Waiting", "DurableReady", "NonDurable"}
      /\ now \in Setups /\ effects \in [Id -> Nat]
  BY <1>1, RecoveryNow
<1>3. HasCalls(s) /\ ~s.operation.abort /\ k \in DOMAIN LastCalls(s)
  BY <1>1, <1>2 DEF PlanFits
<1>4. /\ s.operation.kind = "run" /\ CurrentStep \in Id /\ SettledEntry(s) \in Id
      /\ Callers(s) # {}
  BY <1>1, <1>2, <1>3, HasCallsTypes DEF CurrentStep
<1>5. k \in Nat /\ call \in Call
  BY <1>2, <1>3, <1>4, CallerTypes
<1>6. New(1) \in Id /\ New(2) \in Id
  <2>1. s \in State /\ Room(2)
    BY <1>1, <1>2
  <2> QED BY <2>1, Allocates
<1>7. f \in Facts
  BY <1>2, <1>4, <1>5, <1>6, ToolFactTypes
<1>8. f.type = "toolStarted" /\ f.id = New(1)
  BY DEF ToolStarted
<1> HIDE DEF f
<1>9. CASE /\ s' \in ReduceLine(s, <<f>>) /\ pc' = "execute"
           /\ job' = [Recovering EXCEPT !.tool = New(1), !.direct = TRUE]
           /\ messages' = messages /\ UNCHANGED abort
  <2>1. FileStep(s, s') /\ Keeps(s, s', {f}) /\ Reduces(s, s', f)
    BY <1>2, <1>7, <1>8, <1>9, PlainOne
  <2>2. CurrentKept(s, s')
    BY <1>8, <2>1, OneKeeps
  <2>3. Intents(s, s')
    BY <1>3 DEF Intents
  <2>4. ~Idle(s') /\ s'.operation.id = s.operation.id /\ s'.operation.kind = "run"
    BY <1>1, <1>4, <2>2 DEF CurrentKept
  <2>5. s.tools[New(1)] = None /\ s'.tools[New(1)] # None /\ s'.tools[New(1)].status = "pending"
    <3>1. Good(s) /\ Reduces(s, s', f) /\ f.type = "toolStarted" /\ f \in Facts
      BY <1>2, <1>7, <1>8, <2>1
    <3>2. s.tools[f.id] = None /\ s'.tools[f.id] # None /\ s'.tools[f.id].status = "pending"
      BY <3>1, ToolBegun, Zenon
    <3> QED BY <1>8, <3>2, Zenon
  <2>6. effects[New(1)] = 0
    <3>1. effects[New(1)] \in Nat /\ ~(effects[New(1)] > 0)
      BY <1>2, <1>6, <2>5 DEF IInv, EffectsFit
    <3> QED BY <3>1
  <2>7. /\ job' \in Job /\ job'.op = s.operation.id /\ job'.recovering /\ job'.direct
        /\ job'.tool = New(1)
    BY <1>2, <1>6, <1>9, RecoveringJob DEF Job
  <2>8. ToolFits(s', pc', job', effects, now)
    BY <1>6, <2>5, <2>6, <2>7 DEF ToolFits
  <2>9. WorkerFits(s', pc', job', effects, now)
    BY <1>9, <2>4, <2>7, <2>8 DEF WorkerFits, OperationFits, AttemptFits, AtRun, AtCompaction,
         AtAttempt, ContextFits, AnswerFits, AtAnswer
  <2>10. /\ messages' \in Seq(Id) /\ cancel' = cancel /\ coordination' = coordination
         /\ user' = "idle" /\ now' = now /\ effects' = effects /\ compacted' = compacted
    BY <1>1, <1>2, <1>9 DEF abort, history
  <2>11. pc' \in Places /\ UserFits(pc', job', user')
    BY <1>9, <2>10 DEF Places, UserFits
  <2> QED BY <1>2, <2>1, <2>3, <2>7, <2>9, <2>10, <2>11, Moves
<1>10. CASE s' = s /\ Exit
  BY <1>1, <1>10, RefusedExits
<1> QED BY <1>1, <1>9, <1>10

(* Recovery begins the next step.                                           *)
LEMMA RecoverStepKeeps == ASSUME IInv, RecoverStep PROVE IInv' /\ Intents(s, s')
<1>1. /\ pc = "recover" /\ ~Idle(s) /\ RecoveryPlan.type = "startStep" /\ s' = s
      /\ pc' = (IF s.operation.kind = "run" THEN "step" ELSE "admit")
      /\ job' = [Recovering EXCEPT !.context = RecoveryPlan.context,
                   !.step = RecoveryPlan.step, !.number = RecoveryPlan.number]
      /\ messages' = s.context \/ messages' = messages
      /\ compacted' = compacted /\ now' = now /\ effects' = effects
      /\ cancel' = cancel /\ coordination' = coordination /\ user' = user
  BY DEF RecoverStep, Recovers, Goto, Set, file, session, abort, history
<1>2. /\ s \in State /\ PlanFits(s, now, RecoveryPlan)
      /\ s.operation.id \in Id /\ messages \in Seq(Id) /\ user = "idle" /\ cancel \in BOOLEAN
      /\ s.operation.kind \in {"run", "compaction"}
      /\ coordination \in {"Waiting", "DurableReady", "NonDurable"}
  BY <1>1, RecoveryNow
<1>3. /\ RecoveryPlan.number \in 1..2 /\ RecoveryPlan.step \in Id \cup {None}
      /\ RecoveryPlan.context \in Id
  BY <1>1, <1>2 DEF PlanFits
<1>4. /\ job' \in Job /\ job'.op = s.operation.id /\ job'.recovering
      /\ job'.context = RecoveryPlan.context
  BY <1>1, <1>2, <1>3, RecoveringJob DEF Job
<1>5. FileStep(s, s') /\ Intents(s, s')
  BY <1>1, SameFile DEF IInv
<1>6. WorkerFits(s', pc', job', effects, now)
  BY <1>1, <1>2, <1>3, <1>4 DEF WorkerFits, OperationFits, AttemptFits, AtRun, AtCompaction,
       AtAttempt, ContextFits, AnswerFits, AtAnswer, ToolFits, AtTool
<1>7. pc' \in Places /\ UserFits(pc', job', user')
  BY <1>1, <1>2 DEF Places, UserFits
<1>8. messages' \in Seq(Id)
  BY <1>1, <1>2, Fields
<1>9. /\ cancel' \in BOOLEAN /\ coordination' \in {"Waiting", "DurableReady", "NonDurable"}
      /\ user' \in {"idle", "request", "waiting", "cancel"}
  BY <1>1, <1>2
<1> QED BY <1>1, <1>4, <1>5, <1>6, <1>7, <1>8, <1>9, Moves

-----------------------------------------------------------------------------
(* The terminal thread *)

(* The first of the pending tools names its call.                           *)
LEMMA RequestedCallType ==
  ASSUME s \in State
  PROVE  RequestedCall \in CallId \cup {None}
<1> DEFINE P == PendingTools(s)
           First(t) == \A u \in P : s.tools[t].index <= s.tools[u].index
<1>1. \A t \in P : t \in Id /\ s.tools[t] \in ToolCallState
  <2>1. \A t \in P : t \in Id /\ s.tools[t] # None
    BY Zenon DEF PendingTools, ToolsOf
  <2> QED BY <2>1, Fields
<1>2. \A t \in P : s.tools[t].index \in Nat /\ s.tools[t].call \in CallId
  BY <1>1 DEF ToolCallState
<1> HIDE DEF P
<1>3. ASSUME P # {} PROVE \E t \in P : First(t)
  <2> DEFINE S == {s.tools[t].index : t \in P}
  <2>1. S \in SUBSET Nat /\ S # {}
    BY <1>2, <1>3
  <2>2. PICK k \in S : \A j \in S : k <= j
    <3> HIDE DEF S
    <3> QED BY <2>1, Least
  <2>3. PICK t \in P : s.tools[t].index = k
    OBVIOUS
  <2>4. \A u \in P : s.tools[u].index \in S
    OBVIOUS
  <2>5. First(t)
    BY <2>2, <2>3, <2>4
  <2> QED BY <2>5
<1>4. RequestedCall = IF s.operation.kind = "run" /\ P # {}
                        THEN s.tools[CHOOSE t \in P : First(t)].call ELSE None
  BY Zenon DEF RequestedCall, P
<1> HIDE DEF First
<1>5. P # {} => (CHOOSE t \in P : First(t)) \in P
  BY <1>3, Zenon
<1>6. P # {} => s.tools[CHOOSE t \in P : First(t)].call \in CallId
  BY <1>2, <1>5, Zenon
<1> QED BY <1>4, <1>6

(* What a tool may be replayed for stays.                                   *)
LEMMA MatchesKept ==
  ASSUME NEW t, NEW t1, Good(t), EntriesPersist(t, t1), t1.attempts = t.attempts,
         t1.tools = t.tools, NEW u \in Id, t.tools[u] # None, NEW process, Matches(t, process, u)
  PROVE  Matches(t1, process, u)
<1>1. t.tools[u].assistant \in Id /\ t.entries[t.tools[u].assistant] # None
  BY DEF Good, CallSide, ToolsNameCalls
<1>2. t1.entries[t.tools[u].assistant] = t.entries[t.tools[u].assistant]
  BY <1>1 DEF EntriesPersist
<1> QED BY <1>2, Zenon DEF Matches

(* The abort request of Esc changes nothing the worker relies on.           *)
LEMMA RequestKeeps == ASSUME IInv, Request PROVE IInv' /\ Intents(s, s')
<1> DEFINE f == AbortRequested(s.operation.id, s.operation.kind, Phase, RequestedCall)
<1>1. /\ user = "request" /\ pc' = pc /\ job' = job /\ messages' = messages /\ cancel' = cancel
      /\ coordination' = coordination /\ UNCHANGED <<compacted, now, history>>
      /\ user' \in {"cancel", "waiting"}
      /\ \/ s' = s /\ committed' = committed
         \/ ~Idle(s) /\ s' \in ReduceLine(s, <<f>>)
  BY DEF Request, session
<1>2. /\ UserFits(pc, job, user) /\ job \in Job /\ s \in State /\ FileInv(s) /\ Good(s)
      /\ cancel \in BOOLEAN
  BY DEF IInv, TypeOK, FileInv
<1>3. ~job.recovering /\ pc # "down" /\ pc # "recover"
  BY <1>1, <1>2 DEF UserFits
<1>4. UserFits(pc, job, user')
  BY <1>3 DEF UserFits
<1>5. CASE s' = s /\ committed' = committed
  <2>1. Frame
    BY <1>1, <1>5 DEF Frame, file, session, history
  <2> QED BY <1>1, <1>2, <1>4, <2>1, UserOnly
<1>6. CASE ~Idle(s) /\ s' \in ReduceLine(s, <<f>>)
  <2>1. s.operation.id \in Id /\ s.operation.kind \in {"run", "compaction"}
    BY <1>2, <1>6, CurrentTypes
  <2>2. Phase \in {"model", "tool", "compact"} /\ RequestedCall \in CallId \cup {None}
    BY <1>2, RequestedCallType DEF Phase
  <2>3. f \in Facts
    BY <2>1, <2>2, AbortFactTypes
  <2>4. f.type = "abortRequested"
    BY DEF AbortRequested
  <2> HIDE DEF f
  <2>5. FileStep(s, s') /\ Keeps(s, s', {f})
    BY <1>2, <1>6, <2>3, <2>4, PlainOne
  <2>6. /\ CurrentKept(s, s') /\ StepKept(s, s') /\ Intents(s, s') /\ s'.tools = s.tools
        /\ EntriesPersist(s, s')
    BY <2>4, <2>5, OneKeeps DEF Steady, Keeps
  <2>7. OperationFits(s', pc, job)
    BY <1>6, <2>6 DEF IInv, OperationFits, CurrentKept
  <2>8. AttemptFits(s', pc, job)
    BY <1>6, <2>6 DEF IInv, AttemptFits, StepKept
  <2>9. ToolFits(s', pc, job, effects, now)
    <3>1. ToolFits(s, pc, job, effects, now)
      BY DEF IInv
    <3>2. ASSUME pc \in AtTool, Matches(s, now, job.tool)
          PROVE  Matches(s', now, job.tool)
      <4>1. job.tool \in Id /\ s.tools[job.tool] # None
        BY <3>1, <3>2 DEF ToolFits
      <4> QED BY <1>2, <2>6, <3>2, <4>1, MatchesKept DEF StepKept
    <3> QED BY <2>6, <3>1, <3>2 DEF ToolFits
  <2>10. WorkerFits(s', pc, job, effects, now)
    BY <2>7, <2>8, <2>9 DEF WorkerFits, IInv
  <2>11. /\ messages' \in Seq(Id) /\ coordination' \in {"Waiting", "DurableReady", "NonDurable"}
         /\ user' \in {"idle", "request", "waiting", "cancel"} /\ pc' \in Places
         /\ cancel' \in BOOLEAN
    BY <1>1 DEF IInv, TypeOK, Places
  <2>12. now' = now /\ effects' = effects /\ compacted' = compacted
    BY <1>1 DEF history
  <2>13. IInv'
    BY <1>1, <1>2, <1>4, <2>5, <2>10, <2>11, <2>12, Moves
  <2> QED BY <2>6, <2>13
<1> QED BY <1>1, <1>5, <1>6

-----------------------------------------------------------------------------
(* The invariant is inductive *)

(* It holds of a new session.                                               *)
LEMMA InitInvariant == ASSUME Init PROVE IInv
<1>1. /\ s = InitialState /\ compacted = None /\ pc = "idle" /\ job = NoJob
      /\ messages = << >> /\ cancel = FALSE /\ coordination = "Waiting" /\ user = "idle"
      /\ now \in Setups /\ effects = [i \in Id |-> 0]
  BY DEF Init
<1>2. TypeOK
  <2>1. s \in State
    BY <1>1, InitialType
  <2>2. effects \in [Id -> Nat] /\ messages \in Seq(Id)
    BY <1>1
  <2> QED BY <1>1, <2>1, <2>2, Zenon DEF TypeOK
<1>3. FileInv(s)
  <2>1. Charged(InitialState)
    <3>1. InitialState.usage = 0
      BY DEF InitialState
    <3>2. Cardinality(SettledAttempts(InitialState)) = 0
      BY InitialSettled, FS_EmptySet
    <3> QED BY <3>1, <3>2 DEF Charged
  <2> QED BY <1>1, <2>1, InitialGood, InitialTail DEF FileInv
<1>4. WorkerFits(s, pc, job, effects, now)
  BY <1>1, RestFits DEF AtRest
<1>5. EffectsFit(s, effects)
  BY <1>1 DEF EffectsFit
<1>6. UserFits(pc, job, user)
  BY <1>1 DEF UserFits
<1>7. CompactedFits(s, compacted)
  BY <1>1 DEF CompactedFits, NoCompaction, Idle, InitialState
<1>8. job \in Job
  BY <1>1, NoJobType
<1> QED BY <1>2, <1>3, <1>4, <1>5, <1>6, <1>7, <1>8 DEF IInv, WorkerFits

(* Every action keeps it, and starts no tool of an aborted operation.       *)
LEMMA NextInvariant == ASSUME IInv, Next PROVE IInv' /\ Intents(s, s')
<1>1. CASE Run
  BY <1>1, AutoCompactRests, StartRunKeeps, AdmitStepKeeps, CallModelKeeps, ModelErrorKeeps,
     AbortCloseKeeps, SettleStepKeeps, FinishRunKeeps DEF Run
<1>2. CASE Tools
  BY <1>2, NextStepKeeps, PreExecutionKeeps, StartToolKeeps, CheckStartedKeeps, ExecuteKeeps,
     ToolReturnsKeeps, ToolAbortKeeps, AppendResultKeeps, ToolAbortedKeeps DEF Tools
<1>3. CASE Compact
  BY <1>3, StartCompactionKeeps, AdmitCompactionKeeps, SummarizeKeeps, SummaryErrorKeeps,
     SettleCompactionKeeps, FinishCompactionKeeps DEF Compact
<1>4. CASE Recover
  BY <1>4, RecoveryDoneRests, BlockedRests, RecoverCloseKeeps, RecoverSyntheticKeeps,
     RecoverReplayKeeps, RecoverStartKeeps, RecoverStepKeeps, RecoverFinishKeeps DEF Recover
<1>5. CASE TakePrompt \/ Esc \/ Terminal \/ Crash \/ Quit \/ Restart
  BY <1>5, TakePromptRests, EscKeeps, RequestKeeps, CancelKeeps, CrashRests, QuitRests,
     RestartRests DEF Terminal
<1> QED BY <1>1, <1>2, <1>3, <1>4, <1>5 DEF Next, Worker

(* So does a step that changes nothing.                                     *)
LEMMA StutterInvariant == ASSUME IInv, UNCHANGED vars PROVE IInv' /\ Intents(s, s')
<1>1. /\ Frame /\ pc' = pc /\ job' = job /\ messages' = messages /\ cancel' = cancel
      /\ coordination' = coordination /\ user' = user
  BY DEF vars, Frame, abort, history
<1>2. /\ cancel' \in BOOLEAN /\ user' \in {"idle", "request", "waiting", "cancel"}
      /\ UserFits(pc, job, user')
  BY <1>1 DEF IInv, TypeOK
<1> QED BY <1>1, <1>2, UserOnly

(* The inductive invariant: the file is one the reducer accepted, its usage *)
(* is that of its answers, and the worker holds what its place needs of it. *)
THEOREM Invariance == Spec => []IInv
<1>1. Init => IInv
  BY InitInvariant
<1>2. IInv /\ [Next]_vars => IInv'
  BY NextInvariant, StutterInvariant
<1> QED BY <1>1, <1>2, PTL DEF Spec

-----------------------------------------------------------------------------
(* The active context *)

(* The last n members of a sequence are a suffix of it.                     *)
LEMMA TailSuffix ==
  ASSUME NEW S, NEW T \in Seq(S), NEW k \in 0..Len(T)
  PROVE  IsSuffix(SubSeq(T, k + 1, Len(T)), T)
<1> DEFINE U == SubSeq(T, k + 1, Len(T))
           RU == Reverse(U)
           RT == Reverse(T)
<1>1. Len(T) \in Nat /\ k \in Nat /\ Len(T) - k \in Nat
  OBVIOUS
<1>2. U \in Seq(S) /\ Len(U) = Len(T) - k /\ \A i \in 1..Len(U) : U[i] = T[k + i]
  BY <1>1
<1> HIDE DEF U
<1>3. RU \in [1..Len(U) -> S] /\ RT \in [1..Len(T) -> S]
  <2>1. \A i \in 1..Len(U) : U[(Len(U) - i) + 1] \in S
    BY <1>1, <1>2
  <2>2. \A i \in 1..Len(T) : T[(Len(T) - i) + 1] \in S
    BY <1>1
  <2> QED BY <2>1, <2>2 DEF Reverse
<1>4. /\ \A i \in 1..Len(U) : RU[i] = U[(Len(U) - i) + 1]
      /\ \A i \in 1..Len(T) : RT[i] = T[(Len(T) - i) + 1]
  BY DEF Reverse
<1> HIDE DEF RU, RT
<1>5. RU \in Seq(S) /\ Len(RU) = Len(U) /\ RT \in Seq(S) /\ Len(RT) = Len(T)
  <2>1. Len(U) \in Nat
    BY <1>2
  <2>2. RU \in Seq(S) /\ Len(RU) = Len(U)
    BY <1>3, <2>1
  <2>3. RT \in Seq(S) /\ Len(RT) = Len(T)
    BY <1>1, <1>3
  <2> QED BY <2>2, <2>3
<1>6. \A i \in 1..Len(U) : RU[i] = RT[i]
  <2> TAKE i \in 1..Len(U)
  <2>1. i \in 1..Len(T) /\ (Len(U) - i) + 1 \in 1..Len(U)
        /\ k + ((Len(U) - i) + 1) = (Len(T) - i) + 1
    BY <1>1, <1>2
  <2>2. U[(Len(U) - i) + 1] = T[(Len(T) - i) + 1]
    BY <1>2, <2>1
  <2> QED BY <1>4, <2>1, <2>2
<1>7. Len(RU) <= Len(RT)
  BY <1>1, <1>2, <1>5
<1>8. SubSeq(RU, 1, Len(RU)) = SubSeq(RT, 1, Len(RU))
  <2>1. /\ SubSeq(RU, 1, Len(RU)) = [i \in 1..Len(RU) |-> RU[i]]
        /\ SubSeq(RT, 1, Len(RU)) = [i \in 1..Len(RU) |-> RT[i]]
    BY <1>1, <1>2, <1>5, <1>7
  <2> QED BY <1>5, <1>6, <2>1
<1>9. IsPrefix(RU, RT)
  BY <1>7, <1>8 DEF IsPrefix
<1> QED BY <1>9 DEF IsSuffix, U, RU, RT

(* What the invariant says of the context is what the run checks.           *)
LEMMA ContextTail == ASSUME s \in State, ContextSide(s) PROVE ContextIsTail
<1> DEFINE summaries == {n \in DOMAIN s.order : s.entries[s.order[n]].type = "compaction"}
           last == CHOOSE n \in summaries : \A m \in summaries : m <= n
<1>1. CASE /\ \A n \in DOMAIN s.order : ~Summary(s, n)
           /\ s.context = s.order /\ s.transcript = s.order
  <2>1. summaries = {}
    BY <1>1 DEF Summary
  <2> QED BY <1>1, <2>1, Zenon DEF ContextIsTail
<1>2. CASE \E n \in DOMAIN s.order, k \in 0..Len(s.transcript) :
             /\ Summary(s, n)
             /\ \A m \in DOMAIN s.order : Summary(s, m) => m <= n
             /\ s.context = <<s.order[n]>> \o SubSeq(s.transcript, k + 1, Len(s.transcript))
  <2>1. PICK n \in DOMAIN s.order, k \in 0..Len(s.transcript) :
             /\ Summary(s, n)
             /\ \A m \in DOMAIN s.order : Summary(s, m) => m <= n
             /\ s.context = <<s.order[n]>> \o SubSeq(s.transcript, k + 1, Len(s.transcript))
    BY <1>2
  <2>2. /\ s.order \in Seq(Id) /\ s.transcript \in Seq(Id) /\ n \in Nat
        /\ Len(s.transcript) \in Nat /\ \A m \in DOMAIN s.order : m \in Nat
    BY Fields
  <2>3. n \in summaries /\ \A m \in summaries : m <= n
    BY <2>1 DEF Summary
  <2>4. \A m \in summaries : m \in Nat
    BY <2>2
  <2>5. last \in summaries /\ \A m \in summaries : m <= last
    <3> HIDE DEF summaries
    <3> QED BY <2>3, Zenon
  <2>6. last = n
    <3> HIDE DEF summaries, last
    <3> QED BY <2>2, <2>3, <2>4, <2>5
  <2> DEFINE U == SubSeq(s.transcript, k + 1, Len(s.transcript))
             c == s.order[n]
  <2>7. U \in Seq(Id) /\ c \in Id
    BY <2>2
  <2>8. s.context[1] = c /\ SubSeq(s.context, 2, Len(s.context)) = U
    <3> HIDE DEF U, c
    <3>1. s.context = <<c>> \o U
      BY <2>1 DEF U, c
    <3>2. Len(U) \in Nat /\ Len(s.context) = Len(U) + 1 /\ s.context \in Seq(Id)
      BY <2>7, <3>1
    <3>3. s.context[1] = c /\ \A i \in 1..Len(U) : s.context[i + 1] = U[i]
      BY <2>7, <3>1, <3>2
    <3> DEFINE V == SubSeq(s.context, 2, Len(s.context))
    <3>4. V \in Seq(Id) /\ Len(V) = Len(U) /\ \A i \in 1..Len(V) : V[i] = s.context[i + 1]
      BY <3>2
    <3> HIDE DEF V
    <3>5. \A i \in 1..Len(V) : V[i] = U[i]
      BY <3>3, <3>4
    <3>6. V = U
      BY <2>7, <3>4, <3>5, SeqEqual
    <3> QED BY <3>3, <3>6 DEF V
  <2>9. IsSuffix(U, s.transcript)
    BY <2>2, TailSuffix
  <2>10. summaries # {}
    BY <2>3
  <2>11. s.context[1] = s.order[last]
    BY <2>6, <2>8
  <2>12. IsSuffix(SubSeq(s.context, 2, Len(s.context)), s.transcript)
    BY <2>8, <2>9
  <2> HIDE DEF U, c
  <2> QED BY <2>10, <2>11, <2>12, Zenon DEF ContextIsTail
<1> QED BY <1>1, <1>2 DEF ContextSide

-----------------------------------------------------------------------------
(* The effects *)

(* Nothing but the execution of a tool has one.                             *)
LEMMA OnlyExecute == ASSUME Next PROVE effects' = effects \/ Execute
<1>1. CASE Run
  BY <1>1 DEF Run, AutoCompact, StartRun, AdmitStep, CallModel, ModelError, AbortClose,
     SettleStep, FinishRun, history
<1>2. CASE Tools
  BY <1>2 DEF Tools, NextStep, PreExecutionResult, StartTool, CheckStarted, ToolReturns,
     ToolAbort, AppendResult, ToolAborted, history
<1>3. CASE Compact
  BY <1>3, Zenon DEF Compact, StartCompaction, AdmitCompaction, Summarize, SummaryError,
     SettleCompaction, FinishCompaction, history
<1>4. CASE Recover
  BY <1>4 DEF Recover, RecoveryDone, RecoveryBlocked, RecoverCloseAttempt, RecoverSynthetic,
     RecoverReplay, RecoverStart, RecoverStep, RecoverFinish, history
<1>5. CASE TakePrompt \/ Esc \/ Terminal \/ Crash \/ Quit \/ Restart
  BY <1>5 DEF TakePrompt, Esc, Terminal, Request, Cancel, Crash, Quit, Restart, history
<1> QED BY <1>1, <1>2, <1>3, <1>4, <1>5 DEF Next, Worker

(* A tool that has an effect is pending; a second one it has where it may.  *)
LEMMA EffectAllowed ==
  ASSUME IInv, [Next]_vars, NEW u \in Id, effects'[u] # effects[u]
  PROVE  /\ s.tools[u] # None /\ s.tools[u].status = "pending"
         /\ s.tools[u].call \in s.unanswered
         /\ effects[u] = 0 \/ Matches(s, now, u)
<1>1. Execute
  BY OnlyExecute DEF vars, history
<1>2. /\ pc = "execute"
      /\ effects' = (IF cancel THEN effects ELSE [effects EXCEPT ![job.tool] = @ + 1])
  BY <1>1 DEF Execute
<1>3. u = job.tool
  BY <1>2 DEF IInv, TypeOK
<1>4. /\ s.tools[u] # None /\ s.tools[u].status = "pending"
      /\ effects[u] = 0 \/ Matches(s, now, u)
  BY <1>2, <1>3 DEF IInv, ToolFits, AtTool
<1>5. s.tools[u].call \in s.unanswered
  BY <1>4, PendingUnanswered DEF IInv, FileInv, Good
<1> QED BY <1>4, <1>5

-----------------------------------------------------------------------------
(* What always holds, and what no step does *)

(* The variables keep their types.                                          *)
THEOREM TypeAlways == Spec => []TypeOK
<1>1. IInv => TypeOK
  BY DEF IInv
<1> QED BY <1>1, Invariance, PTL

(* While the worker waits for the provider, the attempt it will settle is   *)
(* the open attempt of the current operation, whatever Esc has written.     *)
THEOREM JobAlwaysCurrent == Spec => []JobIsCurrent
<1>1. IInv => JobIsCurrent
  BY DEF IInv, OperationFits, AttemptFits, JobIsCurrent, AtRun, AtCompaction, AtAttempt
<1> QED BY <1>1, Invariance, PTL

(* A tool that must not be replayed is executed at most once, over any      *)
(* number of crashes and restarts.                                          *)
THEOREM NeverReplayedTwice == Spec => []NeverReplayOnce
<1>1. IInv => NeverReplayOnce
  <2> SUFFICES ASSUME IInv, NEW u \in Id, s.tools[u].replay = "never"
               PROVE  effects[u] <= 1
    BY DEF NeverReplayOnce
  <2>1. effects[u] \in Nat
    BY DEF IInv, TypeOK
  <2>2. effects[u] > 0 => effects[u] <= 1
    BY DEF IInv, EffectsFit
  <2> QED BY <2>1, <2>2
<1> QED BY <1>1, Invariance, PTL

(* Each answer of the provider that the session keeps is charged once.      *)
THEOREM AlwaysChargedOnce == Spec => []ChargedOnce
<1>1. IInv => ChargedOnce
  BY Zenon DEF IInv, FileInv, Charged, ChargedOnce, SettledAttempts
<1> QED BY <1>1, Invariance, PTL

(* The active context is the latest summary and then a suffix of the        *)
(* transcript, or, before any compaction, all of it.                        *)
THEOREM ContextAlwaysTail == Spec => []ContextIsTail
<1>1. IInv => ContextIsTail
  BY ContextTail DEF IInv, TypeOK, FileInv, TailSide
<1> QED BY <1>1, Invariance, PTL

(* An effect only happens between the durable intent and its result.        *)
THEOREM EffectsNeedIntents == Spec => EffectNeedsIntent
<1> DEFINE A == \A t \in Id : effects'[t] # effects[t] =>
                  s.tools[t] # None /\ s.tools[t].status = "pending"
                    /\ s.tools[t].call \in s.unanswered
<1>1. IInv /\ [Next]_vars => [A]_vars
  BY EffectAllowed
<1> QED BY <1>1, Invariance, PTL DEF Spec, EffectNeedsIntent

(* A tool is executed again only where it was started: same environment,    *)
(* same definition, and both declarations safe under the same replay key.   *)
THEOREM ReplaysMatch == Spec => ReplayMatches
<1> DEFINE A == \A t \in Id : effects'[t] > effects[t] /\ effects[t] > 0 =>
       LET tool == s.tools[t]
           config == s.attempts[s.entries[tool.assistant].attempt].config
       IN  /\ tool.replay = "safe" /\ now.replay[tool.name] = "safe"
           /\ tool.key = now.key[tool.name] /\ tool.env = now.env
           /\ config.tools[tool.name] = now.config.tools[tool.name]
<1>1. ASSUME IInv, [Next]_vars PROVE A
  <2>1. ASSUME NEW t \in Id, effects'[t] > effects[t], effects[t] > 0
        PROVE  Matches(s, now, t)
    <3>1. effects[t] \in Nat /\ effects'[t] \in Nat
      BY <1>1, NextInvariant, StutterInvariant DEF IInv, TypeOK
    <3>2. effects'[t] # effects[t] /\ effects[t] # 0
      BY <2>1, <3>1
    <3> QED BY <1>1, <3>2, EffectAllowed
  <2> QED BY <2>1, Zenon DEF Matches
<1>2. IInv /\ [Next]_vars => [A]_vars
  BY <1>1
<1> QED BY <1>2, Invariance, PTL DEF Spec, ReplayMatches

(* Once an abort request is in the file, no tool of the operation starts.   *)
THEOREM NoIntentsAfterAbort == Spec => NoIntentAfterAbort
<1> DEFINE A == \A t \in Id : s.tools[t] = None /\ s'.tools[t] # None => ~s.operation.abort
<1>1. IInv /\ [Next]_vars => [A]_vars
  BY NextInvariant DEF Intents
<1> QED BY <1>1, Invariance, PTL DEF Spec, NoIntentAfterAbort

-----------------------------------------------------------------------------
(***************************************************************************)
(* Calls and compactions: when an operation finishes, the transcript has a *)
(* result for every call of the provider, and a compaction keeps exactly   *)
(* the messages it does not send to be summarised.                         *)
(*                                                                         *)
(* Neither is inductive, not even with the invariant above: the worker     *)
(* finishes a run after counting the calls of the answer in its memory,    *)
(* and recovery after looking for open calls in the transcript and for the *)
(* answer in the attempt, by different fields.  JInv says that the         *)
(* unanswered calls are those of the answer that settled the current step, *)
(* that this answer is the last one that asked, that the worker has        *)
(* reached the first of them, and, as long as a compaction has no summary, *)
(* where the file would cut the context.                                   *)
(***************************************************************************)

-----------------------------------------------------------------------------
(* The calls without a result, and what a compaction keeps *)

(* The current step has no answer.                                          *)
Unsettled(t) == t.operation.step = None \/ t.operation.step.status # "settled"

(* The calls of the worker's answer from the k-th on.                       *)
CallIds(j, k) == {j.answer.calls[n].id : n \in {m \in DOMAIN j.answer.calls : m >= k}}

AtCall == {"tools"} \cup AtTool

(* A step begins, and a run is finished, when every call has its result;    *)
(* while the worker takes the calls, those before the current one have.     *)
CallsFit(t, at, j) ==
  /\ at \in {"step", "finishRun"} => t.unanswered = {}
  /\ at \in AtCall /\ AtAnswer(at, j) => t.unanswered \subseteq CallIds(j, j.index)
  /\ at = "toolAborted" => t.unanswered \subseteq CallIds(j, j.index + 1)
  /\ at \in AtTool /\ AtAnswer(at, j) => t.tools[j.tool].call = j.answer.calls[j.index].id

(* A compaction asks again only for a summary it does not have.             *)
AdmitFits(t, at) == at = "admit" => Unsettled(t)

(* What a compaction will keep, as long as it has no summary.               *)
CutFits ==
  ~NoCompaction(s) /\ Unsettled(s) =>
    Retained(s, compacted) = SubSeq(s.context, Cut + 1, Len(s.context))

JInv == OpenSide(s) /\ CallsFit(s, pc, job) /\ AdmitFits(s, pc) /\ CutFits

(* Without an unanswered call no call is open.                              *)
LEMMA NoneOpen ==
  ASSUME NEW t, Good(t), t.unanswered = {}
  PROVE  OpenSide(t)
<1>1. \A i, k : ~OpenCall(t, i, k)
  BY DEF Good, CallSide, OpenUnanswered
<1> QED BY <1>1, Zenon DEF OpenSide, OpenCurrent, AskedLast

(* Outside the settled step of a run no call is.                            *)
LEMMA NoneAsked ==
  ASSUME NEW t, Good(t), OpenSide(t),
         Idle(t) \/ t.operation.kind # "run" \/ Unsettled(t)
  PROVE  t.unanswered = {}
<1> SUFFICES ASSUME NEW c \in t.unanswered PROVE FALSE
  OBVIOUS
<1>1. UnansweredOpen(t) /\ OpenCurrent(t)
  BY Zenon DEF Good, CallSide, OpenSide
<1>2. PICK i, k : OpenCall(t, i, k)
  BY <1>1, Zenon DEF UnansweredOpen
<1>3. /\ ~Idle(t) /\ t.operation.kind = "run"
      /\ t.operation.step # None /\ t.operation.step.status = "settled"
  BY <1>1, <1>2, Zenon DEF OpenCurrent
<1> QED BY <1>3, Zenon DEF Unsettled

(* Only an answer asks.                                                     *)
LEMMA NoneNew ==
  ASSUME NEW t, NEW t1, NEW F, Keeps(t, t1, F), Without(F, {"assistant"}), t.unanswered = {}
  PROVE  t1.unanswered = {}
<1>1. t1.unanswered \subseteq t.unanswered
  BY Zenon DEF Keeps, KeepsCalls
<1> QED BY <1>1

(* In a run, or outside of operations, only calls may be left open.         *)
LEMMA RunSides ==
  ASSUME IInv, OpenSide(s), NoCompaction(s), Good(s'),
         NEW F, Keeps(s, s', F), Without(F, {"compactionStarted"}),
         F \subseteq {f \in F : f.type \in Steady} \/ s'.unanswered = {}
  PROVE  OpenSide(s') /\ CutFits'
<1>1. OpenSide(s')
  <2>1. CASE F \subseteq {f \in F : f.type \in Steady}
    BY <2>1, Zenon DEF Keeps, KeepsOpen
  <2>2. CASE s'.unanswered = {}
    BY <2>2, NoneOpen
  <2> QED BY <2>1, <2>2
<1>2. NoCompaction(s')
  BY Zenon DEF Keeps, KeepsTail
<1> QED BY <1>1, <1>2, Zenon DEF CutFits

(* The messages are the same, and so is what is cut of them.                *)
LEMMA SilentCut ==
  ASSUME Silent(s, s')
  PROVE  Cut' = Cut
<1>1. s'.entries = s.entries /\ s'.context = s.context
  BY DEF Silent
<1> QED BY <1>1 DEF Cut

(* What does not add messages leaves as it is what a compaction keeps.      *)
LEMMA SilentSides ==
  ASSUME IInv, JInv, IInv', Silent(s, s'), compacted' = compacted,
         ~NoCompaction(s') /\ Unsettled(s') => ~NoCompaction(s) /\ Unsettled(s)
  PROVE  CutFits'
<1> SUFFICES ASSUME ~NoCompaction(s'), Unsettled(s')
             PROVE  Retained(s', compacted') = SubSeq(s'.context, Cut' + 1, Len(s'.context))
  BY Zenon DEF CutFits
<1>1. ~NoCompaction(s) /\ Retained(s, compacted) = SubSeq(s.context, Cut + 1, Len(s.context))
  BY Zenon DEF JInv, CutFits
<1>2. s'.context = s.context /\ s'.transcript = s.transcript /\ s'.order = s.order
  BY DEF Silent
<1>3. \A i : Position(s', i) = Position(s, i)
  BY <1>2, Zenon DEF Position
<1>4. \A i : Through(s', i) = Through(s, i)
  BY <1>2, <1>3 DEF Through
<1>5. s'.operation.input = s.operation.input
  <2>1. InputSide(s) /\ InputSide(s')
    BY Zenon DEF IInv, FileInv, TailSide
  <2> QED BY <1>1, <1>2, <2>1, Zenon DEF InputSide
<1>6. Retained(s', compacted') = Retained(s, compacted)
  BY <1>2, <1>4, <1>5, Zenon DEF Retained
<1> QED BY <1>1, <1>2, <1>6, SilentCut, Zenon

(* A place that holds nothing of the session.                               *)
LEMMA RestsSides ==
  ASSUME OpenSide(s'), CutFits', pc' \in AtRest
  PROVE  JInv'
<1>1. CallsFit(s', pc', job') /\ AdmitFits(s', pc')
  BY DEF CallsFit, AdmitFits, AtCall, AtTool, AtRest
<1> QED BY <1>1, Zenon DEF JInv

(* A step that leaves the file alone.                                       *)
LEMMA SameSides ==
  ASSUME JInv, s' = s, compacted' = compacted,
         CallsFit(s, pc', job'), AdmitFits(s, pc')
  PROVE  JInv'
<1>1. OpenSide(s') /\ CallsFit(s', pc', job') /\ AdmitFits(s', pc')
  BY Zenon DEF JInv
<1>2. CutFits'
  BY Zenon DEF JInv, CutFits, Cut, Retained, Unsettled, NoCompaction, Through, Position, Idle
<1> QED BY <1>1, <1>2, Zenon DEF JInv

(* So is one to such a place.                                               *)
LEMMA SameRests ==
  ASSUME JInv, s' = s, compacted' = compacted, pc' \in AtRest
  PROVE  JInv'
<1>1. CallsFit(s, pc', job') /\ AdmitFits(s, pc')
  BY DEF CallsFit, AdmitFits, AtCall, AtTool, AtRest
<1> QED BY <1>1, SameSides

(* A line that is refused.                                                  *)
LEMMA RefusedSides ==
  ASSUME JInv, s' = s, Exit, UNCHANGED <<compacted, now, history, left>>
  PROVE  JInv'
<1>1. pc' \in AtRest /\ compacted' = compacted
  BY DEF Exit, AtRest
<1> QED BY <1>1, SameRests

(* The worker returns or ends.                                              *)
LEMMA ReturnAtRest ==
  ASSUME Return \/ Exit
  PROVE  pc' \in AtRest
BY DEF Return, Exit, Goto, AtRest

(* The steps that append nothing and end at such a place, or leave the      *)
(* worker alone.                                                            *)
LEMMA FrameSides ==
  ASSUME JInv,
         \/ TakePrompt \/ AutoCompact \/ Crash \/ Quit \/ RecoveryBlocked \/ Restart
         \/ RecoveryDone \/ Esc \/ Cancel
  PROVE  JInv'
<1>1. CASE TakePrompt \/ AutoCompact
  <2>1. s' = s /\ compacted' = compacted /\ pc' \in AtRest
    BY <1>1 DEF TakePrompt, AutoCompact, Goto, AtRest, file, session
  <2> QED BY <2>1, SameRests
<1>2. CASE Crash \/ Quit \/ RecoveryBlocked
  <2>1. s' = s /\ compacted' = compacted /\ pc' \in AtRest
    BY <1>2 DEF Crash, Quit, RecoveryBlocked, Exit, AtRest, file, session
  <2> QED BY <2>1, SameRests
<1>3. CASE Restart \/ RecoveryDone
  <2>1. s' = s /\ compacted' = compacted /\ pc' \in AtRest
    BY <1>3 DEF Restart, RecoveryDone, Goto, AtRest, file, session
  <2> QED BY <2>1, SameRests
<1>4. CASE Esc \/ Cancel
  <2>1. s' = s /\ compacted' = compacted /\ pc' = pc /\ job' = job
    BY <1>4 DEF Esc, Cancel, file, session
  <2>2. CallsFit(s, pc', job') /\ AdmitFits(s, pc')
    BY <2>1, Zenon DEF JInv
  <2> QED BY <2>1, <2>2, SameSides
<1> QED BY <1>1, <1>2, <1>3, <1>4

(* While an attempt is open, no call is.                                    *)
LEMMA AttemptAsksNone ==
  ASSUME IInv, JInv, pc \in AtAttempt
  PROVE  Unsettled(s) /\ s.unanswered = {}
<1>1. Unsettled(s)
  BY DEF IInv, AttemptFits, Unsettled
<1> QED BY <1>1, NoneAsked DEF JInv, IInv, FileInv

(* The provider answers, or fails.                                          *)
LEMMA CallModelSides ==
  ASSUME JInv, CallModel
  PROVE  JInv'
<1>1. s' = s /\ compacted' = compacted /\ pc' \in {"answered", "modelError"}
  BY DEF CallModel, Goto, file, session
<1>2. CallsFit(s, pc', job') /\ AdmitFits(s, pc')
  BY <1>1 DEF CallsFit, AdmitFits, AtCall, AtTool
<1> QED BY <1>1, <1>2, SameSides

(* Lines that only end things, and cannot leave a call open.                *)
LEMMA ClosingSides ==
  ASSUME IInv, JInv, IInv', pc \in AtRun, NEW facts \in Seq(Closing),
         s' \in ReduceLine(s, facts), s'.unanswered = {}
  PROVE  OpenSide(s') /\ CutFits'
<1>1. FileInv(s) /\ NoCompaction(s) /\ Good(s')
  BY RunNow DEF IInv, FileInv
<1>2. Keeps(s, s', Members(facts))
  BY <1>1, ClosingLine
<1>3. Without(Members(facts), {"compactionStarted"})
  <2>1. Len(facts) \in Nat /\ \A n \in 1..Len(facts) : facts[n] \in Closing
    OBVIOUS
  <2> QED BY <2>1, Zenon DEF Members, Without, Closing
<1> QED BY <1>1, <1>2, <1>3, RunSides DEF JInv

(* Such a line opens no call.                                               *)
LEMMA ClosingNoneNew ==
  ASSUME IInv, pc \in AtRun, NEW facts \in Seq(Closing), s' \in ReduceLine(s, facts)
  PROVE  /\ s'.unanswered \subseteq s.unanswered
         /\ \A f \in Members(facts) :
              f.type \in {"synthetic", "result"} => f.call \notin s'.unanswered
<1>1. FileInv(s) /\ NoCompaction(s)
  BY RunNow
<1>2. Keeps(s, s', Members(facts))
  BY <1>1, ClosingLine
<1>3. Without(Members(facts), {"assistant"})
  <2>1. Len(facts) \in Nat /\ \A n \in 1..Len(facts) : facts[n] \in Closing
    OBVIOUS
  <2> QED BY <2>1, Zenon DEF Members, Without, Closing
<1> QED BY <1>2, <1>3, Zenon DEF Keeps, KeepsCalls

-----------------------------------------------------------------------------
(* The calls the worker still has to answer *)

(* The calls after the k-th, and those after the last.                      *)
LEMMA CallIdsNext ==
  ASSUME NEW j, NEW j1, j1.answer = j.answer, j.answer.calls \in Seq(Call), NEW k \in Nat
  PROVE  /\ \A c \in CallIds(j, k) : c # j.answer.calls[k].id => c \in CallIds(j1, k + 1)
         /\ k > Len(j.answer.calls) => CallIds(j, k) = {}
         /\ CallIds(j1, k) = CallIds(j, k)
<1>1. DOMAIN j.answer.calls = 1..Len(j.answer.calls) /\ Len(j.answer.calls) \in Nat
  OBVIOUS
<1>2. ASSUME NEW c \in CallIds(j, k), c # j.answer.calls[k].id
      PROVE  c \in CallIds(j1, k + 1)
  <2>1. PICK n \in DOMAIN j.answer.calls : n >= k /\ c = j.answer.calls[n].id
    BY DEF CallIds
  <2>2. n >= k + 1
    BY <1>1, <1>2, <2>1
  <2> QED BY <2>1, <2>2 DEF CallIds
<1>3. k > Len(j.answer.calls) => CallIds(j, k) = {}
  BY <1>1 DEF CallIds
<1>4. CallIds(j1, k) = CallIds(j, k)
  BY DEF CallIds
<1> QED BY <1>2, <1>3, <1>4

(* What is not called any more has its result.                              *)
LEMMA NoCallIds ==
  ASSUME NEW j, NEW k \in Nat, j.answer.calls \in Seq(Call), k > Len(j.answer.calls)
  PROVE  CallIds(j, k) = {}
BY CallIdsNext

(* The skipped results answer the calls from the k-th on.                   *)
LEMMA SkippedCalls ==
  ASSUME job.answer.calls \in Seq(Call), NEW k \in Nat \ {0}, NEW c \in CallIds(job, k)
  PROVE  \E f \in Members(Skipped(k)) : f.type = "synthetic" /\ f.call = c
<1> DEFINE L == Len(job.answer.calls)
<1>1. PICK n \in DOMAIN job.answer.calls : n >= k /\ c = job.answer.calls[n].id
  BY DEF CallIds
<1>2. n \in Nat /\ L \in Nat /\ n <= L
  BY <1>1
<1>3. n - k + 1 \in 1..(L - k + 1) /\ k + (n - k + 1) - 1 = n /\ L - k + 1 \in Nat
  BY <1>1, <1>2
<1>4. Skipped(k) = [m \in 1..(L - k + 1) |->
                      SyntheticToolResult(New(m), job.step, job.assistant, k + m - 1,
                                          job.answer.calls[k + m - 1])]
  BY Zenon DEF Skipped
<1>5. Skipped(k)[n - k + 1] = SyntheticToolResult(New(n - k + 1), job.step, job.assistant, n,
                                                  job.answer.calls[n])
  BY <1>3, <1>4
<1>6. Len(Skipped(k)) = L - k + 1
  BY <1>3, <1>4
<1>7. Skipped(k)[n - k + 1] \in Members(Skipped(k))
  BY <1>3, <1>6, Zenon DEF Members
<1>8. /\ Skipped(k)[n - k + 1].type = "synthetic"
      /\ Skipped(k)[n - k + 1].call = c
  BY <1>1, <1>5 DEF SyntheticToolResult
<1> QED BY <1>7, <1>8, Zenon

(* The facts of two lines one after the other.                              *)
LEMMA MembersJoined ==
  ASSUME NEW S, NEW a \in Seq(S), NEW b \in Seq(S)
  PROVE  \A f : f \in Members(a) \/ f \in Members(b) => f \in Members(a \o b)
<1>1. Len(a) \in Nat /\ Len(b) \in Nat /\ Len(a \o b) = Len(a) + Len(b)
  OBVIOUS
<1>2. ASSUME NEW f \in Members(a) PROVE f \in Members(a \o b)
  <2>1. PICK n \in 1..Len(a) : f = a[n]
    BY DEF Members
  <2>2. n \in 1..Len(a \o b) /\ (a \o b)[n] = a[n]
    BY <1>1, <2>1
  <2> QED BY <2>1, <2>2, Zenon DEF Members
<1>3. ASSUME NEW f \in Members(b) PROVE f \in Members(a \o b)
  <2>1. PICK n \in 1..Len(b) : f = b[n]
    BY DEF Members
  <2>2. Len(a) + n \in 1..Len(a \o b) /\ (a \o b)[Len(a) + n] = b[n]
    BY <1>1, <2>1
  <2> QED BY <2>1, <2>2, Zenon DEF Members
<1> QED BY <1>2, <1>3

(* A closing line with the results of the calls from the k-th on, and of    *)
(* those before them that have none, leaves no call open.                   *)
LEMMA SkippedSides ==
  ASSUME IInv, JInv, IInv', pc \in AtRun, job.answer.calls \in Seq(Call), NEW k \in Nat \ {0},
         NEW facts \in Seq(Closing), s' \in ReduceLine(s, facts),
         \A f \in Members(Skipped(k)) : f \in Members(facts),
         \A c \in s.unanswered : \/ c \in CallIds(job, k)
                                 \/ \E f \in Members(facts) : f.type = "result" /\ f.call = c
  PROVE  OpenSide(s') /\ CutFits'
<1>1. /\ s'.unanswered \subseteq s.unanswered
      /\ \A f \in Members(facts) :
           f.type \in {"synthetic", "result"} => f.call \notin s'.unanswered
  BY ClosingNoneNew
<1>2. ASSUME NEW c \in s'.unanswered PROVE FALSE
  <2>1. c \in s.unanswered
    BY <1>1
  <2>2. CASE c \in CallIds(job, k)
    <3>1. PICK f \in Members(Skipped(k)) : f.type = "synthetic" /\ f.call = c
      BY <2>2, SkippedCalls
    <3> QED BY <1>1, <3>1
  <2>3. CASE \E f \in Members(facts) : f.type = "result" /\ f.call = c
    BY <1>1, <2>3
  <2> QED BY <2>1, <2>2, <2>3
<1>3. s'.unanswered = {}
  BY <1>2
<1> QED BY <1>3, ClosingSides

-----------------------------------------------------------------------------
(* The model loop leaves no call open *)

(* A step begins when every call has its result.                            *)
LEMMA AdmitStepSides == ASSUME IInv, JInv, IInv', AdmitStep PROVE JInv'
<1> DEFINE step == IF job.step = None THEN New(2) ELSE job.step
           f == StepAttempt(job.op, step, New(1), "run", job.number, job.context, now.config)
<1>1. /\ pc = "step" /\ Room(2) /\ UNCHANGED <<compacted, now, history, left>>
      /\ \/ s' \in ReduceLine(s, <<f>>) /\ pc' \in {"model", "modelError"}
         \/ s' = s /\ Exit
  BY Zenon DEF AdmitStep, Commit, CommitOr, Goto, session
<1>2. pc \in AtRun /\ job \in Job /\ s \in State /\ s.unanswered = {}
  BY <1>1 DEF AtRun, IInv, TypeOK, JInv, CallsFit
<1>3. job.op \in Id /\ NoCompaction(s) /\ FileInv(s) /\ now.config \in ConfigurationSnapshot
  BY <1>2, RunNow
<1>4. New(1) \in Id /\ New(2) \in Id
  BY <1>1, <1>2, Allocates
<1>5. step \in Id /\ job.context \in Id /\ job.number \in 1..2
  BY <1>1, <1>2, <1>4 DEF IInv, Job, ContextFits
<1>6. f \in Facts
  BY <1>3, <1>4, <1>5, AttemptFactTypes
<1>7. f.type = "stepAttempt"
  BY DEF StepAttempt
<1> HIDE DEF f, step
<1>8. CASE s' \in ReduceLine(s, <<f>>) /\ pc' \in {"model", "modelError"}
  <2>1. Keeps(s, s', {f})
    BY <1>3, <1>6, <1>7, <1>8, PlainOne
  <2>2. Without({f}, {"assistant"}) /\ Without({f}, {"compactionStarted"})
    BY <1>7 DEF Without
  <2>3. s'.unanswered = {}
    BY <1>2, <2>1, <2>2, NoneNew
  <2>4. OpenSide(s') /\ CutFits'
    BY <1>3, <2>1, <2>2, <2>3, RunSides DEF JInv, IInv, FileInv
  <2>5. CallsFit(s', pc', job') /\ AdmitFits(s', pc')
    BY <1>8 DEF CallsFit, AdmitFits, AtCall, AtTool
  <2> QED BY <2>4, <2>5, Zenon DEF JInv
<1>9. CASE s' = s /\ Exit
  BY <1>1, <1>9, RefusedSides
<1> QED BY <1>1, <1>8, <1>9

(* A failed request leaves no call.                                         *)
LEMMA ModelErrorSides == ASSUME IInv, JInv, IInv', ModelError PROVE JInv'
<1> DEFINE facts == <<StepFailed(job.op, job.step, job.attempt), Finished("failed", None)>>
<1>1. /\ pc = "modelError" /\ UNCHANGED <<compacted, now, history, left>>
      /\ \/ s' = s /\ pc' = "abortClose"
         \/ s' \in ReduceLine(s, facts) /\ Exit
         \/ s' = s /\ Exit
  BY Zenon DEF ModelError, Commit, CommitOr, Goto, session
<1>2. pc \in AtRun /\ pc \in AtAttempt /\ AttemptFits(s, pc, job)
  BY <1>1 DEF AtRun, AtAttempt, IInv
<1>3. job.step \in Id /\ job.attempt \in Id
  BY <1>1, <1>2 DEF AttemptFits, AtAttempt
<1>4. facts \in Seq(Closing)
  BY <1>2, <1>3, ClosingFacts DEF Outcome
<1> HIDE DEF facts
<1>5. CASE s' = s /\ pc' = "abortClose"
  <2>1. CallsFit(s, pc', job') /\ AdmitFits(s, pc')
    BY <1>5 DEF CallsFit, AdmitFits, AtCall, AtTool
  <2> QED BY <1>1, <1>5, <2>1, SameSides
<1>6. CASE s' \in ReduceLine(s, facts) /\ Exit
  <2>1. s'.unanswered \subseteq s.unanswered
    BY <1>2, <1>4, <1>6, ClosingNoneNew
  <2>2. s'.unanswered = {}
    BY <1>2, <2>1, AttemptAsksNone
  <2> QED BY <1>2, <1>4, <1>6, <2>2, ClosingSides, ReturnAtRest, RestsSides
<1>7. CASE s' = s /\ Exit
  BY <1>1, <1>7, RefusedSides
<1> QED BY <1>1, <1>5, <1>6, <1>7

(* Nor does an aborted one.                                                 *)
LEMMA AbortCloseSides == ASSUME IInv, JInv, IInv', AbortClose PROVE JInv'
<1> DEFINE request == <<AbortRequested(job.op, "run", "model", None)>>
           ends == <<StepFailed(job.op, job.step, job.attempt), Finished("aborted", None)>>
           facts == (IF job.flag THEN << >> ELSE request) \o ends
<1>1. /\ pc = "abortClose" /\ UNCHANGED <<compacted, now, history, left>>
      /\ \/ s' \in ReduceLine(s, facts) /\ Return
         \/ s' = s /\ Exit
  BY Zenon DEF AbortClose, Commit, CommitOr, session
<1>2. pc \in AtRun /\ pc \in AtAttempt /\ AttemptFits(s, pc, job)
  BY <1>1 DEF AtRun, AtAttempt, IInv
<1>3. job.step \in Id /\ job.attempt \in Id
  BY <1>1, <1>2 DEF AttemptFits, AtAttempt
<1>4. ends \in Seq(Closing)
  BY <1>2, <1>3, ClosingFacts DEF Outcome
<1>5. request \in Seq(Closing) /\ << >> \in Seq(Closing)
  BY <1>2, ClosingFacts
<1> HIDE DEF request, ends
<1>6. facts \in Seq(Closing)
  BY <1>4, <1>5
<1> HIDE DEF facts
<1>7. CASE s' \in ReduceLine(s, facts) /\ Return
  <2>1. s'.unanswered \subseteq s.unanswered
    BY <1>2, <1>6, <1>7, ClosingNoneNew
  <2>2. s'.unanswered = {}
    BY <1>2, <2>1, AttemptAsksNone
  <2> QED BY <1>2, <1>6, <1>7, <2>2, ClosingSides, ReturnAtRest, RestsSides
<1>8. CASE s' = s /\ Exit
  BY <1>1, <1>8, RefusedSides
<1> QED BY <1>1, <1>7, <1>8

(* A run is finished when every call has its result.                        *)
LEMMA FinishRunSides == ASSUME IInv, JInv, IInv', FinishRun PROVE JInv'
<1> DEFINE good == <<Finished("completed", job.assistant)>>
           bad == <<Finished("failed", None)>>
<1>1. /\ pc = "finishRun" /\ UNCHANGED <<compacted, now, history, left>>
      /\ \/ s' \in ReduceLine(s, good) /\ Return
         \/ s' \in ReduceLine(s, bad) /\ Exit
         \/ s' = s /\ Exit
  BY Zenon DEF FinishRun, Commit, CommitOr, session
<1>2. pc \in AtRun /\ job \in Job /\ s.unanswered = {}
  BY <1>1 DEF AtRun, IInv, JInv, CallsFit
<1>3. good \in Seq(Closing) /\ bad \in Seq(Closing)
  BY <1>2, ClosingFacts DEF Outcome, Job
<1> HIDE DEF good, bad
<1>4. ASSUME NEW facts \in Seq(Closing), s' \in ReduceLine(s, facts), Return \/ Exit
      PROVE  JInv'
  <2>1. s'.unanswered \subseteq s.unanswered
    BY <1>2, <1>4, ClosingNoneNew
  <2>2. s'.unanswered = {}
    BY <1>2, <2>1
  <2> QED BY <1>2, <1>4, <2>2, ClosingSides, ReturnAtRest, RestsSides
<1>5. CASE s' = s /\ Exit
  BY <1>1, <1>5, RefusedSides
<1> QED BY <1>1, <1>3, <1>4, <1>5

-----------------------------------------------------------------------------
(* The tools answer the calls one by one *)

(* A line of one fact that names no step, in a run.                         *)
LEMMA SteadySides ==
  ASSUME IInv, JInv, IInv', pc \in AtRun, NEW f \in Facts, f.type \in Steady,
         s' \in ReduceLine(s, <<f>>), Keeps(s, s', {f})
  PROVE  /\ OpenSide(s') /\ CutFits' /\ s'.unanswered \subseteq s.unanswered
         /\ f.type \in {"synthetic", "result"} => f.call \notin s'.unanswered
<1>1. Without({f}, {"assistant"}) /\ Without({f}, {"compactionStarted"})
      /\ {f} \subseteq {g \in {f} : g.type \in Steady}
  BY DEF Without, Steady
<1>2. Good(s') /\ NoCompaction(s)
  BY RunNow DEF IInv, FileInv
<1>3. OpenSide(s') /\ CutFits'
  BY <1>1, <1>2, RunSides DEF JInv
<1> QED BY <1>1, <1>3, Zenon DEF Keeps, KeepsCalls

(* After the last call every call has its result.                           *)
LEMMA NextStepSides == ASSUME IInv, JInv, NextStep PROVE JInv'
<1>1. /\ pc = "tools" /\ job.index > Len(job.answer.calls) /\ s' = s /\ pc' = "step"
      /\ compacted' = compacted
  BY DEF NextStep, Goto, file, session
<1>2. pc \in AtRun /\ AtAnswer(pc, job) /\ pc \in AtCall
  BY <1>1 DEF AtRun, AtAnswer, AtCall
<1>3. /\ job.answer.calls \in Seq(Call) /\ Len(job.answer.calls) \in Nat
      /\ job.index \in 1..(Len(job.answer.calls) + 1)
  BY <1>1, <1>2, AnswerNow
<1>4. CallIds(job, job.index) = {}
  BY <1>1, <1>3, NoCallIds
<1>5. s.unanswered = {}
  BY <1>2, <1>4 DEF JInv, CallsFit
<1>6. CallsFit(s, pc', job') /\ AdmitFits(s, pc')
  BY <1>1, <1>5 DEF CallsFit, AdmitFits, AtCall, AtTool
<1> QED BY <1>1, <1>6, SameSides

(* A call that is not executed has its result.                              *)
LEMMA PreExecutionSides == ASSUME IInv, JInv, IInv', PreExecutionResult PROVE JInv'
<1> DEFINE f == SyntheticToolResult(New(1), job.step, job.assistant, job.index, ToolCall)
<1>1. /\ pc = "tools" /\ job.index <= Len(job.answer.calls) /\ Room(1)
      /\ UNCHANGED <<compacted, now, history, left>>
      /\ \/ s' \in ReduceLine(s, <<f>>) /\ pc' = pc /\ job' = Answered(New(1))
         \/ s' = s /\ Exit
  BY Zenon DEF PreExecutionResult, Commit, CommitOr, Goto, Set, session
<1>2. pc \in AtRun /\ AtAnswer(pc, job) /\ pc \in AtCall
  BY <1>1 DEF AtRun, AtAnswer, AtCall
<1>3. FileInv(s) /\ NoCompaction(s) /\ s \in State
  BY <1>2, RunNow
<1>4. /\ job \in Job /\ job.answer.calls \in Seq(Call) /\ Len(job.answer.calls) \in Nat \ {0}
      /\ job.step \in Id /\ job.assistant \in Id
      /\ job.index \in 1..(Len(job.answer.calls) + 1)
  BY <1>1, <1>2, AnswerNow
<1>5. New(1) \in Id
  BY <1>1, <1>3, Allocates
<1>6. ToolCall \in Call /\ job.index \in Nat
  BY <1>1, <1>4 DEF ToolCall
<1>7. f \in Closing
  BY <1>2, <1>4, <1>5, <1>6, ClosingResults
<1>8. f.type = "synthetic" /\ f.call = job.answer.calls[job.index].id
  BY DEF SyntheticToolResult, ToolCall
<1> HIDE DEF f
<1>9. CASE s' \in ReduceLine(s, <<f>>) /\ pc' = pc /\ job' = Answered(New(1))
  <2>1. Keeps(s, s', {f})
    BY <1>3, <1>7, <1>8, <1>9, PlainOne DEF Closing
  <2>2. /\ OpenSide(s') /\ CutFits' /\ s'.unanswered \subseteq s.unanswered
        /\ job.answer.calls[job.index].id \notin s'.unanswered
    BY <1>2, <1>7, <1>8, <1>9, <2>1, SteadySides DEF Closing, Steady
  <2>3. job'.answer = job.answer /\ job'.index = job.index + 1
    <3>1. job' = [job EXCEPT !.index = @ + 1, !.last = New(1), !.tool = None]
      BY <1>9 DEF Answered
    <3> QED BY <1>4, <3>1 DEF Job
  <2>4. s.unanswered \subseteq CallIds(job, job.index)
    BY <1>2 DEF JInv, CallsFit
  <2>5. s'.unanswered \subseteq CallIds(job', job'.index)
    BY <1>4, <1>6, <2>2, <2>3, <2>4, CallIdsNext
  <2>6. CallsFit(s', pc', job') /\ AdmitFits(s', pc')
    BY <1>1, <1>9, <2>5 DEF CallsFit, AdmitFits, AtTool
  <2> QED BY <2>2, <2>6, Zenon DEF JInv
<1>10. CASE s' = s /\ Exit
  BY <1>1, <1>10, RefusedSides
<1> QED BY <1>1, <1>9, <1>10

(* A tool is started for the current call, or the calls are skipped.        *)
LEMMA StartToolSides == ASSUME IInv, JInv, IInv', StartTool PROVE JInv'
<1> DEFINE f == ToolStarted(New(1), job.op, job.step, job.assistant, job.index, ToolCall,
                            now.replay[ToolCall.name], now.key[ToolCall.name], now.env, New(2))
           facts == Skipped(job.index) \o <<Finished("aborted", None)>>
<1>1. /\ pc = "tools" /\ job.index <= Len(job.answer.calls) /\ Room(2)
      /\ Room(Len(job.answer.calls) - job.index + 1)
      /\ UNCHANGED <<compacted, now, history, left>>
      /\ \/ /\ s' \in ReduceLine(s, <<f>>) /\ pc' = "started"
            /\ job' = [job EXCEPT !.tool = New(1)]
         \/ s' \in ReduceLine(s, facts) /\ Return
         \/ s' = s /\ Exit
  BY Zenon DEF StartTool, Commit, CommitOr, Goto, Set, session
<1>2. pc \in AtRun /\ AtAnswer(pc, job) /\ pc \in AtCall
  BY <1>1 DEF AtRun, AtAnswer, AtCall
<1>3. /\ FileInv(s) /\ NoCompaction(s) /\ s \in State /\ job.op \in Id /\ now \in Setups
      /\ Good(s)
  BY <1>2, RunNow
<1>4. /\ job \in Job /\ job.answer \in Answers
      /\ job.answer.calls \in Seq(Call) /\ Len(job.answer.calls) \in Nat \ {0}
      /\ job.step \in Id /\ job.assistant \in Id
      /\ job.index \in 1..(Len(job.answer.calls) + 1)
  BY <1>1, <1>2, AnswerNow
<1>5. New(1) \in Id /\ New(2) \in Id
  BY <1>1, <1>3, Allocates
<1>6. ToolCall \in Call /\ job.index \in Nat \ {0}
  <2>1. job.index \in Nat \ {0} /\ job.index \in 1..Len(job.answer.calls)
    BY <1>1, <1>4
  <2> QED BY <1>4, <2>1 DEF ToolCall
<1>7. f \in Facts
  BY <1>3, <1>4, <1>5, <1>6, ToolFactTypes
<1>8. f.type = "toolStarted" /\ f.id = New(1) /\ f.call = job.answer.calls[job.index].id
  BY DEF ToolStarted, ToolCall
<1>9. Skipped(job.index) \in Seq(Closing) /\ <<Finished("aborted", None)>> \in Seq(Closing)
  <2>1. Skipped(job.index) \in Seq(Closing)
    BY <1>1, <1>2, <1>4, <1>6, SkippedFacts
  <2>2. Finished("aborted", None) \in Closing
    BY <1>2, ClosingFacts DEF Outcome
  <2> QED BY <2>1, <2>2
<1>10. facts \in Seq(Closing) /\ \A g \in Members(Skipped(job.index)) : g \in Members(facts)
  BY <1>9, MembersJoined
<1>11. s.unanswered \subseteq CallIds(job, job.index)
  BY <1>2 DEF JInv, CallsFit
<1> HIDE DEF f, facts
<1>12. CASE s' \in ReduceLine(s, <<f>>) /\ pc' = "started" /\ job' = [job EXCEPT !.tool = New(1)]
  <2>1. Keeps(s, s', {f}) /\ Reduces(s, s', f)
    BY <1>3, <1>7, <1>8, <1>12, PlainOne
  <2>2. OpenSide(s') /\ CutFits' /\ s'.unanswered \subseteq s.unanswered
    BY <1>2, <1>7, <1>8, <1>12, <2>1, SteadySides DEF Steady
  <2>3. s'.tools[New(1)].call = job.answer.calls[job.index].id
    <3>1. s'.tools[f.id].call = f.call
      BY <1>3, <1>7, <1>8, <2>1, ToolBegun
    <3> QED BY <1>8, <3>1, Zenon
  <2>4. job'.answer = job.answer /\ job'.index = job.index /\ job'.tool = New(1)
    BY <1>4, <1>12 DEF Job
  <2>5. s'.unanswered \subseteq CallIds(job', job'.index)
    BY <1>11, <2>2, <2>4 DEF CallIds
  <2>6. CallsFit(s', pc', job') /\ AdmitFits(s', pc')
    BY <1>12, <2>3, <2>4, <2>5 DEF CallsFit, AdmitFits, AtCall, AtTool
  <2> QED BY <2>2, <2>6, Zenon DEF JInv
<1>13. CASE s' \in ReduceLine(s, facts) /\ Return
  <2>1. OpenSide(s') /\ CutFits'
    BY <1>2, <1>4, <1>6, <1>10, <1>11, <1>13, SkippedSides
  <2> QED BY <1>13, <2>1, ReturnAtRest, RestsSides
<1>14. CASE s' = s /\ Exit
  BY <1>1, <1>14, RefusedSides
<1> QED BY <1>1, <1>12, <1>13, <1>14

(* What is said of the tool of the current call.                            *)
LEMMA ToolAsks ==
  ASSUME IInv, JInv, pc \in AtTool, AtAnswer(pc, job)
  PROVE  /\ pc \in AtRun /\ pc \in AtCall
         /\ s.unanswered \subseteq CallIds(job, job.index)
         /\ s.tools[job.tool].call = job.answer.calls[job.index].id
         /\ Result(job.tool).type = "result"
         /\ Result(job.tool).call = job.answer.calls[job.index].id
<1>1. pc \in AtRun /\ pc \in AtCall /\ Result(job.tool).type = "result"
  BY ToolNow DEF AtCall
<1>2. /\ s.unanswered \subseteq CallIds(job, job.index)
      /\ s.tools[job.tool].call = job.answer.calls[job.index].id
  BY <1>1 DEF JInv, CallsFit
<1>3. Result(job.tool).call = s.tools[job.tool].call
  BY DEF Result, ToolResult
<1> QED BY <1>1, <1>2, <1>3

(* A started tool that is not executed has its result, and so do the calls  *)
(* after it.                                                                *)
LEMMA CheckStartedSides == ASSUME IInv, JInv, IInv', CheckStarted PROVE JInv'
<1> DEFINE head == <<Result(job.tool)>>
           skipped == Skipped(job.index + 1)
           end == <<Finished("aborted", None)>>
           facts == head \o skipped \o end
<1>1. /\ pc = "started" /\ Room(Len(job.answer.calls) - job.index)
      /\ UNCHANGED <<compacted, now, history, left>>
      /\ \/ s' \in ReduceLine(s, facts) /\ Return
         \/ s' = s /\ Exit
         \/ s' = s /\ pc' = "execute" /\ job' = job
  BY Zenon DEF CheckStarted, Commit, CommitOr, Goto, session
<1>2. pc \in AtTool /\ AtAnswer(pc, job)
  BY <1>1 DEF AtTool, AtAnswer
<1>3. pc \in AtRun /\ job \in Job /\ Result(job.tool) \in Closing
  BY <1>2, ToolNow
<1>4. /\ job.answer \in Answers /\ Len(job.answer.calls) \in Nat \ {0}
      /\ job.step \in Id /\ job.assistant \in Id /\ job.answer.calls \in Seq(Call)
      /\ job.index \in 1..(Len(job.answer.calls) + 1) /\ job.index <= Len(job.answer.calls)
  BY <1>1, <1>2, <1>3, AnswerNow
<1>5. /\ s.unanswered \subseteq CallIds(job, job.index) /\ Result(job.tool).type = "result"
      /\ Result(job.tool).call = job.answer.calls[job.index].id
      /\ s.tools[job.tool].call = job.answer.calls[job.index].id
  BY <1>2, ToolAsks
<1>6. job.index + 1 \in Nat \ {0} /\ job.index \in Nat
  BY <1>4
<1>7. head \in Seq(Closing) /\ skipped \in Seq(Closing) /\ end \in Seq(Closing)
  <2>1. /\ job.index + 1 <= Len(job.answer.calls) + 1
        /\ Len(job.answer.calls) - (job.index + 1) + 1 = Len(job.answer.calls) - job.index
    BY <1>4
  <2>2. skipped \in Seq(Closing)
    BY <1>1, <1>3, <1>4, <1>6, <2>1, SkippedFacts
  <2>3. Finished("aborted", None) \in Closing
    BY <1>3, ClosingFacts DEF Outcome
  <2> QED BY <1>3, <2>2, <2>3
<1>8. Result(job.tool) \in Members(head)
  BY MembersOne
<1> HIDE DEF head, skipped, end
<1>9. head \o skipped \in Seq(Closing) /\ facts \in Seq(Closing)
  BY <1>7
<1>10. /\ \A f \in Members(skipped) : f \in Members(facts)
       /\ Result(job.tool) \in Members(facts)
  BY <1>7, <1>8, <1>9, MembersJoined
<1> HIDE DEF facts
<1>11. CASE s' \in ReduceLine(s, facts) /\ Return
  <2>1. \A c \in s.unanswered : \/ c \in CallIds(job, job.index + 1)
                                \/ \E f \in Members(facts) : f.type = "result" /\ f.call = c
    <3>1. \A c \in s.unanswered : c # job.answer.calls[job.index].id
            => c \in CallIds(job, job.index + 1)
      BY <1>4, <1>5, <1>6, CallIdsNext
    <3> QED BY <1>5, <1>10, <3>1, Zenon
  <2>2. \A f \in Members(Skipped(job.index + 1)) : f \in Members(facts)
    BY <1>10, Zenon DEF skipped
  <2>3. OpenSide(s') /\ CutFits'
    BY <1>3, <1>4, <1>6, <1>9, <1>11, <2>1, <2>2, SkippedSides
  <2> QED BY <1>11, <2>3, ReturnAtRest, RestsSides
<1>12. CASE s' = s /\ Exit
  BY <1>1, <1>12, RefusedSides
<1>13. CASE s' = s /\ pc' = "execute" /\ job' = job
  <2>1. CallsFit(s, pc', job') /\ AdmitFits(s, pc')
    BY <1>5, <1>13 DEF CallsFit, AdmitFits
  <2> QED BY <1>1, <1>13, <2>1, SameSides
<1> QED BY <1>1, <1>11, <1>12, <1>13

(* A step of the worker that executes the tool and leaves the file alone.   *)
LEMMA ToolMoves ==
  ASSUME IInv, JInv, pc \in AtTool, pc' \in AtTool, s' = s, compacted' = compacted,
         job'.answer = job.answer, job'.index = job.index, job'.tool = job.tool,
         AtAnswer(pc', job') => AtAnswer(pc, job)
  PROVE  JInv'
<1>1. pc' \notin {"step", "finishRun", "toolAborted", "admit"}
  BY DEF AtTool
<1>2. ASSUME AtAnswer(pc', job')
      PROVE  /\ s.unanswered \subseteq CallIds(job', job'.index)
             /\ s.tools[job'.tool].call = job'.answer.calls[job'.index].id
  BY <1>2, ToolAsks DEF CallIds
<1>3. CallsFit(s, pc', job') /\ AdmitFits(s, pc')
  BY <1>1, <1>2 DEF CallsFit, AdmitFits
<1> QED BY <1>3, SameSides

(* The effect of the tool.                                                  *)
LEMMA ExecuteSides == ASSUME IInv, JInv, Execute PROVE JInv'
<1>1. /\ pc = "execute" /\ pc' = "executing" /\ s' = s /\ compacted' = compacted /\ job' = job
  BY DEF Execute, Goto, file, session
<1>2. pc \in AtTool /\ pc' \in AtTool /\ (AtAnswer(pc', job') => AtAnswer(pc, job))
  BY <1>1 DEF AtTool, AtAnswer
<1> QED BY <1>1, <1>2, ToolMoves

(* The tool returns.                                                        *)
LEMMA ToolReturnsSides == ASSUME IInv, JInv, ToolReturns PROVE JInv'
<1>1. /\ pc = "executing" /\ pc' \in {"toolAbort", "toolResult"} /\ s' = s
      /\ compacted' = compacted /\ job' = [job EXCEPT !.flag = cancel]
  BY DEF ToolReturns, Goto, Set, file, session
<1>2. /\ job'.answer = job.answer /\ job'.index = job.index /\ job'.tool = job.tool
      /\ job'.direct = job.direct
  <2>1. job \in Job
    BY DEF IInv
  <2> QED BY <1>1, <2>1 DEF Job
<1>3. pc \in AtTool /\ pc' \in AtTool /\ (AtAnswer(pc', job') => AtAnswer(pc, job))
  BY <1>1, <1>2 DEF AtTool, AtAnswer
<1> QED BY <1>1, <1>2, <1>3, ToolMoves

(* The abort of a tool leaves its call open.                                *)
LEMMA ToolAbortSides == ASSUME IInv, JInv, IInv', ToolAbort PROVE JInv'
<1> DEFINE f == AbortRequested(job.op, "run", "tool", s.tools[job.tool].call)
<1>1. /\ pc = "toolAbort" /\ UNCHANGED <<compacted, now, history, left>>
      /\ \/ s' \in ReduceLine(s, <<f>>) /\ pc' = "toolResult" /\ job' = job
         \/ s' = s /\ Exit
  BY Zenon DEF ToolAbort, Commit, CommitOr, Goto, session
<1>2. pc \in AtTool
  BY <1>1 DEF AtTool
<1>3. /\ pc \in AtRun /\ job \in Job /\ job.tool \in Id
      /\ s.tools[job.tool] # None /\ s.tools[job.tool].call \in CallId
  BY <1>2, ToolNow
<1>4. FileInv(s) /\ NoCompaction(s)
  BY <1>3, RunNow
<1>5. f \in Facts /\ f.type = "abortRequested"
  <2>1. f \in Closing
    BY <1>3, ClosingFacts
  <2> QED BY <2>1 DEF Closing, AbortRequested
<1> HIDE DEF f
<1>6. CASE s' \in ReduceLine(s, <<f>>) /\ pc' = "toolResult" /\ job' = job
  <2>1. Keeps(s, s', {f})
    BY <1>4, <1>5, <1>6, PlainOne
  <2>2. OpenSide(s') /\ CutFits' /\ s'.unanswered \subseteq s.unanswered
    BY <1>3, <1>5, <1>6, <2>1, SteadySides DEF Steady
  <2>3. s'.tools = s.tools
    BY <1>5, <2>1, OneKeeps
  <2>4. ASSUME AtAnswer(pc', job')
        PROVE  /\ s'.unanswered \subseteq CallIds(job', job'.index)
               /\ s'.tools[job'.tool].call = job'.answer.calls[job'.index].id
    <3>1. AtAnswer(pc, job)
      BY <1>1, <1>6, <2>4 DEF AtAnswer
    <3> QED BY <1>2, <1>6, <2>2, <2>3, <3>1, ToolAsks
  <2>5. CallsFit(s', pc', job') /\ AdmitFits(s', pc')
    BY <1>6, <2>4 DEF CallsFit, AdmitFits
  <2> QED BY <2>2, <2>5, Zenon DEF JInv
<1>7. CASE s' = s /\ Exit
  BY <1>1, <1>7, RefusedSides
<1> QED BY <1>1, <1>6, <1>7

(* The result answers the current call.                                     *)
LEMMA AppendResultSides == ASSUME IInv, JInv, IInv', AppendResult PROVE JInv'
<1> DEFINE f == Result(job.tool)
           result == s.tools[job.tool].result
<1>1. /\ pc = "toolResult" /\ UNCHANGED <<compacted, now, history, left>>
      /\ \/ /\ s' \in ReduceLine(s, <<f>>)
            /\ \/ Return
               \/ ~job.direct /\ pc' = "toolAborted" /\ job' = job
               \/ ~job.direct /\ pc' = "tools" /\ job' = Answered(result)
         \/ s' = s /\ Exit
  BY Zenon DEF AppendResult, Commit, CommitOr, Goto, Set, session
<1>2. pc \in AtTool
  BY <1>1 DEF AtTool
<1>3. pc \in AtRun /\ job \in Job /\ f \in Closing /\ f.type = "result"
  BY <1>2, ToolNow
<1>4. FileInv(s) /\ NoCompaction(s)
  BY <1>3, RunNow
<1>5. ASSUME ~job.direct
      PROVE  /\ AtAnswer(pc, job) /\ job.answer.calls \in Seq(Call) /\ job.index \in Nat
             /\ s.unanswered \subseteq CallIds(job, job.index)
             /\ f.call = job.answer.calls[job.index].id
  <2>1. AtAnswer(pc, job)
    BY <1>1, <1>5 DEF AtAnswer
  <2>2. job.answer.calls \in Seq(Call) /\ job.index \in Nat
    BY <1>1, <1>3, <2>1, AnswerNow
  <2> QED BY <1>2, <2>1, <2>2, ToolAsks
<1> HIDE DEF f, result
<1>6. CASE s' = s /\ Exit
  BY <1>1, <1>6, RefusedSides
<1>7. ASSUME s' \in ReduceLine(s, <<f>>)
      PROVE  /\ OpenSide(s') /\ CutFits' /\ s'.unanswered \subseteq s.unanswered
             /\ f.call \notin s'.unanswered
  <2>1. Keeps(s, s', {f})
    BY <1>3, <1>4, <1>7, PlainOne DEF Closing
  <2> QED BY <1>3, <1>7, <2>1, SteadySides DEF Closing, Steady
<1>8. CASE s' \in ReduceLine(s, <<f>>) /\ Return
  BY <1>7, <1>8, ReturnAtRest, RestsSides
<1>9. CASE s' \in ReduceLine(s, <<f>>) /\ ~job.direct /\ pc' = "toolAborted" /\ job' = job
  <2>1. s'.unanswered \subseteq CallIds(job', job'.index + 1)
    BY <1>5, <1>7, <1>9, CallIdsNext
  <2>2. CallsFit(s', pc', job') /\ AdmitFits(s', pc')
    BY <1>9, <2>1 DEF CallsFit, AdmitFits, AtCall, AtTool
  <2> QED BY <1>7, <1>9, <2>2, Zenon DEF JInv
<1>10. CASE s' \in ReduceLine(s, <<f>>) /\ ~job.direct /\ pc' = "tools" /\ job' = Answered(result)
  <2>1. job'.answer = job.answer /\ job'.index = job.index + 1
    <3>1. job' = [job EXCEPT !.index = @ + 1, !.last = result, !.tool = None]
      BY <1>10 DEF Answered
    <3> QED BY <1>3, <3>1 DEF Job
  <2>2. s'.unanswered \subseteq CallIds(job', job'.index)
    <3>0. /\ job.answer.calls \in Seq(Call) /\ job.index \in Nat
          /\ s'.unanswered \subseteq CallIds(job, job.index)
          /\ job.answer.calls[job.index].id \notin s'.unanswered
      <4>1. s'.unanswered \subseteq s.unanswered /\ f.call \notin s'.unanswered
        BY <1>7, <1>10
      <4> QED BY <1>5, <1>10, <4>1, Zenon
    <3>1. s'.unanswered \subseteq CallIds(job', job.index + 1)
      BY <2>1, <3>0, CallIdsNext
    <3> QED BY <2>1, <3>1, Zenon
  <2>3. CallsFit(s', pc', job') /\ AdmitFits(s', pc')
    BY <1>10, <2>2 DEF CallsFit, AdmitFits, AtTool
  <2> QED BY <1>7, <1>10, <2>3, Zenon DEF JInv
<1> QED BY <1>1, <1>6, <1>8, <1>9, <1>10

(* The calls after an aborted tool have their results.                      *)
LEMMA ToolAbortedSides == ASSUME IInv, JInv, IInv', ToolAborted PROVE JInv'
<1> DEFINE end == <<Finished("aborted", None)>>
           facts == Skipped(job.index + 1) \o end
<1>1. /\ pc = "toolAborted" /\ Room(Len(job.answer.calls) - job.index)
      /\ UNCHANGED <<compacted, now, history, left>>
      /\ \/ s' \in ReduceLine(s, facts) /\ Return
         \/ s' = s /\ Exit
  BY Zenon DEF ToolAborted, Commit, CommitOr, session
<1>2. pc \in AtRun /\ AtAnswer(pc, job)
  BY <1>1 DEF AtRun, AtAnswer
<1>3. /\ job.answer \in Answers /\ Len(job.answer.calls) \in Nat \ {0}
      /\ job.step \in Id /\ job.assistant \in Id /\ job.answer.calls \in Seq(Call)
      /\ job.index \in 1..(Len(job.answer.calls) + 1) /\ job.index <= Len(job.answer.calls)
  BY <1>1, <1>2, AnswerNow
<1>4. job.index + 1 \in Nat \ {0}
  BY <1>3
<1>5. Skipped(job.index + 1) \in Seq(Closing) /\ end \in Seq(Closing)
  <2>1. /\ job.index + 1 <= Len(job.answer.calls) + 1
        /\ Len(job.answer.calls) - (job.index + 1) + 1 = Len(job.answer.calls) - job.index
    BY <1>3
  <2>2. Skipped(job.index + 1) \in Seq(Closing)
    BY <1>1, <1>2, <1>3, <1>4, <2>1, SkippedFacts
  <2>3. Finished("aborted", None) \in Closing
    BY <1>2, ClosingFacts DEF Outcome
  <2> QED BY <2>2, <2>3
<1> HIDE DEF end
<1>6. facts \in Seq(Closing) /\ \A f \in Members(Skipped(job.index + 1)) : f \in Members(facts)
  BY <1>5, MembersJoined
<1> HIDE DEF facts
<1>7. CASE s' \in ReduceLine(s, facts) /\ Return
  <2>1. s.unanswered \subseteq CallIds(job, job.index + 1)
    BY <1>1 DEF JInv, CallsFit
  <2>2. OpenSide(s') /\ CutFits'
    BY <1>2, <1>3, <1>4, <1>6, <1>7, <2>1, SkippedSides
  <2> QED BY <1>7, <2>2, ReturnAtRest, RestsSides
<1>8. CASE s' = s /\ Exit
  BY <1>1, <1>8, RefusedSides
<1> QED BY <1>1, <1>7, <1>8

-----------------------------------------------------------------------------
(* The answer asks *)

(* What an answer writes.                                                   *)
LEMMA AnswerWrites ==
  ASSUME NEW t, NEW t1, Good(t), NEW f \in Facts, f.type = "assistant", Reduces(t, t1, f)
  PROVE  /\ f.id \in Id /\ f.calls \in Seq(Call) /\ t.entries[f.id] = None
         /\ t1.entries[f.id] # None /\ t1.entries[f.id].type = "assistant"
         /\ t1.entries[f.id].calls = f.calls
         /\ t1.transcript = Append(t.transcript, f.id) /\ t1.pairs = t.pairs
         /\ t1.unanswered = {f.calls[k].id : k \in DOMAIN f.calls}
         /\ ~Idle(t) /\ t.operation.kind = "run"
<1> DEFINE e == AssistantEntry(t, f)
           p == Push(t, f.id, e)
           info == [t.attempts[f.attempt] EXCEPT !.closed = TRUE, !.copyClosed = TRUE,
                                                 !.settled = f.id]
           o == WithStatus(t.operation, f.attempt, "settled")
<1>1. f \in AssistantFacts
  BY DEF Facts, UserFacts, AssistantFacts, SyntheticFacts, ResultFacts, SummaryFacts, RunFacts,
         CompactionFacts, AttemptFacts, FailureFacts, ToolFacts, AbortFacts, FinishFacts, UsageFacts
<1>2. /\ f.id \in Id /\ f.attempt \in Id /\ f.step \in Id /\ f.calls \in Seq(Call)
      /\ f.stop \in Stop /\ f.text \in BOOLEAN
  BY <1>1 DEF AssistantFacts
<1>3. CanAssistant(t, f) /\ t1 = DoAssistant(t, f)
  BY Reduced DEF ReducesAssistant
<1>4. t \in State /\ Written(t) /\ Free(t, f.id) /\ t.attempts[f.attempt] # None
  BY <1>3 DEF Good, Sound, Ledger, AnswerSide, CanAssistant
<1>5. t.entries[f.id] = None
  BY <1>2, <1>4 DEF Written, Free
<1>6. ~Idle(t) /\ t.operation.kind = "run"
  BY <1>3 DEF CanAssistant, CurrentIs
<1>7. t.attempts[f.attempt] \in AttemptInfo
  BY <1>2, <1>4, Fields
<1>8. e \in Entry /\ e.type = "assistant" /\ e.calls = f.calls
  BY <1>2, <1>7 DEF AssistantEntry, Entry, AttemptInfo
<1> HIDE DEF e
<1>9. p \in State /\ p.attempts = t.attempts /\ p.operation = t.operation
  <2>1. p \in State
    BY <1>2, <1>4, <1>8, PushType, Zenon
  <2>2. p.attempts = t.attempts /\ p.operation = t.operation
    BY <1>4, Zenon DEF Push, State
  <2> QED BY <2>1, <2>2
<1>10. /\ p.entries = [t.entries EXCEPT ![f.id] = e] /\ p.pairs = t.pairs
       /\ p.transcript = Append(t.transcript, f.id)
       /\ p.unanswered = Unanswered(e, t.unanswered)
  BY <1>4, Zenon DEF Push, State
<1>11. t1 = [p EXCEPT !.attempts = [t.attempts EXCEPT ![f.attempt] = info], !.operation = o]
  <2> HIDE DEF p
  <2>1. t1 = [p EXCEPT !.attempts[f.attempt] = [@ EXCEPT !.closed = TRUE, !.copyClosed = TRUE,
                                                 !.settled = f.id],
                       !.operation = WithStatus(@, f.attempt, "settled")]
    BY <1>3 DEF DoAssistant, p, e
  <2> QED BY <1>9, <2>1
<1> HIDE DEF p, info, o
<1>12. /\ t1.entries = p.entries /\ t1.pairs = p.pairs /\ t1.transcript = p.transcript
       /\ t1.unanswered = p.unanswered
  BY <1>9, <1>11, Zenon DEF State
<1>13. t1.entries[f.id] = e
  BY <1>2, <1>4, <1>10, <1>12, Fields
<1>14. t1.unanswered = {f.calls[k].id : k \in DOMAIN f.calls}
  BY <1>8, <1>10, <1>12 DEF Unanswered
<1> QED BY <1>2, <1>5, <1>6, <1>8, <1>10, <1>12, <1>13, <1>14, NoneAssumption

(* It settles the current step.                                             *)
LEMMA AnswerIsCurrent ==
  ASSUME NEW t, NEW t1, Good(t), NEW f \in Facts, f.type = "assistant", Reduces(t, t1, f)
  PROVE  /\ ~Idle(t1) /\ t1.operation.kind = "run"
         /\ t1.operation.step # None /\ t1.operation.step.status = "settled"
         /\ t1.attempts[t1.operation.step.attempt].settled = f.id
<1>1. /\ t \in State /\ Sound(t) /\ Ledger(t) /\ OpenIsCurrent(t) /\ FactDoes(t, t1, f)
      /\ t1 \in State /\ Written(t)
  BY FactCases, GoodNext DEF Good, Sound, Ledger, AttemptSide, AnswerSide
<1>2. PICK i, a, e, info : AnswerAdded(t, t1, i, a, e, info)
  BY <1>1, AnswerEffect DEF FactDoes
<1>3. /\ AttemptEnded(t, t1, a, info, "settled") /\ info.settled = i /\ i \in Id
      /\ t1.entries = [t.entries EXCEPT ![i] = e]
  BY <1>2, Zenon DEF AnswerAdded
<1>4. /\ f.id \in Id /\ f.calls \in Seq(Call) /\ t.entries[f.id] = None
      /\ t1.entries[f.id] # None /\ t1.entries[f.id].type = "assistant"
      /\ t1.entries[f.id].calls = f.calls
      /\ t1.transcript = Append(t.transcript, f.id) /\ t1.pairs = t.pairs
      /\ t1.unanswered = {f.calls[k].id : k \in DOMAIN f.calls}
      /\ ~Idle(t) /\ t.operation.kind = "run"
  BY AnswerWrites
<1>5. i = f.id
  BY <1>1, <1>3, <1>4, Fields
<1>6. /\ ~Idle(t1) /\ t1.operation.kind = t.operation.kind
      /\ t1.operation.step = [attempt |-> a, status |-> "settled"]
  <2>1. "settled" \in {"settled", "failed"}
    OBVIOUS
  <2>2. /\ t.operation.step = [attempt |-> a, status |-> "attempting"]
        /\ ~Idle(t1) /\ t1.operation.id = t.operation.id
        /\ t1.operation.kind = t.operation.kind /\ t1.operation.abort = t.operation.abort
        /\ t1.operation.step = [attempt |-> a, status |-> "settled"]
        /\ t.operation.step # None
    BY <1>1, <1>3, <2>1, ClosesCurrent
  <2> QED BY <2>2
<1>7. t1.operation.step # None
  <2>1. a \in Id
    BY <1>3 DEF AttemptEnded
  <2>2. [attempt |-> a, status |-> "settled"] \in StepState
    BY <2>1 DEF StepState
  <2> QED BY <1>6, <2>2, NoneAssumption
<1>8. t1.attempts[a].settled = f.id
  <2>1. a \in Id /\ t1.attempts = [t.attempts EXCEPT ![a] = info]
    BY <1>3 DEF AttemptEnded
  <2> QED BY <1>1, <1>3, <1>5, <2>1, Fields
<1> QED BY <1>4, <1>6, <1>7, <1>8

(* So its calls are the open ones.                                          *)
LEMMA AnswerAsks ==
  ASSUME NEW t, NEW t1, Good(t), NEW f \in Facts, f.type = "assistant", Reduces(t, t1, f)
  PROVE  OpenSide(t1) /\ t1.unanswered = {f.calls[k].id : k \in DOMAIN f.calls}
<1>1. /\ f.id \in Id /\ f.calls \in Seq(Call) /\ t.entries[f.id] = None
      /\ t1.entries[f.id] # None /\ t1.entries[f.id].type = "assistant"
      /\ t1.entries[f.id].calls = f.calls
      /\ t1.transcript = Append(t.transcript, f.id) /\ t1.pairs = t.pairs
      /\ t1.unanswered = {f.calls[k].id : k \in DOMAIN f.calls}
  BY AnswerWrites
<1>2. /\ ~Idle(t1) /\ t1.operation.kind = "run"
      /\ t1.operation.step # None /\ t1.operation.step.status = "settled"
      /\ t1.attempts[t1.operation.step.attempt].settled = f.id
  BY AnswerIsCurrent
<1>3. Good(t1) /\ CallsDiffer(t) /\ OpenUnanswered(t1) /\ t \in State
  BY GoodNext DEF Good, CallSide, Sound
<1>4. CASE t1.unanswered = {}
  BY <1>1, <1>3, <1>4, NoneOpen
<1>5. CASE t1.unanswered # {}
  <2>1. PICK k \in DOMAIN f.calls : TRUE
    BY <1>1, <1>5
  <2>2. <<f.id, k>> \notin t1.pairs
    BY <1>1, <1>3 DEF CallsDiffer
  <2>3. OpenCall(t1, f.id, k)
    BY <1>1, <2>2 DEF OpenCall
  <2>4. OpenCurrent(t1)
    BY <1>2, <1>3, <2>3, Zenon DEF OpenCurrent, OpenUnanswered
  <2>5. Asks(t1, Len(t1.transcript)) /\ Len(t1.transcript) \in DOMAIN t1.transcript
    <3>1. t.transcript \in Seq(Id)
      BY <1>3, Fields
    <3>2. /\ Len(t1.transcript) \in DOMAIN t1.transcript
          /\ t1.transcript[Len(t1.transcript)] = f.id
          /\ \A m \in DOMAIN t1.transcript : ~(m > Len(t1.transcript))
      BY <1>1, <3>1
    <3> QED BY <1>1, <1>2, <3>2, Zenon DEF Asks
  <2>6. AskedLast(t1)
    BY <2>5, Zenon DEF AskedLast
  <2> QED BY <1>1, <2>4, <2>6 DEF OpenSide
<1> QED BY <1>4, <1>5

(* The calls of the answer are what the worker takes next.                  *)
LEMMA SettleStepSides == ASSUME IInv, JInv, IInv', SettleStep PROVE JInv'
<1> DEFINE f == AssistantMessage(New(1), job.step, job.attempt, job.answer)
           g == UsageFact(job.op, job.attempt, 1)
<1>1. /\ pc = "answered" /\ Room(1) /\ UNCHANGED <<compacted, now, history, left>>
      /\ \/ /\ s' \in ReduceLine(s, <<f, g>>)
            /\ pc' = IF job.answer.calls = << >> THEN "finishRun" ELSE "tools"
            /\ job' = [job EXCEPT !.assistant = New(1), !.index = 1]
         \/ s' = s /\ Exit
  BY Zenon DEF SettleStep, Commit, CommitOr, Goto, Set, session
<1>2. /\ pc \in AtRun /\ job \in Job /\ s \in State
      /\ AttemptFits(s, pc, job) /\ AnswerFits(pc, job)
  BY <1>1 DEF AtRun, IInv, TypeOK
<1>3. job.op \in Id /\ NoCompaction(s) /\ FileInv(s) /\ Good(s)
  BY <1>2, RunNow
<1>4. New(1) \in Id
  BY <1>1, <1>2, Allocates
<1>5. job.step \in Id /\ job.attempt \in Id /\ job.answer \in Answers
  BY <1>1, <1>2 DEF AttemptFits, AtAttempt, AnswerFits, AtAnswer
<1>6. f \in Facts /\ g \in Facts
  BY <1>3, <1>4, <1>5, AnswerFactTypes, FailureFactTypes
<1>7. /\ f.type = "assistant" /\ g.type = "usage" /\ g.amount = 1
      /\ f.calls = job.answer.calls
  BY DEF AssistantMessage, UsageFact
<1>8. job.answer.calls \in Seq(Call)
  BY <1>5, AnswersAssumption
<1> HIDE DEF f, g
<1>9. CASE /\ s' \in ReduceLine(s, <<f, g>>)
           /\ pc' = IF job.answer.calls = << >> THEN "finishRun" ELSE "tools"
           /\ job' = [job EXCEPT !.assistant = New(1), !.index = 1]
  <2>1. Keeps(s, s', {f, g})
    BY <1>3, <1>6, <1>7, <1>9, ChargedLine
  <2>2. PICK t : Reduces(s, t, f) /\ Reduces(t, s', g)
    BY <1>9, LineTwo
  <2>3. /\ OpenSide(t) /\ Good(t)
        /\ t.unanswered = {job.answer.calls[k].id : k \in DOMAIN job.answer.calls}
    BY <1>3, <1>6, <1>7, <2>2, AnswerAsks, GoodNext
  <2>4. Keeps(t, s', {g})
    BY <1>6, <2>2, <2>3, KeepsOne
  <2>5. {g} \subseteq {h \in {g} : h.type \in Steady} /\ Without({g}, {"assistant"})
    BY <1>7 DEF Steady, Without
  <2>6. OpenSide(s') /\ s'.unanswered \subseteq t.unanswered
    BY <2>3, <2>4, <2>5, Zenon DEF Keeps, KeepsOpen, KeepsCalls
  <2>7. CutFits'
    <3>1. Without({f, g}, {"compactionStarted"})
      BY <1>7 DEF Without
    <3>2. NoCompaction(s')
      BY <1>3, <2>1, <3>1, Zenon DEF Keeps, KeepsTail
    <3> QED BY <3>2, Zenon DEF CutFits
  <2>8. job'.answer = job.answer /\ job'.index = 1
    BY <1>2, <1>9 DEF Job
  <2>9. s'.unanswered \subseteq CallIds(job', job'.index)
    <3>1. \A k \in DOMAIN job.answer.calls : k >= 1
      BY <1>8
    <3> QED BY <2>3, <2>6, <2>8, <3>1 DEF CallIds
  <2>10. job.answer.calls = << >> => s'.unanswered = {}
    BY <2>3, <2>6
  <2>11. CallsFit(s', pc', job') /\ AdmitFits(s', pc')
    BY <1>9, <2>9, <2>10 DEF CallsFit, AdmitFits, AtTool
  <2> QED BY <2>6, <2>7, <2>11, Zenon DEF JInv
<1>10. CASE s' = s /\ Exit
  BY <1>1, <1>10, RefusedSides
<1> QED BY <1>1, <1>9, <1>10

-----------------------------------------------------------------------------
(* Compaction leaves no call open, and keeps what it is to keep *)

(* Without an operation nothing is compacted.                               *)
LEMMA FinishIdles ==
  ASSUME NEW t, NEW t1, Good(t), NEW f \in Facts, f.type = "operationFinished",
         Reduces(t, t1, f)
  PROVE  Idle(t1)
<1>1. Sound(t) /\ FactDoes(t, t1, f)
  BY FactCases DEF Good, Sound
<1>2. AddsOperationFinished(t, t1)
  BY <1>1 DEF FactDoes
<1>3. \E op, final, how, info : FinishAdded(t, t1, op, final, how, info)
  BY <1>1, <1>2, FinishEffect
<1> QED BY <1>3, Zenon DEF FinishAdded

(* The summary settles the step of the compaction.                          *)
LEMMA SummaryIsCurrent ==
  ASSUME NEW t, NEW t1, Good(t), NEW f \in Facts, f.type = "compaction", Reduces(t, t1, f)
  PROVE  ~Unsettled(t1)
<1>1. /\ t \in State /\ Sound(t) /\ Ledger(t) /\ OpenIsCurrent(t) /\ FactDoes(t, t1, f)
  BY FactCases DEF Good, Sound, Ledger, AttemptSide
<1>2. PICK i, a, e, info : SummaryAdded(t, t1, i, a, e, info)
  BY <1>1, SummaryEffect DEF FactDoes
<1>3. AttemptEnded(t, t1, a, info, "settled")
  BY <1>2, Zenon DEF SummaryAdded
<1>4. t1.operation.step = [attempt |-> a, status |-> "settled"]
  <2>1. "settled" \in {"settled", "failed"}
    OBVIOUS
  <2>2. /\ t.operation.step = [attempt |-> a, status |-> "attempting"]
        /\ ~Idle(t1) /\ t1.operation.id = t.operation.id
        /\ t1.operation.kind = t.operation.kind /\ t1.operation.abort = t.operation.abort
        /\ t1.operation.step = [attempt |-> a, status |-> "settled"]
        /\ t.operation.step # None
    BY <1>1, <1>3, <2>1, ClosesCurrent
  <2> QED BY <2>2
<1>5. t1.operation.step # None
  <2>1. a \in Id
    BY <1>3 DEF AttemptEnded
  <2>2. [attempt |-> a, status |-> "settled"] \in StepState
    BY <2>1 DEF StepState
  <2> QED BY <1>4, <2>2, NoneAssumption
<1> QED BY <1>4, <1>5 DEF Unsettled

(* Lines that add no message but a summary, when no call is open.           *)
LEMMA QuietSides ==
  ASSUME IInv, JInv, IInv', s.unanswered = {}, compacted' = compacted,
         NEW F, Keeps(s, s', F),
         Without(F, {"user", "assistant", "synthetic", "result", "compactionStarted"}),
         \/ NoCompaction(s') \/ ~Unsettled(s')
         \/ Without(F, {"compaction"}) /\ Unsettled(s)
  PROVE  OpenSide(s') /\ CutFits' /\ s'.unanswered = {}
<1>1. Without(F, {"assistant"}) /\ Without(F, {"compactionStarted"})
  BY DEF Without
<1>2. s'.unanswered = {}
  BY <1>1, NoneNew
<1>3. OpenSide(s')
  BY <1>2, NoneOpen DEF IInv, FileInv
<1>4. CutFits'
  <2>1. CASE NoCompaction(s') \/ ~Unsettled(s')
    BY <2>1, Zenon DEF CutFits
  <2>2. CASE Without(F, {"compaction"}) /\ Unsettled(s)
    <3>1. Without(F, {"user", "assistant", "synthetic", "result", "compaction"})
      BY <2>2 DEF Without
    <3>2. Silent(s, s')
      BY <3>1, Zenon DEF Keeps, KeepsMessages
    <3>3. NoCompaction(s) => NoCompaction(s')
      BY <1>1, Zenon DEF Keeps, KeepsTail
    <3> QED BY <2>2, <3>2, <3>3, SilentSides
  <2> QED BY <2>1, <2>2
<1> QED BY <1>2, <1>3, <1>4

(* A compaction has no call.                                                *)
LEMMA CompactionAsksNone ==
  ASSUME IInv, JInv, pc \in AtCompaction
  PROVE  s.unanswered = {} /\ Good(s) /\ FileInv(s)
<1>1. s.operation.kind = "compaction" /\ Good(s) /\ FileInv(s)
  BY CompactionNow
<1> QED BY <1>1, NoneAsked DEF JInv

(* A refused compaction is over, or the process is.                         *)
LEMMA CompactionRefusedSides ==
  ASSUME JInv, s' = s, CompactionRefused, UNCHANGED <<compacted, now, history, left>>
  PROVE  JInv'
<1>1. pc' \in AtRest /\ compacted' = compacted
  BY DEF CompactionRefused, CompactionErr, Exit, Goto, AtRest
<1> QED BY <1>1, SameRests

(* The places of a compaction ask nothing of the calls.                     *)
LEMMA CompactionPlaces ==
  ASSUME OpenSide(s'), CutFits', pc' \in AtCompaction \ {"admit"}
  PROVE  JInv'
<1>1. CallsFit(s', pc', job') /\ AdmitFits(s', pc')
  BY DEF CallsFit, AdmitFits, AtCall, AtTool, AtCompaction
<1> QED BY <1>1, Zenon DEF JInv

(* An attempt is opened only without a summary.                             *)
LEMMA AdmitCompactionSides == ASSUME IInv, JInv, IInv', AdmitCompaction PROVE JInv'
<1> DEFINE step == IF job.step = None THEN New(2) ELSE job.step
           f == StepAttempt(job.op, step, New(1), "compaction", job.number, job.context,
                            now.config)
           g == Finished("aborted", None)
<1>1. /\ pc = "admit" /\ Room(2) /\ UNCHANGED <<compacted, now, history, left>>
      /\ \/ s' \in ReduceLine(s, <<f>>) /\ pc' \in {"summarize", "summaryError"}
         \/ s' \in ReduceLine(s, <<g>>) /\ Return
         \/ s' = s /\ Return
         \/ s' = s /\ CompactionRefused
  BY Zenon DEF AdmitCompaction, CompactionAborted, CommitOr, Goto, Set, session
<1>2. pc \in AtCompaction /\ job \in Job /\ s \in State /\ Unsettled(s)
  BY <1>1 DEF AtCompaction, IInv, TypeOK, JInv, AdmitFits
<1>3. job.op \in Id /\ FileInv(s) /\ now.config \in ConfigurationSnapshot
      /\ s.unanswered = {}
  BY <1>2, CompactionNow, CompactionAsksNone
<1>4. New(1) \in Id /\ New(2) \in Id
  BY <1>1, <1>2, Allocates
<1>5. step \in Id /\ job.context \in Id /\ job.number \in 1..2
  BY <1>1, <1>2, <1>4 DEF IInv, Job, ContextFits
<1>6. f \in Facts
  BY <1>3, <1>4, <1>5, AttemptFactTypes
<1>7. f.type = "stepAttempt"
  BY DEF StepAttempt
<1>8. g \in Facts /\ g.type = "operationFinished"
  BY <1>2, CompactionFacts1 DEF Outcome
<1> HIDE DEF f, g, step
<1>9. ASSUME NEW h \in {f, g}, s' \in ReduceLine(s, <<h>>)
      PROVE  OpenSide(s') /\ CutFits'
  <2>1. h \in Facts /\ h.type \in {"stepAttempt", "operationFinished"}
    BY <1>6, <1>7, <1>8, <1>9
  <2>2. Keeps(s, s', {h})
    BY <1>3, <1>9, <2>1, PlainOne
  <2>3. /\ Without({h}, {"user", "assistant", "synthetic", "result", "compactionStarted"})
        /\ Without({h}, {"compaction"})
    BY <2>1 DEF Without
  <2> QED BY <1>1, <1>2, <1>3, <2>2, <2>3, QuietSides
<1>10. CASE s' \in ReduceLine(s, <<f>>) /\ pc' \in {"summarize", "summaryError"}
  <2>1. pc' \in AtCompaction \ {"admit"}
    BY <1>10 DEF AtCompaction
  <2> QED BY <1>9, <1>10, <2>1, CompactionPlaces
<1>11. CASE s' \in ReduceLine(s, <<g>>) /\ Return
  BY <1>9, <1>11, ReturnAtRest, RestsSides
<1>12. CASE s' = s /\ Return
  BY <1>1, <1>12, ReturnAtRest, SameRests
<1>13. CASE s' = s /\ CompactionRefused
  BY <1>1, <1>13, CompactionRefusedSides
<1> QED BY <1>1, <1>10, <1>11, <1>12, <1>13

(* The provider's summary, or its failure.                                  *)
LEMMA SummarizeSides == ASSUME JInv, Summarize PROVE JInv'
<1>1. s' = s /\ compacted' = compacted /\ pc' \in {"settle", "summaryError"}
  BY DEF Summarize, Goto, file, session
<1>2. CallsFit(s, pc', job') /\ AdmitFits(s, pc')
  BY <1>1 DEF CallsFit, AdmitFits, AtCall, AtTool
<1> QED BY <1>1, <1>2, SameSides

(* The abort that failed it.                                                *)
LEMMA SummaryErrorSides == ASSUME IInv, JInv, IInv', SummaryError PROVE JInv'
<1> DEFINE f == AbortRequested(job.op, "compaction", "compact", None)
<1>1. /\ pc = "summaryError" /\ UNCHANGED <<compacted, now, history, left>>
      /\ \/ (s' = s \/ s' \in ReduceLine(s, <<f>>)) /\ pc' = "settle"
         \/ s' = s /\ CompactionRefused
  BY Zenon DEF SummaryError, CommitOr, Goto, Set, session
<1>2. pc \in AtCompaction /\ pc \in AtAttempt
  BY <1>1 DEF AtCompaction, AtAttempt
<1>3. FileInv(s) /\ job.op \in Id /\ s.unanswered = {} /\ Unsettled(s)
  BY <1>2, CompactionNow, CompactionAsksNone, AttemptAsksNone
<1>4. f \in Facts
  BY <1>3, AbortFactTypes
<1>5. f.type = "abortRequested"
  BY DEF AbortRequested
<1> HIDE DEF f
<1>6. CASE s' = s /\ pc' = "settle"
  <2>1. CallsFit(s, pc', job') /\ AdmitFits(s, pc')
    BY <1>6 DEF CallsFit, AdmitFits, AtCall, AtTool
  <2> QED BY <1>1, <1>6, <2>1, SameSides
<1>7. CASE s' \in ReduceLine(s, <<f>>) /\ pc' = "settle"
  <2>1. Keeps(s, s', {f})
    BY <1>3, <1>4, <1>5, <1>7, PlainOne
  <2>2. /\ Without({f}, {"user", "assistant", "synthetic", "result", "compactionStarted"})
        /\ Without({f}, {"compaction"})
    BY <1>5 DEF Without
  <2>3. OpenSide(s') /\ CutFits'
    BY <1>1, <1>3, <2>1, <2>2, QuietSides
  <2>4. pc' \in AtCompaction \ {"admit"}
    BY <1>7 DEF AtCompaction
  <2> QED BY <2>3, <2>4, CompactionPlaces
<1>8. CASE s' = s /\ CompactionRefused
  BY <1>1, <1>8, CompactionRefusedSides
<1> QED BY <1>1, <1>6, <1>7, <1>8

(* The compaction fails, or the summary settles its step.                   *)
LEMMA SettleCompactionSides == ASSUME IInv, JInv, IInv', SettleCompaction PROVE JInv'
<1> DEFINE f == UsageFact(job.op, job.attempt, 1)
           g == CompactionEntry(s.operations[job.op].result, job.op, compacted,
                                Retained(s, compacted))
           h == StepFailed(job.op, job.step, job.attempt)
           End(outcome) == Finished(outcome, None)
<1>1. /\ pc = "settle" /\ UNCHANGED <<compacted, now, history, left>>
      /\ \/ s' \in ReduceLine(s, <<h, End("aborted")>>) /\ Return
         \/ s' \in ReduceLine(s, <<f, g>>) /\ pc' = "finishCompaction"
         \/ /\ s' \in ReduceLine(s, <<h, End("failed")>>)
            /\ Exit \/ (pc' = "start" /\ job' = NoJob)
         \/ s' = s /\ CompactionRefused
  BY Zenon DEF SettleCompaction, CompactionAborted, CompactionFailed, CompactionErr, CommitOr,
       Goto, Set, session
<1>2. /\ pc \in AtCompaction /\ pc \in AtAttempt /\ job \in Job /\ AttemptFits(s, pc, job)
      /\ s \in State
  BY <1>1 DEF IInv, TypeOK, AtCompaction, AtAttempt
<1>3. job.step \in Id /\ job.attempt \in Id
  BY <1>1, <1>2 DEF AttemptFits, AtAttempt
<1>4. /\ FileInv(s) /\ Good(s) /\ job.op \in Id /\ compacted \in Id
      /\ s.operations[job.op].result \in Id /\ s.unanswered = {} /\ Unsettled(s)
  BY <1>2, CompactionNow, AttemptAsksNone
<1>5. ASSUME NEW outcome \in Outcome, s' \in ReduceLine(s, <<h, End(outcome)>>)
      PROVE  OpenSide(s') /\ CutFits'
  <2> DEFINE e == End(outcome)
  <2>1. h \in Facts /\ h.type = "stepFailed" /\ e \in Facts /\ e.type = "operationFinished"
    BY <1>2, <1>3, CompactionFacts1
  <2>2. s' \in ReduceLine(s, <<h, e>>)
    BY <1>5
  <2> HIDE DEF h, e
  <2>3. Keeps(s, s', {h, e})
    BY <1>4, <2>1, <2>2, PlainTwo
  <2>4. /\ Without({h, e}, {"user", "assistant", "synthetic", "result", "compactionStarted"})
        /\ Without({h, e}, {"compaction"})
    BY <2>1 DEF Without
  <2> QED BY <1>1, <1>4, <2>3, <2>4, QuietSides
<1>6. CASE s' \in ReduceLine(s, <<h, End("aborted")>>) /\ Return
  <2>1. OpenSide(s') /\ CutFits'
    BY <1>5, <1>6 DEF Outcome
  <2> QED BY <1>6, <2>1, ReturnAtRest, RestsSides
<1>7. CASE /\ s' \in ReduceLine(s, <<h, End("failed")>>)
           /\ Exit \/ (pc' = "start" /\ job' = NoJob)
  <2>1. OpenSide(s') /\ CutFits'
    BY <1>5, <1>7 DEF Outcome
  <2>2. pc' \in AtRest
    BY <1>7, ReturnAtRest DEF AtRest
  <2> QED BY <2>1, <2>2, RestsSides
<1>8. CASE s' \in ReduceLine(s, <<f, g>>) /\ pc' = "finishCompaction"
  <2>1. Retained(s, compacted) \in Seq(Id)
    <3>1. s.transcript \in Seq(Id)
      BY <1>2, Fields
    <3>2. /\ Through(s, compacted) \in 0..Len(s.transcript)
          /\ Through(s, s.operation.input) \in 0..Len(s.transcript)
      BY <1>2, ThroughType
    <3> QED BY <3>1, <3>2 DEF Retained
  <2>2. f \in Facts /\ g \in Facts
    BY <1>2, <1>3, <1>4, <2>1, CompactionFacts1, SummaryFactTypes
  <2>3. f.type = "usage" /\ f.amount = 1 /\ g.type = "compaction"
    BY DEF UsageFact, CompactionEntry
  <2> HIDE DEF f, g
  <2>4. Keeps(s, s', {f, g})
    BY <1>4, <1>8, <2>2, <2>3, ChargedLine
  <2>5. PICK t : Reduces(s, t, f) /\ Reduces(t, s', g)
    BY <1>8, LineTwo
  <2>6. Good(t)
    BY <1>4, <2>2, <2>5, GoodNext
  <2>7. ~Unsettled(s')
    BY <2>2, <2>3, <2>5, <2>6, SummaryIsCurrent
  <2>8. Without({f, g}, {"user", "assistant", "synthetic", "result", "compactionStarted"})
    BY <2>3 DEF Without
  <2>9. OpenSide(s') /\ CutFits'
    BY <1>1, <1>4, <2>4, <2>7, <2>8, QuietSides
  <2>10. pc' \in AtCompaction \ {"admit"}
    BY <1>8 DEF AtCompaction
  <2> QED BY <2>9, <2>10, CompactionPlaces
<1>9. CASE s' = s /\ CompactionRefused
  BY <1>1, <1>9, CompactionRefusedSides
<1> QED BY <1>1, <1>6, <1>7, <1>8, <1>9

(* A completed compaction is none any more.                                 *)
LEMMA FinishCompactionSides == ASSUME IInv, JInv, IInv', FinishCompaction PROVE JInv'
<1> DEFINE f == Finished("completed", s.operations[job.op].result)
<1>1. /\ pc = "finishCompaction" /\ UNCHANGED <<compacted, now, history, left>>
      /\ \/ s' \in ReduceLine(s, <<f>>) /\ (Return \/ pc' = "start")
         \/ s' = s /\ CompactionRefused
  BY Zenon DEF FinishCompaction, CompactionOk, CommitOr, Goto, Set, session
<1>2. pc \in AtCompaction
  BY <1>1 DEF AtCompaction
<1>3. FileInv(s) /\ Good(s) /\ s.unanswered = {} /\ s.operations[job.op].result \in Id
  BY <1>2, CompactionNow, CompactionAsksNone
<1>4. f \in Facts /\ f.type = "operationFinished"
  BY <1>2, <1>3, CompactionFacts1 DEF Outcome
<1> HIDE DEF f
<1>5. CASE s' \in ReduceLine(s, <<f>>) /\ (Return \/ pc' = "start")
  <2>1. Keeps(s, s', {f}) /\ Reduces(s, s', f)
    BY <1>3, <1>4, <1>5, PlainOne
  <2>2. NoCompaction(s')
    BY <1>3, <1>4, <2>1, FinishIdles DEF NoCompaction
  <2>3. Without({f}, {"user", "assistant", "synthetic", "result", "compactionStarted"})
    BY <1>4 DEF Without
  <2>4. OpenSide(s') /\ CutFits'
    BY <1>1, <1>3, <2>1, <2>2, <2>3, QuietSides
  <2>5. pc' \in AtRest
    BY <1>5, ReturnAtRest DEF AtRest
  <2> QED BY <2>4, <2>5, RestsSides
<1>6. CASE s' = s /\ CompactionRefused
  BY <1>1, <1>6, CompactionRefusedSides
<1> QED BY <1>1, <1>5, <1>6

-----------------------------------------------------------------------------
(* Where a compaction cuts *)

(* The messages through the m-th are the first m.                           *)
LEMMA ThroughAt ==
  ASSUME NEW t, t \in State, OrderSide(t), NEW m \in DOMAIN t.transcript
  PROVE  Through(t, t.transcript[m]) = m
<1> DEFINE M == Len(t.transcript)
           S == {n \in DOMAIN t.transcript :
                   Position(t, t.transcript[n]) <= Position(t, t.transcript[m])}
<1>1. /\ t.transcript \in Seq(Id) /\ M \in Nat /\ DOMAIN t.transcript = 1..M
      /\ DOMAIN t.order \subseteq Nat
  BY Fields
<1>2. m \in 1..M
  BY <1>1
<1>3. PICK k \in DOMAIN t.order : t.order[k] = t.transcript[m]
  BY <1>1, <1>2 DEF OrderSide
<1>4. ASSUME NEW n \in 1..M
      PROVE  Position(t, t.transcript[n]) <= Position(t, t.transcript[m]) <=> n <= m
  <2>1. PICK j \in DOMAIN t.order : t.order[j] = t.transcript[n]
    BY <1>1 DEF OrderSide
  <2>2. Position(t, t.transcript[n]) = j /\ Position(t, t.transcript[m]) = k
    BY <1>3, <2>1, AtPosition
  <2>3. j \in Nat /\ k \in Nat /\ n \in Nat /\ m \in Nat
    BY <1>1, <1>2
  <2>4. CASE n < m
    <3>1. j < k
      BY <1>1, <1>2, <1>3, <2>1, <2>4 DEF OrderSide
    <3> QED BY <2>2, <2>3, <2>4, <3>1
  <2>5. CASE m < n
    <3>1. k < j
      BY <1>1, <1>2, <1>3, <2>1, <2>5 DEF OrderSide
    <3> QED BY <2>2, <2>3, <2>5, <3>1
  <2>6. CASE n = m
    <3>1. Position(t, t.transcript[m]) \in Nat
      BY <2>2, <2>3
    <3> QED BY <2>3, <2>6, <3>1
  <2> QED BY <2>3, <2>4, <2>5, <2>6
<1>5. S = 1..m
  <2>1. \A n \in 1..M : n \in 1..m <=> n <= m
    BY <1>1, <1>2
  <2>2. \A n \in 1..m : n \in 1..M
    BY <1>1, <1>2
  <2> QED BY <1>1, <1>4, <2>1, <2>2, Zenon
<1>6. Cardinality(1..m) = m
  <2>1. Cardinality(1..m) = IF 1 > m THEN 0 ELSE m - 1 + 1
    BY <1>1, <1>2, FS_Interval
  <2> QED BY <1>1, <1>2, <2>1
<1> QED BY <1>5, <1>6 DEF Through

(* The end of a summary and the messages after the k-th is the end of the   *)
(* messages.                                                                *)
LEMMA TailCut ==
  ASSUME NEW S, NEW T \in Seq(S), NEW c \in S, NEW k \in 0..Len(T),
         NEW n \in 1..(Len(T) - k + 1)
  PROVE  SubSeq(<<c>> \o SubSeq(T, k + 1, Len(T)), n + 1, Len(T) - k + 1)
           = SubSeq(T, k + n, Len(T))
<1> DEFINE A == SubSeq(T, k + 1, Len(T))
           C == <<c>> \o A
           B == SubSeq(C, n + 1, Len(T) - k + 1)
           D == SubSeq(T, k + n, Len(T))
<1>1. /\ Len(T) \in Nat /\ k \in Nat /\ k <= Len(T) /\ n \in Nat /\ n >= 1
      /\ n <= Len(T) - k + 1
  OBVIOUS
<1>2. A \in Seq(S) /\ Len(A) = Len(T) - k /\ \A j \in 1..(Len(T) - k) : A[j] = T[k + j]
  BY <1>1
<1> HIDE DEF A
<1>3. C \in Seq(S) /\ Len(C) = Len(T) - k + 1
      /\ \A j \in 1..(Len(T) - k) : C[j + 1] = A[j]
  <2>1. <<c>> \in Seq(S) /\ Len(<<c>>) = 1
    OBVIOUS
  <2>2. /\ C \in Seq(S) /\ Len(C) = 1 + Len(A)
        /\ \A i \in 1..(1 + Len(A)) : C[i] = IF i <= 1 THEN <<c>>[i] ELSE A[i - 1]
    BY <1>2, <2>1, ConcatProperties
  <2>3. ASSUME NEW j \in 1..(Len(T) - k) PROVE C[j + 1] = A[j]
    <3>1. j + 1 \in 1..(1 + Len(A)) /\ ~(j + 1 <= 1) /\ (j + 1) - 1 = j
      BY <1>1, <1>2
    <3> HIDE DEF C
    <3> QED BY <2>2, <3>1
  <2> QED BY <1>1, <1>2, <2>2, <2>3
<1> HIDE DEF C
<1>4. B \in Seq(S) /\ Len(B) = Len(T) - k + 1 - n
      /\ \A j \in 1..(Len(T) - k + 1 - n) : B[j] = C[n + j]
  <2> DEFINE a == n + 1
             b == Len(T) - k + 1
  <2>1. a \in Int /\ b \in Int /\ a >= 1 /\ b = Len(C) /\ b - a + 1 = Len(T) - k + 1 - n
    BY <1>1, <1>3
  <2>2. b - a + 1 \in Nat /\ \A j \in 1..(b - a + 1) : a + j - 1 = n + j
    BY <1>1
  <2>3. (IF a <= b THEN b - a + 1 ELSE 0) = b - a + 1
    BY <2>1, <2>2
  <2>4. ASSUME NEW i \in a..b PROVE C[i] \in S
    <3>1. i \in 1..Len(C)
      BY <2>1
    <3> QED BY <1>3, <3>1
  <2>5. /\ a \in Int /\ b \in Int /\ \A i \in a..b : C[i] \in S
        /\ b - a + 1 = Len(T) - k + 1 - n /\ (IF a <= b THEN b - a + 1 ELSE 0) = b - a + 1
        /\ \A j \in 1..(b - a + 1) : a + j - 1 = n + j
    BY <2>1, <2>2, <2>3, <2>4, Zenon
  <2>6. B = SubSeq(C, a, b)
    OBVIOUS
  <2> HIDE DEF a, b, B
  <2>7. /\ SubSeq(C, a, b) \in Seq(S)
        /\ Len(SubSeq(C, a, b)) = IF a <= b THEN b - a + 1 ELSE 0
        /\ \A j \in 1..(b - a + 1) : SubSeq(C, a, b)[j] = C[a + j - 1]
    BY <2>5, SubSeqProperties
  <2> QED BY <2>5, <2>6, <2>7
<1>5. D \in Seq(S) /\ Len(D) = Len(T) - k + 1 - n
      /\ \A j \in 1..(Len(T) - k + 1 - n) : D[j] = T[k + n + j - 1]
  BY <1>1
<1> HIDE DEF B, D
<1>6. ASSUME NEW j \in 1..Len(B) PROVE B[j] = D[j]
  <2>1. /\ j \in 1..(Len(T) - k + 1 - n) /\ n + j - 1 \in 1..(Len(T) - k)
        /\ n + j = (n + j - 1) + 1 /\ k + (n + j - 1) = k + n + j - 1
    BY <1>1, <1>4
  <2>2. B[j] = C[(n + j - 1) + 1] /\ D[j] = T[k + (n + j - 1)]
    BY <1>4, <1>5, <2>1
  <2> QED BY <1>2, <1>3, <2>1, <2>2
<1>7. B = D
  BY <1>4, <1>5, <1>6, SeqEqual
<1> QED BY <1>7 DEF A, B, C, D

(* A compaction begins without a step.                                      *)
LEMMA CompactionOpens ==
  ASSUME NEW t, NEW t1, t \in State, t1 \in State, NEW op \in Id, NEW input \in Id,
         NEW result, NEW source, Reduces(t, t1, CompactionStarted(op, input, result, source))
  PROVE  Idle(t) /\ t1.operation.step = None
<1> DEFINE f == CompactionStarted(op, input, result, source)
           o == [kind |-> "compaction", id |-> op, input |-> input, step |-> None,
                 abort |-> FALSE]
<1>1. f.type = "compactionStarted" /\ f.op = op /\ f.input = input
  BY DEF CompactionStarted
<1> HIDE DEF f
<1>2. CanCompactionStarted(t, f) /\ t1 = DoCompactionStarted(t, f)
  BY <1>1, Reduced DEF ReducesCompactionStarted, f
<1>3. t1.operation = o
  BY <1>1, <1>2 DEF DoCompactionStarted, State
<1> QED BY <1>2, <1>3 DEF CanCompactionStarted

(* The messages that a compaction does not summarise are the last ones.     *)
LEMMA KeptTail ==
  ASSUME s \in State, ContextSide(s), ~NothingToCompact
  PROVE  /\ Len(s.transcript) \in DOMAIN s.transcript
         /\ Len(s.transcript) - Kept \in DOMAIN s.transcript
         /\ SubSeq(s.transcript, Len(s.transcript) - Kept + 1, Len(s.transcript))
              = SubSeq(s.context, Cut + 1, Len(s.context))
<1> DEFINE T == s.transcript
           C == s.context
           n == Cut
<1>1. T \in Seq(Id) /\ C \in Seq(Id) /\ s.order \in Seq(Id)
  BY Fields
<1>2. n \in 0..Len(C)
  BY CutType
<1>3. n # 0 /\ ~(Len(T) <= Len(C) - n) /\ Kept = Len(C) - n
  BY Zenon DEF NothingToCompact, Kept
<1> HIDE DEF n
<1>4. Len(T) \in Nat /\ Len(C) \in Nat /\ n \in Nat /\ n >= 1 /\ n <= Len(C)
  BY <1>1, <1>2, <1>3
<1>5. /\ Len(T) \in DOMAIN T /\ Len(T) - (Len(C) - n) \in DOMAIN T
  <2>1. DOMAIN T = 1..Len(T)
    BY <1>1
  <2>2. ASSUME NEW m \in Nat, NEW l \in Nat, ~(m <= l - n), n <= l
        PROVE  m \in 1..m /\ m - (l - n) \in 1..m
    BY <1>4, <2>2
  <2>3. Len(T) \in 1..Len(T) /\ Len(T) - (Len(C) - n) \in 1..Len(T)
    BY <1>3, <1>4, <2>2
  <2> QED BY <2>1, <2>3, Zenon
<1>6. SubSeq(T, Len(T) - (Len(C) - n) + 1, Len(T)) = SubSeq(C, n + 1, Len(C))
  <2>1. CASE C = T
    <3>1. Len(T) - (Len(C) - n) + 1 = n + 1
      BY <1>4, <2>1
    <3> QED BY <2>1, <3>1
  <2>2. CASE \E m \in DOMAIN s.order, k \in 0..Len(T) :
               C = <<s.order[m]>> \o SubSeq(T, k + 1, Len(T))
    <3>1. PICK m \in DOMAIN s.order, k \in 0..Len(T) :
            C = <<s.order[m]>> \o SubSeq(T, k + 1, Len(T))
      BY <2>2
    <3> DEFINE c == s.order[m]
    <3>2. c \in Id
      BY <1>1
    <3> HIDE DEF c
    <3>3. C = <<c>> \o SubSeq(T, k + 1, Len(T))
      BY <3>1 DEF c
    <3>4. Len(C) = Len(T) - k + 1
      <4>1. SubSeq(T, k + 1, Len(T)) \in Seq(Id) /\ Len(SubSeq(T, k + 1, Len(T))) = Len(T) - k
        BY <1>1, <1>4
      <4> HIDE DEF C
      <4> QED BY <1>4, <3>2, <3>3, <4>1, ConcatProperties
    <3> HIDE DEF C, T
    <3>5. n \in 1..(Len(T) - k + 1) /\ Len(T) - (Len(C) - n) + 1 = k + n
      BY <1>4, <3>4
    <3>6. SubSeq(<<c>> \o SubSeq(T, k + 1, Len(T)), n + 1, Len(T) - k + 1)
            = SubSeq(T, k + n, Len(T))
      BY <1>1, <3>2, <3>5, TailCut
    <3> QED BY <3>3, <3>4, <3>5, <3>6, Zenon
  <2> QED BY <2>1, <2>2 DEF ContextSide
<1> QED BY <1>3, <1>5, <1>6 DEF n

(* A compaction begins without a call and keeps the messages it does not    *)
(* send.                                                                    *)
LEMMA StartCompactionSides == ASSUME IInv, JInv, IInv', StartCompaction PROVE JInv'
<1> DEFINE f == CompactionStarted(New(1), s.through, New(2), Source(s, s.through))
<1>1. /\ pc = "compact"
      /\ \/ /\ (pc' = "start" /\ job' = NoJob) \/ Return
            /\ s' = s /\ compacted' = compacted
         \/ /\ ~NothingToCompact /\ Room(2)
            /\ compacted' = s.transcript[Len(s.transcript) - Kept]
            /\ s' \in ReduceLine(s, <<f>>) /\ pc' = "admit"
         \/ s' = s /\ compacted' = compacted /\ (pc' = "start" \/ Exit)
  BY Zenon DEF StartCompaction, CompactionErr, CompactionRefused, CommitOr, Goto,
     Set, file, session
<1>2. s \in State /\ FileInv(s) /\ Good(s) /\ TailSide(s) /\ OrderSide(s)
  BY DEF IInv, TypeOK, FileInv, Good
<1>3. CASE s' = s /\ compacted' = compacted /\ (pc' = "start" \/ Return \/ Exit)
  <2>1. pc' \in AtRest
    BY <1>3, ReturnAtRest DEF AtRest
  <2> QED BY <1>3, <2>1, SameRests
<1>4. CASE /\ ~NothingToCompact /\ Room(2)
           /\ compacted' = s.transcript[Len(s.transcript) - Kept]
           /\ s' \in ReduceLine(s, <<f>>) /\ pc' = "admit"
  <2>1. /\ New(1) \in Id /\ New(2) \in Id /\ s.through \in Id /\ Source(s, s.through) \in Seq(Id)
    BY <1>2, <1>4, Allocates, CompactionBounds
  <2>2. f \in Facts /\ f.type = "compactionStarted"
    BY <2>1, CompactionFactTypes DEF CompactionStarted
  <2>3. Reduces(s, s', f) /\ s' \in State /\ FileInv(s') /\ Good(s')
    BY <1>4, LineOne DEF IInv, TypeOK, FileInv
  <2>4. Idle(s) /\ s'.operation.step = None
    BY <1>2, <2>1, <2>3, CompactionOpens
  <2> HIDE DEF f
  <2>5. Keeps(s, s', {f})
    BY <1>2, <2>2, <2>3, KeepsOne
  <2>6. /\ Without({f}, {"assistant"})
        /\ Without({f}, {"user", "assistant", "synthetic", "result", "compaction"})
    BY <2>2 DEF Without
  <2>7. s'.unanswered = {}
    BY <1>2, <2>4, <2>5, <2>6, NoneAsked, NoneNew DEF JInv
  <2>8. OpenSide(s')
    BY <2>3, <2>7, NoneOpen
  <2>9. Silent(s, s')
    BY <2>5, <2>6, Zenon DEF Keeps, KeepsMessages
  <2>10. CutFits'
    <3> SUFFICES ASSUME ~NoCompaction(s')
                 PROVE  Retained(s', compacted') = SubSeq(s'.context, Cut' + 1, Len(s'.context))
      BY Zenon DEF CutFits
    <3> DEFINE M == Len(s.transcript)
    <3>1. /\ M \in DOMAIN s.transcript /\ M - Kept \in DOMAIN s.transcript
          /\ SubSeq(s.transcript, M - Kept + 1, M) = SubSeq(s.context, Cut + 1, Len(s.context))
      BY <1>2, <1>4, KeptTail DEF TailSide
    <3>2. s'.transcript = s.transcript /\ s'.context = s.context
      BY <2>9 DEF Silent
    <3>3. s'.operation.input = s.transcript[M]
      BY <2>3, <3>2, Zenon DEF FileInv, TailSide, InputSide
    <3>4. OrderSide(s')
      BY <2>3 DEF Good
    <3> HIDE DEF M
    <3>5. /\ Through(s', s.transcript[M]) = M
          /\ Through(s', s.transcript[M - Kept]) = M - Kept
      BY <2>3, <3>1, <3>2, <3>4, ThroughAt
    <3>6. compacted' = s.transcript[M - Kept]
      BY <1>4 DEF M
    <3>7. Retained(s', compacted') = SubSeq(s.transcript, M - Kept + 1, M)
      BY <3>2, <3>3, <3>5, <3>6, Zenon DEF Retained
    <3>8. Cut' = Cut
      BY <2>9, SilentCut
    <3> QED BY <3>1, <3>2, <3>7, <3>8, Zenon
  <2>11. CallsFit(s', pc', job') /\ AdmitFits(s', pc')
    BY <1>4, <2>4 DEF CallsFit, AdmitFits, AtCall, AtTool, Unsettled
  <2> QED BY <2>8, <2>10, <2>11, Zenon DEF JInv
<1> QED BY <1>1, <1>3, <1>4

-----------------------------------------------------------------------------
(* The start of a run *)

(* A run starts when every call has its result.                             *)
LEMMA StartRunSides == ASSUME IInv, JInv, IInv', StartRun PROVE JInv'
<1> DEFINE f == UserMessage(New(1))
           g == RunStarted(New(2), New(1))
<1>1. /\ pc = "start" /\ Room(2) /\ UNCHANGED <<compacted, now, history, left>>
      /\ \/ s' \in ReduceLine(s, <<f, g>>) /\ pc' = "step"
         \/ s' = s /\ Exit
  BY Zenon DEF StartRun, Commit, CommitOr, Goto, session
<1>2. s \in State /\ FileInv(s) /\ Good(s)
  BY DEF IInv, TypeOK, FileInv
<1>3. New(1) \in Id /\ New(2) \in Id
  BY <1>1, <1>2, Allocates
<1>4. f \in Facts /\ g \in Facts
  BY <1>3, RunFactTypes
<1>5. f.type = "user" /\ g.type = "runStarted"
  BY DEF UserMessage, RunStarted
<1>6. CASE s' \in ReduceLine(s, <<f, g>>) /\ pc' = "step"
  <2>1. PICK m : Reduces(s, m, f) /\ Reduces(m, s', g)
    BY <1>6, LineTwo
  <2>2. Good(m) /\ Good(s')
    BY <1>2, <1>4, <2>1, GoodNext
  <2>3. m \in State /\ s' \in State /\ Sound(s) /\ Ledger(s)
    BY <1>2, <2>2 DEF Good, Sound
  <2>4. Idle(m)
    BY <1>3, <2>1, <2>3, RunBegun
  <2>5. Idle(s)
    <3>1. FactDoes(s, m, f)
      BY <1>2, <1>4, <2>1, FactCases
    <3>2. StepKept(s, m)
      BY <1>5, <2>3, <3>1, FactStep DEF Steady
    <3> QED BY <2>4, <3>2 DEF StepKept
  <2> HIDE DEF f, g
  <2>6. Keeps(s, s', {f, g}) /\ NoCompaction(s)
    BY <1>2, <1>4, <1>5, <1>6, <2>5, PlainTwo DEF NoCompaction
  <2>7. s.unanswered = {}
    BY <1>2, <2>5, NoneAsked DEF JInv
  <2>8. Without({f, g}, {"assistant"}) /\ Without({f, g}, {"compactionStarted"})
    BY <1>5 DEF Without
  <2>9. s'.unanswered = {}
    BY <2>6, <2>7, <2>8, NoneNew
  <2>10. OpenSide(s') /\ CutFits'
    BY <2>2, <2>6, <2>8, <2>9, RunSides DEF JInv
  <2>11. CallsFit(s', pc', job') /\ AdmitFits(s', pc')
    BY <1>6, <2>9 DEF CallsFit, AdmitFits, AtCall, AtTool
  <2> QED BY <2>10, <2>11, Zenon DEF JInv
<1>7. CASE s' = s /\ Exit
  BY <1>1, <1>7, RefusedSides
<1> QED BY <1>1, <1>6, <1>7

-----------------------------------------------------------------------------
(* Recovery leaves no call open *)

(* The unanswered calls are among those the recovery planner finds open: it *)
(* takes the calls from the transcript and the answer from the attempt.     *)
LEMMA RecoveryOpen ==
  ASSUME NEW t, Good(t), ~Idle(t), OpenSide(t), NEW c \in t.unanswered
  PROVE  HasCalls(t) /\ \E k \in Open(t) : LastCalls(t)[k].id = c
<1>1. /\ UnansweredOpen(t) /\ CallsDiffer(t) /\ ToolsNameCalls(t) /\ IntentsMatch(t)
      /\ OpenCurrent(t) /\ AskedLast(t) /\ t \in State
  BY DEF Good, CallSide, OpenSide, Ledger, ToolSide, Sound
<1>2. PICK i, k : OpenCall(t, i, k) /\ t.entries[i].calls[k].id = c
  BY <1>1, Zenon DEF UnansweredOpen
<1>3. /\ t.operation.kind = "run" /\ t.operation.step # None /\ SettledEntry(t) = i
  BY <1>1, <1>2, Zenon DEF OpenCurrent, SettledEntry
<1>4. i \in Id /\ t.entries[i] # None /\ k \in DOMAIN t.entries[i].calls
  BY <1>2 DEF OpenCall
<1>5. PICK n \in DOMAIN t.transcript : Asks(t, n)
  BY <1>1, Zenon DEF AskedLast
<1>6. /\ t.transcript[n] = i /\ t.entries[i].type = "assistant"
      /\ \A m \in DOMAIN t.transcript : m > n =>
           /\ t.entries[t.transcript[m]].type = "tool"
           /\ t.entries[t.transcript[m]].call \notin t.unanswered
  BY <1>3, <1>5, Zenon DEF Asks, SettledEntry
<1>7. t.entries[i].calls # << >>
  BY <1>4
<1>8. n \in Callers(t)
  BY <1>6, <1>7 DEF Callers
<1>9. LastCaller(t) = n
  <2>1. LastCaller(t) \in Callers(t) /\ n <= LastCaller(t) /\ LastCaller(t) \in Nat
    BY <1>8, CallerTypes
  <2>2. LastCaller(t) \in DOMAIN t.transcript
        /\ t.entries[t.transcript[LastCaller(t)]].type = "assistant"
    BY <2>1 DEF Callers
  <2>3. ~(LastCaller(t) > n)
    BY <1>6, <2>2
  <2>4. n \in Nat
    BY <1>1, Fields
  <2> QED BY <2>1, <2>3, <2>4
<1>10. LastCalls(t) = t.entries[i].calls
  BY <1>6, <1>9 DEF LastCalls
<1>11. HasCalls(t)
  <2>1. SettledEntry(t) # None
    BY <1>3, <1>4, NoneAssumption
  <2> QED BY <1>3, <1>8, <2>1 DEF HasCalls, SettledEntry
<1>12. c \notin AnsweredIds(t)
  <2> SUFFICES ASSUME c \in AnsweredIds(t) PROVE FALSE
    OBVIOUS
  <2>1. PICK m \in DOMAIN t.transcript : m > n /\ t.entries[t.transcript[m]].call = c
    BY <1>9 DEF AnsweredIds
  <2> QED BY <1>6, <2>1
<1>13. \A u \in Id : t.tools[u] # None /\ t.tools[u].assistant = i /\ t.tools[u].index = k
         => t.tools[u].status = "pending"
  <2> SUFFICES ASSUME NEW u \in Id, t.tools[u] # None, t.tools[u].assistant = i,
                      t.tools[u].index = k
               PROVE  t.tools[u].status = "pending"
    OBVIOUS
  <2>1. CASE <<i, k>> \notin t.pairs
    <3>1. ToolPaired(t)
      BY DEF Good, Ledger, ToolSide
    <3> QED BY <2>1, <3>1 DEF ToolPaired
  <2>2. CASE <<i, k>> \in t.pairs
    <3>1. PICK v \in Id : /\ t.tools[v] # None /\ t.tools[v].status = "pending"
                          /\ t.tools[v].assistant = i /\ t.tools[v].index = k
      BY <1>2, <2>2, Zenon DEF OpenCall
    <3>2. v = u
      BY <1>1, <3>1 DEF IntentsMatch
    <3> QED BY <3>1, <3>2
  <2> QED BY <2>1, <2>2
<1>14. ~Processed(t, k)
  <2> SUFFICES ASSUME NEW u \in ToolsOf(t, t.operation.id), t.tools[u].assistant = i,
                      t.tools[u].call = c, t.tools[u].status = "completed"
               PROVE  FALSE
    BY <1>2, <1>3, <1>10, <1>12, Zenon DEF Processed
  <2>1. u \in Id /\ t.tools[u] # None
    BY DEF ToolsOf
  <2>2. t.tools[u].index \in DOMAIN t.entries[i].calls
        /\ t.entries[i].calls[t.tools[u].index].id = c
    BY <1>1, <2>1 DEF ToolsNameCalls
  <2>3. t.tools[u].index = k
    BY <1>1, <1>2, <1>4, <2>2, Zenon DEF CallsDiffer
  <2>4. t.tools[u].status = "pending"
    BY <1>13, <2>1, <2>3
  <2> QED BY <2>4
<1>15. k \in Open(t)
  <2>1. k \in Unprocessed(t)
    BY <1>4, <1>10, <1>14, Zenon DEF Unprocessed
  <2>2. \A u \in StartedFor(t, k) : t.tools[u].status = "pending"
    BY <1>3, <1>13, Zenon DEF StartedFor, ToolsOf
  <2> QED BY <2>1, <2>2, Zenon DEF Open
<1> QED BY <1>2, <1>10, <1>11, <1>15, Zenon

(* So the planner finishes an operation, or begins its next step, when no   *)
(* call is open, and begins a compaction's only without a summary.          *)
LEMMA PlanLeavesNone ==
  ASSUME NEW t, NEW process, Good(t), ~Idle(t), OpenSide(t)
  PROVE  /\ Plan(t, process).type = "closeAttempt" => Unsettled(t)
         /\ Plan(t, process).type \in {"closeAttempt", "startStep", "finish"}
              => t.unanswered = {}
         /\ Plan(t, process).type = "startStep" /\ t.operation.kind = "compaction"
              => Unsettled(t)
<1> DEFINE plan == Plan(t, process)
<1>0. ~HasCalls(t) \/ Open(t) = {} => t.unanswered = {}
  BY RecoveryOpen, Zenon
<1>1. Unsettled(t) => t.unanswered = {}
  BY NoneAsked
<1>2. Attempting(t) => Unsettled(t)
  BY DEF Attempting, Unsettled
<1>3. CASE t.operation.abort
  <2>1. plan = PlanAbort(t)
    BY <1>3, Zenon DEF Plan
  <2>2. \/ Attempting(t) /\ plan.type = "closeAttempt"
        \/ plan.type = "appendSynthetic"
        \/ (~HasCalls(t) \/ Open(t) = {}) /\ plan.type = "finish"
    BY <2>1 DEF PlanAbort, CloseAttempt, AppendSynthetic, Finish
  <2> HIDE DEF plan
  <2>3. /\ plan.type = "closeAttempt" => Unsettled(t)
        /\ plan.type \in {"closeAttempt", "startStep", "finish"} => t.unanswered = {}
        /\ plan.type # "startStep"
    BY <1>0, <1>1, <1>2, <2>2
  <2> QED BY <2>3 DEF plan
<1>4. CASE ~t.operation.abort /\ t.operation.step = None
  <2>1. plan = StartStep(1, None, t.operation.input) /\ Unsettled(t)
    BY <1>4, Zenon DEF Plan, Unsettled
  <2>2. plan.type = "startStep"
    BY <2>1 DEF StartStep
  <2> QED BY <1>1, <2>1, <2>2
<1>5. CASE ~t.operation.abort /\ t.operation.step # None /\ t.operation.step.status = "failed"
  <2>1. plan = Finish("failed", None)
    BY <1>5, Zenon DEF Plan
  <2>2. plan.type = "finish" /\ Unsettled(t)
    BY <1>5, <2>1 DEF Finish, Unsettled
  <2> QED BY <1>1, <2>2
<1>6. CASE /\ ~t.operation.abort /\ t.operation.step # None
           /\ t.operation.step.status # "failed" /\ Attempting(t)
  <2>1. plan = PlanAttempting(t, process)
    BY <1>6, Zenon DEF Plan
  <2>2. plan.type # "closeAttempt"
    BY <2>1 DEF PlanAttempting, Blocked, StartStep
  <2> QED BY <1>1, <1>2, <1>6, <2>2
<1>7. CASE /\ ~t.operation.abort /\ t.operation.step # None
           /\ t.operation.step.status # "failed" /\ ~Attempting(t)
  <2>1. plan = PlanSettled(t, process)
    BY <1>7, Zenon DEF Plan
  <2>2. CASE t.operation.kind = "compaction"
    <3>1. plan.type = "finish"
      BY <2>1, <2>2 DEF PlanSettled, Finish
    <3>2. t.unanswered = {}
      BY <2>2, NoneAsked
    <3> QED BY <3>1, <3>2
  <2>3. CASE t.operation.kind # "compaction" /\ ~HasCalls(t)
    <3>1. plan.type = "finish"
      BY <2>1, <2>3 DEF PlanSettled, Finish
    <3> QED BY <1>0, <2>3, <3>1
  <2>4. CASE /\ t.operation.kind # "compaction" /\ HasCalls(t)
             /\ t.entries[SettledEntry(t)].stop = "length"
    <3>1. plan = PlanTruncated(t)
      BY <2>1, <2>4, Zenon DEF PlanSettled
    <3>2. plan.type = "appendSynthetic" \/ (plan.type = "finish" /\ Unprocessed(t) = {})
      BY <3>1 DEF PlanTruncated, AppendSynthetic, Finish
    <3>3. Unprocessed(t) = {} => Open(t) = {}
      BY DEF Open
    <3> HIDE DEF plan
    <3>4. plan.type = "appendSynthetic" \/ (plan.type = "finish" /\ t.unanswered = {})
      BY <1>0, <3>2, <3>3
    <3> QED BY <3>4 DEF plan
  <2>5. CASE /\ t.operation.kind # "compaction" /\ HasCalls(t)
             /\ t.entries[SettledEntry(t)].stop # "length"
    <3>1. plan = PlanCalls(t, process)
      BY <2>1, <2>5, Zenon DEF PlanSettled
    <3>2. CASE Open(t) = {}
      <4>1. plan.type \in {"startStep", "blocked"}
        BY <3>1, <3>2 DEF PlanCalls, StartStep, Blocked
      <4> QED BY <1>0, <2>5, <3>2, <4>1
    <3>3. CASE Open(t) # {}
      <4>1. \A u : PlanStarted(t, process, u).type \in {"blocked", "appendSynthetic", "startTool"}
        BY DEF PlanStarted, Blocked, AppendSynthetic, Replay
      <4>2. \A k : PlanUnstarted(t, process, k).type \in {"blocked", "appendSynthetic", "startTool"}
        BY DEF PlanUnstarted, Blocked, AppendSynthetic, Start
      <4>3. \/ \E u : plan = PlanStarted(t, process, u)
            \/ \E k : plan = PlanUnstarted(t, process, k)
        BY <3>1, <3>3, Zenon DEF PlanCalls
      <4> HIDE DEF plan
      <4>4. plan.type \in {"blocked", "appendSynthetic", "startTool"}
        BY <4>1, <4>2, <4>3, Zenon
      <4>5. plan.type \notin {"closeAttempt", "startStep", "finish"}
        BY <4>4
      <4> QED BY <4>5 DEF plan
    <3> QED BY <3>2, <3>3
  <2> QED BY <2>2, <2>3, <2>4, <2>5
<1> QED BY <1>3, <1>4, <1>5, <1>6, <1>7

(* What recovery holds while it carries out a plan.                         *)
LEMMA RecoverySides ==
  ASSUME IInv, JInv, pc = "recover", ~Idle(s)
  PROVE  /\ Good(s) /\ FileInv(s) /\ OpenSide(s)
         /\ RecoveryPlan.type = "closeAttempt" => Unsettled(s)
         /\ RecoveryPlan.type \in {"closeAttempt", "startStep", "finish"} => s.unanswered = {}
         /\ RecoveryPlan.type = "startStep" /\ s.operation.kind = "compaction" => Unsettled(s)
<1>1. Good(s) /\ FileInv(s) /\ OpenSide(s)
  BY RecoveryNow DEF JInv
<1> QED BY <1>1, PlanLeavesNone DEF RecoveryPlan

(* The end of an attempt leaves the messages alone.                         *)
LEMMA RecoverCloseSides == ASSUME IInv, JInv, IInv', RecoverCloseAttempt PROVE JInv'
<1> DEFINE f == StepFailed(s.operation.id, CurrentStep, s.operation.step.attempt)
<1>1. /\ pc = "recover" /\ ~Idle(s) /\ RecoveryPlan.type = "closeAttempt"
      /\ UNCHANGED <<compacted, now, history, left>>
      /\ \/ s' \in ReduceLine(s, <<f>>) /\ Again
         \/ s' = s /\ Exit
  BY Zenon DEF RecoverCloseAttempt, Recovers, Commit, CommitOr, session
<1>2. /\ s \in State /\ FileInv(s) /\ Sound(s) /\ PlanFits(s, now, RecoveryPlan)
      /\ s.operation.id \in Id
  BY <1>1, RecoveryNow
<1>3. s.operation.step # None
  BY <1>1, <1>2 DEF PlanFits
<1>4. s.operation.step.attempt \in Id /\ CurrentStep \in Id
  BY <1>1, <1>2, <1>3, CurrentTypes, StepTypes DEF CurrentStep
<1>5. f \in Facts
  BY <1>2, <1>4, FailureFactTypes
<1>6. f.type = "stepFailed"
  BY DEF StepFailed
<1> HIDE DEF f
<1>7. CASE s' \in ReduceLine(s, <<f>>) /\ Again
  <2>1. Keeps(s, s', {f})
    BY <1>2, <1>5, <1>6, <1>7, PlainOne
  <2>2. /\ Without({f}, {"user", "assistant", "synthetic", "result", "compactionStarted"})
        /\ Without({f}, {"compaction"})
    BY <1>6 DEF Without
  <2>3. Unsettled(s) /\ s.unanswered = {}
    BY <1>1, RecoverySides
  <2>4. pc' \in AtRest /\ compacted' = compacted
    BY <1>1, <1>7 DEF Again, AtRest
  <2>5. OpenSide(s') /\ CutFits'
    BY <2>1, <2>2, <2>3, <2>4, QuietSides
  <2> QED BY <2>4, <2>5, RestsSides
<1>8. CASE s' = s /\ Exit
  BY <1>1, <1>8, RefusedSides
<1> QED BY <1>1, <1>7, <1>8

(* Nothing is compacted any more once the operation is finished.            *)
LEMMA RecoverFinishSides == ASSUME IInv, JInv, IInv', RecoverFinish PROVE JInv'
<1> DEFINE f == OperationFinished(s.operation.id, s.operation.kind, RecoveryPlan.outcome,
                                  RecoveryPlan.final)
<1>1. /\ pc = "recover" /\ ~Idle(s) /\ RecoveryPlan.type = "finish"
      /\ UNCHANGED <<compacted, now, history, left>>
      /\ \/ s' \in ReduceLine(s, <<f>>) /\ Again
         \/ s' = s /\ Exit
  BY Zenon DEF RecoverFinish, Recovers, Commit, CommitOr, session
<1>2. /\ FileInv(s) /\ Good(s) /\ PlanFits(s, now, RecoveryPlan)
      /\ s.operation.id \in Id /\ s.operation.kind \in {"run", "compaction"}
  BY <1>1, RecoveryNow
<1>3. RecoveryPlan.outcome \in Outcome /\ RecoveryPlan.final \in Id \cup {None}
  BY <1>1, <1>2 DEF PlanFits
<1>4. f \in Facts
  BY <1>2, <1>3, FinishFactTypes
<1>5. f.type = "operationFinished"
  BY DEF OperationFinished
<1> HIDE DEF f
<1>6. CASE s' \in ReduceLine(s, <<f>>) /\ Again
  <2>1. Keeps(s, s', {f}) /\ Reduces(s, s', f)
    BY <1>2, <1>4, <1>5, <1>6, PlainOne
  <2>2. Without({f}, {"user", "assistant", "synthetic", "result", "compactionStarted"})
    BY <1>5 DEF Without
  <2>3. s.unanswered = {}
    BY <1>1, RecoverySides
  <2>4. pc' \in AtRest /\ compacted' = compacted
    BY <1>1, <1>6 DEF Again, AtRest
  <2>5. NoCompaction(s')
    <3>1. Idle(s')
      BY <1>2, <1>4, <1>5, <2>1, FinishIdles
    <3> QED BY <3>1 DEF NoCompaction
  <2>6. OpenSide(s') /\ CutFits'
    BY <2>1, <2>2, <2>3, <2>4, <2>5, QuietSides
  <2> QED BY <2>4, <2>6, RestsSides
<1>7. CASE s' = s /\ Exit
  BY <1>1, <1>7, RefusedSides
<1> QED BY <1>1, <1>6, <1>7

(* Results answer calls of the current step.                                *)
LEMMA RecoverSyntheticSides == ASSUME IInv, JInv, IInv', RecoverSynthetic PROVE JInv'
<1> DEFINE results == RecoveryPlan.results
           Fact(n) ==
             IF "tool" \in DOMAIN results[n]
               THEN Result(results[n].tool)
               ELSE SyntheticToolResult(New(n), CurrentStep, SettledEntry(s),
                      results[n].index, LastCalls(s)[results[n].index])
           facts == [n \in DOMAIN results |-> Fact(n)]
           Answering == {f \in Closing : f.type \in {"synthetic", "result"}}
<1>1. /\ pc = "recover" /\ ~Idle(s) /\ RecoveryPlan.type = "appendSynthetic"
      /\ UNCHANGED <<compacted, now, history, left>> /\ Room(Len(results))
      /\ \/ s' \in ReduceLine(s, facts) /\ Again
         \/ s' = s /\ Exit
  BY Zenon DEF RecoverSynthetic, Recovers, Commit, CommitOr, session
<1>2. s \in State /\ FileInv(s) /\ Good(s) /\ PlanFits(s, now, RecoveryPlan)
  BY <1>1, RecoveryNow
<1>3. HasCalls(s) /\ ResultsFit(s, results)
  BY <1>1, <1>2 DEF PlanFits
<1>4. /\ Len(results) \in Nat /\ DOMAIN results = 1..Len(results)
      /\ \A n \in DOMAIN results : ResultFits(s, results[n])
  BY <1>3 DEF ResultsFit
<1>5. /\ s.operation.kind = "run" /\ CurrentStep \in Id /\ SettledEntry(s) \in Id
      /\ Callers(s) # {}
  BY <1>1, <1>2, <1>3, HasCallsTypes DEF CurrentStep
<1>6. LastCalls(s) \in Seq(Call) /\ DOMAIN LastCalls(s) = 1..Len(LastCalls(s))
  BY <1>2, <1>5, CallerTypes
<1>7. ASSUME NEW n \in 1..Len(results) PROVE Fact(n) \in Answering
  <2> HIDE DEF results
  <2>1. ResultFits(s, results[n]) /\ New(n) \in Id
    BY <1>1, <1>2, <1>4, Allocates
  <2>2. CASE "tool" \in DOMAIN results[n]
    <3>1. Result(results[n].tool) \in Facts
      BY <1>2, <2>1, <2>2, ResultFactTypes DEF ResultFits
    <3>2. Result(results[n].tool).type = "result"
      BY DEF Result, ToolResult
    <3> QED BY <2>2, <3>1, <3>2 DEF Closing
  <2>3. CASE "tool" \notin DOMAIN results[n]
    <3>1. results[n].index \in DOMAIN LastCalls(s)
      BY <2>1, <2>3 DEF ResultFits
    <3>2. results[n].index \in Nat /\ LastCalls(s)[results[n].index] \in Call
      BY <1>6, <3>1
    <3> DEFINE g == SyntheticToolResult(New(n), CurrentStep, SettledEntry(s),
                      results[n].index, LastCalls(s)[results[n].index])
    <3>3. g \in Facts
      BY <1>5, <2>1, <3>2, SyntheticFactTypes
    <3>4. g.type = "synthetic"
      BY DEF SyntheticToolResult
    <3> QED BY <2>3, <3>3, <3>4 DEF Closing
  <2> QED BY <2>2, <2>3
<1>8. facts \in Seq(Closing) /\ Members(facts) \subseteq Answering
  <2> HIDE DEF results
  <2>1. facts = [n \in 1..Len(results) |-> Fact(n)]
    BY <1>4, Zenon
  <2> HIDE DEF Fact, facts
  <2>2. facts \in [1..Len(results) -> Answering]
    BY <1>7, <2>1
  <2> HIDE DEF Answering
  <2>3. facts \in Seq(Answering) /\ Len(facts) = Len(results)
    BY <1>4, <2>2
  <2>4. Members(facts) \subseteq Answering
    BY <1>4, <2>2, <2>3 DEF Members
  <2>5. facts \in Seq(Closing)
    <3>1. Answering \subseteq Closing
      BY DEF Answering
    <3> QED BY <2>3, <3>1
  <2> QED BY <2>4, <2>5
<1> HIDE DEF facts
<1>9. CASE s' \in ReduceLine(s, facts) /\ Again
  <2>1. NoCompaction(s) /\ Good(s')
    BY <1>5 DEF NoCompaction, IInv, FileInv
  <2>2. Keeps(s, s', Members(facts))
    BY <1>2, <1>8, <1>9, <2>1, ClosingLine
  <2> DEFINE F == Members(facts)
  <2> HIDE DEF F
  <2>3. \A f \in F : f.type \in {"synthetic", "result"}
    BY <1>8 DEF F
  <2>4. Without(F, {"compactionStarted"}) /\ F \subseteq {f \in F : f.type \in Steady}
    BY <2>3 DEF Without, Steady
  <2>5. OpenSide(s') /\ CutFits'
    BY <2>1, <2>2, <2>4, RunSides DEF JInv, F
  <2>6. pc' \in AtRest
    BY <1>1, <1>9 DEF Again, AtRest
  <2> QED BY <2>5, <2>6, RestsSides
<1>10. CASE s' = s /\ Exit
  BY <1>1, <1>10, RefusedSides
<1> QED BY <1>1, <1>9, <1>10

(* A tool is executed again for a call that has no result.                  *)
LEMMA RecoverReplaySides == ASSUME IInv, JInv, RecoverReplay PROVE JInv'
<1>1. /\ pc = "recover" /\ ~Idle(s) /\ pc' = "execute" /\ s' = s /\ compacted' = compacted
      /\ job' = [Recovering EXCEPT !.tool = RecoveryPlan.tool, !.direct = TRUE]
  BY DEF RecoverReplay, Recovers, Goto, Set, file, session
<1>2. job'.direct
  BY <1>1 DEF Recovering, NoJob
<1>3. CallsFit(s, pc', job') /\ AdmitFits(s, pc')
  BY <1>1, <1>2 DEF CallsFit, AdmitFits, AtCall, AtTool, AtAnswer
<1> QED BY <1>1, <1>3, SameSides

(* So is one that was not started.                                          *)
LEMMA RecoverStartSides == ASSUME IInv, JInv, IInv', RecoverStart PROVE JInv'
<1> DEFINE k == RecoveryPlan.index
           call == LastCalls(s)[k]
           f == ToolStarted(New(1), s.operation.id, CurrentStep, SettledEntry(s), k, call,
                            now.replay[call.name], now.key[call.name], now.env, New(2))
<1>1. /\ pc = "recover" /\ ~Idle(s) /\ RecoveryPlan.type = "startTool"
      /\ RecoveryPlan.mode = "start" /\ Room(2)
      /\ UNCHANGED <<compacted, now, history, left>>
      /\ \/ s' = s /\ Exit
         \/ /\ s' \in ReduceLine(s, <<f>>) /\ pc' = "execute"
            /\ job' = [Recovering EXCEPT !.tool = New(1), !.direct = TRUE]
  BY Zenon DEF RecoverStart, Recovers, Commit, CommitOr, Goto, Set, session
<1>2. /\ s \in State /\ FileInv(s) /\ Good(s) /\ PlanFits(s, now, RecoveryPlan)
      /\ s.operation.id \in Id /\ now \in Setups
  BY <1>1, RecoveryNow
<1>3. HasCalls(s) /\ k \in DOMAIN LastCalls(s)
  BY <1>1, <1>2 DEF PlanFits
<1>4. /\ s.operation.kind = "run" /\ CurrentStep \in Id /\ SettledEntry(s) \in Id
      /\ Callers(s) # {}
  BY <1>1, <1>2, <1>3, HasCallsTypes DEF CurrentStep
<1>5. k \in Nat /\ call \in Call
  BY <1>2, <1>3, <1>4, CallerTypes
<1>6. New(1) \in Id /\ New(2) \in Id
  BY <1>1, <1>2, Allocates
<1>7. f \in Facts
  BY <1>2, <1>4, <1>5, <1>6, ToolFactTypes
<1>8. f.type = "toolStarted"
  BY DEF ToolStarted
<1> HIDE DEF f
<1>9. CASE /\ s' \in ReduceLine(s, <<f>>) /\ pc' = "execute"
           /\ job' = [Recovering EXCEPT !.tool = New(1), !.direct = TRUE]
  <2>1. Keeps(s, s', {f})
    BY <1>2, <1>7, <1>8, <1>9, PlainOne
  <2>2. Without({f}, {"compactionStarted"}) /\ {f} \subseteq {g \in {f} : g.type \in Steady}
    BY <1>8 DEF Without, Steady
  <2>3. NoCompaction(s) /\ Good(s')
    BY <1>4 DEF NoCompaction, IInv, FileInv
  <2>4. OpenSide(s') /\ CutFits'
    BY <2>1, <2>2, <2>3, RunSides DEF JInv
  <2>5. job'.direct
    BY <1>9 DEF Recovering, NoJob
  <2>6. CallsFit(s', pc', job') /\ AdmitFits(s', pc')
    BY <1>9, <2>5 DEF CallsFit, AdmitFits, AtCall, AtTool, AtAnswer
  <2> QED BY <2>4, <2>6, Zenon DEF JInv
<1>10. CASE s' = s /\ Exit
  BY <1>1, <1>10, RefusedSides
<1> QED BY <1>1, <1>9, <1>10

(* The next step begins when no call is open.                               *)
LEMMA RecoverStepSides == ASSUME IInv, JInv, RecoverStep PROVE JInv'
<1>1. /\ pc = "recover" /\ ~Idle(s) /\ RecoveryPlan.type = "startStep"
      /\ s' = s /\ compacted' = compacted
      /\ pc' = (IF s.operation.kind = "run" THEN "step" ELSE "admit")
  BY DEF RecoverStep, Recovers, Goto, file, session
<1>2. /\ s.unanswered = {}
      /\ s.operation.kind = "compaction" => Unsettled(s)
  BY <1>1, RecoverySides
<1>3. s.operation.kind \in {"run", "compaction"}
  BY <1>1, RecoveryNow
<1>4. CallsFit(s, pc', job') /\ AdmitFits(s, pc')
  BY <1>1, <1>2, <1>3 DEF CallsFit, AdmitFits, AtCall, AtTool
<1> QED BY <1>1, <1>4, SameSides

-----------------------------------------------------------------------------
(* The terminal thread and the invariant *)

(* An abort request opens no call and leaves the messages alone.            *)
LEMMA RequestSides == ASSUME IInv, JInv, IInv', Request PROVE JInv'
<1> DEFINE f == AbortRequested(s.operation.id, s.operation.kind, Phase, RequestedCall)
<1>1. /\ pc' = pc /\ job' = job /\ compacted' = compacted
      /\ \/ s' = s
         \/ ~Idle(s) /\ s' \in ReduceLine(s, <<f>>)
  BY DEF Request, session
<1>2. s \in State /\ FileInv(s) /\ Good(s) /\ job \in Job
  BY DEF IInv, TypeOK, FileInv
<1>3. CASE s' = s
  <2>1. CallsFit(s, pc', job') /\ AdmitFits(s, pc')
    BY <1>1, Zenon DEF JInv
  <2> QED BY <1>1, <1>3, <2>1, SameSides
<1>4. CASE ~Idle(s) /\ s' \in ReduceLine(s, <<f>>)
  <2>1. s.operation.id \in Id /\ s.operation.kind \in {"run", "compaction"}
    BY <1>2, <1>4, CurrentTypes
  <2>2. Phase \in {"model", "tool", "compact"} /\ RequestedCall \in CallId \cup {None}
    BY <1>2, RequestedCallType DEF Phase
  <2>3. f \in Facts
    BY <2>1, <2>2, AbortFactTypes
  <2>4. f.type = "abortRequested"
    BY DEF AbortRequested
  <2> HIDE DEF f
  <2>5. Keeps(s, s', {f})
    BY <1>2, <1>4, <2>3, <2>4, PlainOne
  <2>6. /\ CurrentKept(s, s') /\ StepKept(s, s') /\ s'.tools = s.tools
    BY <2>4, <2>5, OneKeeps DEF Steady
  <2>7. /\ Without({f}, {"assistant"})
        /\ Without({f}, {"user", "assistant", "synthetic", "result", "compaction"})
        /\ {f} \subseteq {g \in {f} : g.type \in Steady}
    BY <2>4 DEF Without, Steady
  <2>8. OpenSide(s') /\ s'.unanswered \subseteq s.unanswered /\ Silent(s, s')
    BY <2>5, <2>7, Zenon DEF JInv, Keeps, KeepsOpen, KeepsCalls, KeepsMessages
  <2>9. (Unsettled(s') <=> Unsettled(s)) /\ (NoCompaction(s') <=> NoCompaction(s))
    BY <1>4, <2>6 DEF Unsettled, StepKept, CurrentKept, NoCompaction
  <2>10. CutFits'
    BY <1>1, <2>8, <2>9, SilentSides
  <2>11. CallsFit(s', pc, job)
    <3>1. CallsFit(s, pc, job)
      BY DEF JInv
    <3> QED BY <2>6, <2>8, <3>1 DEF CallsFit
  <2>12. AdmitFits(s', pc)
    BY <2>9 DEF JInv, AdmitFits
  <2> QED BY <1>1, <2>8, <2>10, <2>11, <2>12, Zenon DEF JInv
<1> QED BY <1>1, <1>3, <1>4

(* A new session has no call.                                               *)
LEMMA InitSides == ASSUME Init PROVE JInv
<1>1. s = InitialState /\ pc = "idle"
  BY DEF Init
<1>2. s.unanswered = {} /\ NoCompaction(s)
  BY <1>1 DEF InitialState, NoCompaction, Idle
<1>3. OpenSide(s)
  BY <1>1, <1>2, NoneOpen, InitialGood
<1>4. CutFits
  BY <1>2 DEF CutFits
<1>5. CallsFit(s, pc, job) /\ AdmitFits(s, pc)
  BY <1>1 DEF CallsFit, AdmitFits, AtCall, AtTool
<1> QED BY <1>3, <1>4, <1>5 DEF JInv

(* Every action keeps what is said of the calls and of what is compacted.   *)
LEMMA NextSides == ASSUME IInv, JInv, IInv', Next PROVE JInv'
<1>1. CASE Run
  BY <1>1, FrameSides, StartRunSides, AdmitStepSides, CallModelSides, ModelErrorSides,
     AbortCloseSides, SettleStepSides, FinishRunSides DEF Run
<1>2. CASE Tools
  BY <1>2, NextStepSides, PreExecutionSides, StartToolSides, CheckStartedSides, ExecuteSides,
     ToolReturnsSides, ToolAbortSides, AppendResultSides, ToolAbortedSides DEF Tools
<1>3. CASE Compact
  BY <1>3, StartCompactionSides, AdmitCompactionSides, SummarizeSides, SummaryErrorSides,
     SettleCompactionSides, FinishCompactionSides DEF Compact
<1>4. CASE Recover
  BY <1>4, FrameSides, RecoverCloseSides, RecoverSyntheticSides, RecoverReplaySides,
     RecoverStartSides, RecoverStepSides, RecoverFinishSides DEF Recover
<1>5. CASE TakePrompt \/ Esc \/ Terminal \/ Crash \/ Quit \/ Restart
  BY <1>5, FrameSides, RequestSides DEF Terminal
<1> QED BY <1>1, <1>2, <1>3, <1>4, <1>5 DEF Next, Worker

(* So does a step that changes nothing.                                     *)
LEMMA StutterSides == ASSUME JInv, UNCHANGED vars PROVE JInv'
<1>1. s' = s /\ compacted' = compacted /\ pc' = pc /\ job' = job
  BY DEF vars, file, session
<1>2. CallsFit(s, pc', job') /\ AdmitFits(s, pc')
  BY <1>1, Zenon DEF JInv
<1> QED BY <1>1, <1>2, SameSides

(* The unanswered calls are those of the answer the worker works on, or of  *)
(* the step recovery resumes; and until a compaction has its summary, the   *)
(* file tells which messages it will keep.                                  *)
THEOREM CallInvariance == Spec => [](IInv /\ JInv)
<1>1. Init => IInv /\ JInv
  BY InitInvariant, InitSides
<1>2. IInv /\ JInv /\ [Next]_vars => IInv' /\ JInv'
  <2> SUFFICES ASSUME IInv, JInv, [Next]_vars PROVE IInv' /\ JInv'
    OBVIOUS
  <2>1. IInv'
    BY NextInvariant, StutterInvariant
  <2>2. JInv'
    BY <2>1, NextSides, StutterSides
  <2> QED BY <2>1, <2>2
<1> QED BY <1>1, <1>2, PTL DEF Spec

(* When an operation finishes, however it does, and whether the worker or   *)
(* recovery finishes it, every call of the provider has its result in the   *)
(* transcript (lib.rs, `finish`, `skip_calls`; recovery.rs, `plan_abort`).  *)
THEOREM FinishedAlwaysAnswered == Spec => FinishedAnswered
<1>1. IInv' /\ JInv' /\ s'.operation = None => s'.unanswered = {}
  <2> SUFFICES ASSUME IInv', JInv', s'.operation = None PROVE s'.unanswered = {}
    OBVIOUS
  <2>1. Good(s') /\ OpenSide(s') /\ Idle(s')
    BY DEF IInv, FileInv, JInv, Idle
  <2> QED BY <2>1, NoneAsked
<1>2. IInv' /\ JInv' => (~Idle(s) /\ s'.operation = None => s'.unanswered = {})
  BY <1>1
<1> QED BY <1>2, CallInvariance, PTL DEF FinishedAnswered

(* The messages a compaction keeps, found in the file by the last entry it  *)
(* summarised, are those it did not send to be summarised: none is left out *)
(* of the context and none is there twice (lib.rs, `compact`; reducer.rs,   *)
(* `retained`).                                                             *)
THEOREM NothingIsLeftOut == Spec => []NothingLeftOut
<1>1. IInv /\ JInv => NothingLeftOut
  <2> SUFFICES ASSUME IInv, JInv, pc = "settle"
               PROVE  Retained(s, compacted) = SubSeq(s.context, Cut + 1, Len(s.context))
    BY DEF NothingLeftOut
  <2>1. ~NoCompaction(s)
    BY CompactionNow DEF AtCompaction
  <2>2. Unsettled(s)
    BY AttemptAsksNone DEF AtAttempt
  <2> QED BY <2>1, <2>2, Zenon DEF JInv, CutFits
<1> QED BY <1>1, CallInvariance, PTL

===============================================================================
