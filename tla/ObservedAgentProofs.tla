------------------------ MODULE ObservedAgentProofs ------------------------
(***************************************************************************)
(* What the observers of the agent hold open and say is what the file      *)
(* says.  The argument goes from one fact to a line to a step:             *)
(*   - the folds of Lifecycle name their values (CommitFold, ChargeFold,   *)
(*     RecordFold);                                                        *)
(*   - Follows (of SessionLineProofs) says what a fact of each type opens  *)
(*     and closes in the session, Hears1 what the lifecycle publishes and  *)
(*     holds after it, and Seen that what it holds is what is open;        *)
(*   - FitsFile says which facts may stand where in a line, and the        *)
(*     ...Placed lemmas show that each action appends such a line or none; *)
(*   - OInv is kept by every step, whoever takes it, and RInv, what the    *)
(*     lifecycle knows of the operations its process started, with it.     *)
(***************************************************************************)
EXTENDS ObservedAgent, DurableAgentProofs
-----------------------------------------------------------------------------
(* Folds *)

(* What a sequence of events makes of the spans, one event after the other. *)
RecordTrace(sp, sp1, events, h) ==
  /\ h[0] = sp /\ h[Len(events)] = sp1
  /\ \A n \in 1..Len(events) : h[n] = L!Record(h[n - 1], events[n])

(* `RecordAll` is the end of such a sequence of states.                     *)
LEMMA RecordFold ==
  ASSUME NEW sp, NEW events, Len(events) \in Nat
  PROVE  \E h : RecordTrace(sp, L!RecordAll(sp, events), events, h)
<1> DEFINE Step(S, n) == {L!Record(before, events[n]) : before \in S}
           States(f, m) == f = [n \in 0..m |-> IF n = 0 THEN {sp} ELSE Step(f[n - 1], n)]
           T == {m \in Nat : \E f : States(f, m)}
           K == Len(events)
           after == CHOOSE f : States(f, K)
<1>1. 0 \in T
  <2>1. States([n \in 0..0 |-> {sp}], 0)
    OBVIOUS
  <2> QED BY <2>1
<1>2. ASSUME NEW m \in T PROVE m + 1 \in T
  <2>1. PICK f : States(f, m)
    OBVIOUS
  <2> DEFINE g == [n \in 0..(m + 1) |-> IF n = m + 1 THEN Step(f[m], n) ELSE f[n]]
  <2>2. \A n \in 0..m : f[n] = IF n = 0 THEN {sp} ELSE Step(f[n - 1], n)
    BY <2>1
  <2> HIDE DEF Step
  <2>3. \A n \in 0..(m + 1) : g[n] = IF n = 0 THEN {sp} ELSE Step(g[n - 1], n)
    <3> SUFFICES ASSUME NEW n \in 0..(m + 1)
                 PROVE  g[n] = IF n = 0 THEN {sp} ELSE Step(g[n - 1], n)
      OBVIOUS
    <3>1. CASE n = m + 1
      <4>1. g[n] = Step(f[m], n) /\ n - 1 \in 0..(m + 1) /\ n - 1 # m + 1 /\ n - 1 = m /\ n # 0
        BY <3>1
      <4>2. g[n - 1] = f[m]
        BY <4>1
      <4> QED BY <4>1, <4>2
    <3>2. CASE n # m + 1
      <4>1. n \in 0..m /\ g[n] = f[n]
        BY <3>2
      <4>2. n # 0 => g[n - 1] = f[n - 1]
        BY <4>1
      <4> QED BY <2>2, <4>1, <4>2
    <3> QED BY <3>1, <3>2
  <2>4. g = [n \in 0..(m + 1) |-> IF n = 0 THEN {sp} ELSE Step(g[n - 1], n)]
    <3> DEFINE h == [n \in 0..(m + 1) |-> IF n = 0 THEN {sp} ELSE Step(g[n - 1], n)]
    <3>1. \A n \in 0..(m + 1) : g[n] = h[n]
      BY <2>3
    <3>2. g = [n \in 0..(m + 1) |-> g[n]] /\ h = [n \in 0..(m + 1) |-> h[n]]
      OBVIOUS
    <3> HIDE DEF g, h
    <3>3. g = h
      BY <3>1, <3>2, Zenon
    <3> QED BY <3>3 DEF h
  <2>5. States(g, m + 1)
    BY <2>4
  <2> HIDE DEF States
  <2> QED BY <2>5
<1>3. Nat \subseteq T
  <2> HIDE DEF T
  <2> QED BY <1>1, <1>2, SetInduction DEF T
<1>4. States(after, K)
  <2>1. \E f : States(f, K)
    BY <1>3
  <2> HIDE DEF States
  <2> QED BY <2>1
<1>5. L!RecordAll(sp, events) = CHOOSE last \in after[K] : TRUE
  BY Zenon DEF L!RecordAll
<1>6. \A n \in 0..K : after[n] = IF n = 0 THEN {sp} ELSE Step(after[n - 1], n)
  BY <1>4, Zenon
<1> HIDE DEF after, Step
<1>a. after[0] = {sp}
  BY <1>6
<1> DEFINE The(n) == CHOOSE x \in after[n] : TRUE
           R == {n \in Nat : n <= K => after[n] = {The(n)}}
<1>7. 0 \in R
  BY <1>a
<1>8. ASSUME NEW n \in R PROVE n + 1 \in R
  <2> SUFFICES ASSUME n + 1 <= K PROVE after[n + 1] = {The(n + 1)}
    OBVIOUS
  <2>1. n + 1 \in 0..K /\ n + 1 # 0 /\ (n + 1) - 1 = n /\ n <= K
    OBVIOUS
  <2>2. after[n + 1] = Step(after[n], n + 1)
    BY <1>6, <2>1
  <2>3. after[n] = {The(n)}
    BY <2>1
  <2>4. after[n + 1] = {L!Record(The(n), events[n + 1])}
    <3> HIDE DEF The
    <3> QED BY <2>2, <2>3 DEF Step
  <2> QED BY <2>4
<1>9. Nat \subseteq R
  <2> HIDE DEF R
  <2> QED BY <1>7, <1>8, SetInduction DEF R
<1>10. \A n \in 0..K : after[n] = {The(n)}
  BY <1>9
<1> DEFINE h == [n \in 0..K |-> The(n)]
<1>11. h[0] = sp
  BY <1>a
<1>12. h[K] = L!RecordAll(sp, events)
  BY <1>5
<1>13. ASSUME NEW n \in 1..K PROVE h[n] = L!Record(h[n - 1], events[n])
  <2>1. n \in 0..K /\ n - 1 \in 0..K /\ n # 0
    OBVIOUS
  <2>2. after[n] = Step({The(n - 1)}, n)
    BY <1>6, <1>10, <2>1
  <2>3. after[n] = {The(n)}
    BY <1>10, <2>1
  <2> HIDE DEF The
  <2>4. Step({The(n - 1)}, n) = {L!Record(The(n - 1), events[n])}
    BY DEF Step
  <2> QED BY <2>1, <2>2, <2>3, <2>4
<1> HIDE DEF h
<1> QED BY <1>11, <1>12, <1>13 DEF RecordTrace
(* What a line of facts makes of the lifecycle, one fact after the other.   *)
CommitTrace(l, told, facts, h) ==
  /\ h[0] = L!Quiet(L!Charged(l, facts)) /\ h[Len(facts)] = told
  /\ \A n \in 1..Len(facts) : h[n] = L!ApplyFact(h[n - 1], facts[n])

(* `Committed` is the end of such a sequence.                               *)
LEMMA CommitFold ==
  ASSUME NEW l, NEW facts, Len(facts) \in Nat
  PROVE  \E h : CommitTrace(l, L!Committed(l, facts), facts, h)
<1> DEFINE first == L!Quiet(L!Charged(l, facts))
           Step(S, n) == {L!ApplyFact(told, facts[n]) : told \in S}
           States(f, m) == f = [n \in 0..m |-> IF n = 0 THEN {first} ELSE Step(f[n - 1], n)]
           T == {m \in Nat : \E f : States(f, m)}
           K == Len(facts)
           after == CHOOSE f : States(f, K)
<1>1. 0 \in T
  <2>1. States([n \in 0..0 |-> {first}], 0)
    OBVIOUS
  <2> QED BY <2>1
<1>2. ASSUME NEW m \in T PROVE m + 1 \in T
  <2>1. PICK f : States(f, m)
    OBVIOUS
  <2> DEFINE g == [n \in 0..(m + 1) |-> IF n = m + 1 THEN Step(f[m], n) ELSE f[n]]
  <2>2. \A n \in 0..m : f[n] = IF n = 0 THEN {first} ELSE Step(f[n - 1], n)
    BY <2>1
  <2> HIDE DEF Step
  <2>3. \A n \in 0..(m + 1) : g[n] = IF n = 0 THEN {first} ELSE Step(g[n - 1], n)
    <3> SUFFICES ASSUME NEW n \in 0..(m + 1)
                 PROVE  g[n] = IF n = 0 THEN {first} ELSE Step(g[n - 1], n)
      OBVIOUS
    <3>1. CASE n = m + 1
      <4>1. g[n] = Step(f[m], n) /\ n - 1 \in 0..(m + 1) /\ n - 1 # m + 1 /\ n - 1 = m /\ n # 0
        BY <3>1
      <4>2. g[n - 1] = f[m]
        BY <4>1
      <4> QED BY <4>1, <4>2
    <3>2. CASE n # m + 1
      <4>1. n \in 0..m /\ g[n] = f[n]
        BY <3>2
      <4>2. n # 0 => g[n - 1] = f[n - 1]
        BY <4>1
      <4> QED BY <2>2, <4>1, <4>2
    <3> QED BY <3>1, <3>2
  <2>4. g = [n \in 0..(m + 1) |-> IF n = 0 THEN {first} ELSE Step(g[n - 1], n)]
    <3> DEFINE h == [n \in 0..(m + 1) |-> IF n = 0 THEN {first} ELSE Step(g[n - 1], n)]
    <3>1. \A n \in 0..(m + 1) : g[n] = h[n]
      BY <2>3
    <3>2. g = [n \in 0..(m + 1) |-> g[n]] /\ h = [n \in 0..(m + 1) |-> h[n]]
      OBVIOUS
    <3> HIDE DEF g, h
    <3>3. g = h
      BY <3>1, <3>2, Zenon
    <3> QED BY <3>3 DEF h
  <2>5. States(g, m + 1)
    BY <2>4
  <2> HIDE DEF States
  <2> QED BY <2>5
<1>3. Nat \subseteq T
  <2> HIDE DEF T
  <2> QED BY <1>1, <1>2, SetInduction DEF T
<1>4. States(after, K)
  <2>1. \E f : States(f, K)
    BY <1>3
  <2> HIDE DEF States
  <2> QED BY <2>1
<1>5. L!Committed(l, facts) = CHOOSE told \in after[K] : TRUE
  BY Zenon DEF L!Committed
<1>6. \A n \in 0..K : after[n] = IF n = 0 THEN {first} ELSE Step(after[n - 1], n)
  BY <1>4, Zenon
<1> HIDE DEF after, Step
<1>a. after[0] = {first}
  BY <1>6
<1> DEFINE The(n) == CHOOSE x \in after[n] : TRUE
           R == {n \in Nat : n <= K => after[n] = {The(n)}}
<1>7. 0 \in R
  BY <1>a
<1>8. ASSUME NEW n \in R PROVE n + 1 \in R
  <2> SUFFICES ASSUME n + 1 <= K PROVE after[n + 1] = {The(n + 1)}
    OBVIOUS
  <2>1. n + 1 \in 0..K /\ n + 1 # 0 /\ (n + 1) - 1 = n /\ n <= K
    OBVIOUS
  <2>2. after[n + 1] = Step(after[n], n + 1)
    BY <1>6, <2>1
  <2>3. after[n] = {The(n)}
    BY <2>1
  <2>4. after[n + 1] = {L!ApplyFact(The(n), facts[n + 1])}
    <3> HIDE DEF The
    <3> QED BY <2>2, <2>3 DEF Step
  <2> QED BY <2>4
<1>9. Nat \subseteq R
  <2> HIDE DEF R
  <2> QED BY <1>7, <1>8, SetInduction DEF R
<1>10. \A n \in 0..K : after[n] = {The(n)}
  BY <1>9
<1> DEFINE h == [n \in 0..K |-> The(n)]
<1>11. h[0] = first
  BY <1>a
<1>12. h[K] = L!Committed(l, facts)
  BY <1>5
<1>13. ASSUME NEW n \in 1..K PROVE h[n] = L!ApplyFact(h[n - 1], facts[n])
  <2>1. n \in 0..K /\ n - 1 \in 0..K /\ n # 0
    OBVIOUS
  <2>2. after[n] = Step({The(n - 1)}, n)
    BY <1>6, <1>10, <2>1
  <2>3. after[n] = {The(n)}
    BY <1>10, <2>1
  <2> HIDE DEF The
  <2>4. Step({The(n - 1)}, n) = {L!ApplyFact(The(n - 1), facts[n])}
    BY DEF Step
  <2> QED BY <2>1, <2>2, <2>3, <2>4
<1> HIDE DEF h
<1> QED BY <1>11, <1>12, <1>13 DEF CommitTrace
(* How a line of facts adds up the usage of the operations.                 *)
ChargeTrace(l, l1, facts, h) ==
  /\ h[0] = l.operationUsage /\ l1 = [l EXCEPT !.operationUsage = h[Len(facts)]]
  /\ \A n \in 1..Len(facts) : h[n] = IF facts[n].type = "usage"
                                    THEN [h[n - 1] EXCEPT ![facts[n].op] = @ + facts[n].amount]
                                    ELSE h[n - 1]

(* `Charged` is the end of it.                                              *)
LEMMA ChargeFold ==
  ASSUME NEW l, NEW facts, Len(facts) \in Nat
  PROVE  \E h : ChargeTrace(l, L!Charged(l, facts), facts, h)
<1> DEFINE Step(usage, n) == IF facts[n].type = "usage"
                              THEN [usage EXCEPT ![facts[n].op] = @ + facts[n].amount]
                              ELSE usage
           States(f, m) == f = [n \in 0..m |-> IF n = 0 THEN l.operationUsage ELSE Step(f[n - 1], n)]
           T == {m \in Nat : \E f : States(f, m)}
           K == Len(facts)
           after == CHOOSE f : States(f, K)
<1>1. 0 \in T
  <2>1. States([n \in 0..0 |-> l.operationUsage], 0)
    OBVIOUS
  <2> QED BY <2>1
<1>2. ASSUME NEW m \in T PROVE m + 1 \in T
  <2>1. PICK f : States(f, m)
    OBVIOUS
  <2> DEFINE g == [n \in 0..(m + 1) |-> IF n = m + 1 THEN Step(f[m], n) ELSE f[n]]
  <2>2. \A n \in 0..m : f[n] = IF n = 0 THEN l.operationUsage ELSE Step(f[n - 1], n)
    BY <2>1
  <2> HIDE DEF Step
  <2>3. \A n \in 0..(m + 1) : g[n] = IF n = 0 THEN l.operationUsage ELSE Step(g[n - 1], n)
    <3> SUFFICES ASSUME NEW n \in 0..(m + 1)
                 PROVE  g[n] = IF n = 0 THEN l.operationUsage ELSE Step(g[n - 1], n)
      OBVIOUS
    <3>1. CASE n = m + 1
      <4>1. g[n] = Step(f[m], n) /\ n - 1 \in 0..(m + 1) /\ n - 1 # m + 1 /\ n - 1 = m /\ n # 0
        BY <3>1
      <4>2. g[n - 1] = f[m]
        BY <4>1
      <4> QED BY <4>1, <4>2
    <3>2. CASE n # m + 1
      <4>1. n \in 0..m /\ g[n] = f[n]
        BY <3>2
      <4>2. n # 0 => g[n - 1] = f[n - 1]
        BY <4>1
      <4> QED BY <2>2, <4>1, <4>2
    <3> QED BY <3>1, <3>2
  <2>4. g = [n \in 0..(m + 1) |-> IF n = 0 THEN l.operationUsage ELSE Step(g[n - 1], n)]
    <3> DEFINE h == [n \in 0..(m + 1) |-> IF n = 0 THEN l.operationUsage ELSE Step(g[n - 1], n)]
    <3>1. \A n \in 0..(m + 1) : g[n] = h[n]
      BY <2>3
    <3>2. g = [n \in 0..(m + 1) |-> g[n]] /\ h = [n \in 0..(m + 1) |-> h[n]]
      OBVIOUS
    <3> HIDE DEF g, h
    <3>3. g = h
      BY <3>1, <3>2, Zenon
    <3> QED BY <3>3 DEF h
  <2>5. States(g, m + 1)
    BY <2>4
  <2> HIDE DEF States
  <2> QED BY <2>5
<1>3. Nat \subseteq T
  <2> HIDE DEF T
  <2> QED BY <1>1, <1>2, SetInduction DEF T
<1>4. States(after, K)
  <2>1. \E f : States(f, K)
    BY <1>3
  <2> HIDE DEF States
  <2> QED BY <2>1
<1>5. L!Charged(l, facts) = [l EXCEPT !.operationUsage = after[K]]
  BY Zenon DEF L!Charged
<1>6. \A n \in 0..K : after[n] = IF n = 0 THEN l.operationUsage ELSE Step(after[n - 1], n)
  BY <1>4, Zenon
<1> HIDE DEF after, Step
<1>7. after[0] = l.operationUsage
  BY <1>6
<1>8. ASSUME NEW n \in 1..K PROVE after[n] = Step(after[n - 1], n)
  <2>1. n \in 0..K /\ n # 0
    OBVIOUS
  <2> QED BY <1>6, <2>1
<1> QED BY <1>5, <1>7, <1>8, Zenon DEF ChargeTrace, Step

-----------------------------------------------------------------------------
(* The spans after a sequence of events *)

Sequence(ev) == \E S : ev \in Seq(S)

(* Two such sequences of states over the same events are the same.          *)
LEMMA RecordUnique ==
  ASSUME NEW sp, NEW sp1, NEW sp2, NEW ev, Len(ev) \in Nat, NEW h, NEW g,
         RecordTrace(sp, sp1, ev, h), RecordTrace(sp, sp2, ev, g)
  PROVE  sp1 = sp2
<1> DEFINE T == {m \in Nat : m <= Len(ev) => h[m] = g[m]}
<1>1. 0 \in T
  BY DEF RecordTrace
<1>2. ASSUME NEW m \in T PROVE m + 1 \in T
  <2> SUFFICES ASSUME m + 1 <= Len(ev) PROVE h[m + 1] = g[m + 1]
    OBVIOUS
  <2>1. m + 1 \in 1..Len(ev) /\ (m + 1) - 1 = m /\ h[m] = g[m]
    OBVIOUS
  <2>2. h[m + 1] = L!Record(h[(m + 1) - 1], ev[m + 1])
    BY <2>1, Zenon DEF RecordTrace
  <2>3. g[m + 1] = L!Record(g[(m + 1) - 1], ev[m + 1])
    BY <2>1, Zenon DEF RecordTrace
  <2> QED BY <2>1, <2>2, <2>3
<1>3. Nat \subseteq T
  <2> HIDE DEF T
  <2> QED BY <1>1, <1>2, SetInduction DEF T
<1>4. h[Len(ev)] = g[Len(ev)]
  BY <1>3
<1> QED BY <1>4 DEF RecordTrace

(* Without an event nothing changes, and the last event is recorded last.   *)
LEMMA RecordNone ==
  ASSUME NEW sp
  PROVE  L!RecordAll(sp, << >>) = sp
<1>1. PICK h : RecordTrace(sp, L!RecordAll(sp, << >>), << >>, h)
  BY RecordFold
<1> QED BY <1>1 DEF RecordTrace

(* One event more is recorded after the others.                             *)
LEMMA RecordLast ==
  ASSUME NEW sp, NEW ev, Sequence(ev), NEW e
  PROVE  /\ L!RecordAll(sp, Append(ev, e)) = L!Record(L!RecordAll(sp, ev), e)
         /\ Sequence(Append(ev, e))
<1>1. PICK S : ev \in Seq(S)
  BY DEF Sequence
<1> DEFINE U == S \cup {e}
           after == Append(ev, e)
<1>2. /\ ev \in Seq(U) /\ Len(ev) \in Nat /\ after \in Seq(U) /\ Len(after) = Len(ev) + 1
      /\ after[Len(ev) + 1] = e /\ \A n \in 1..Len(ev) : after[n] = ev[n]
  BY <1>1
<1> HIDE DEF after
<1>3. PICK h : RecordTrace(sp, L!RecordAll(sp, ev), ev, h)
  BY <1>2, RecordFold
<1>4. PICK g : RecordTrace(sp, L!RecordAll(sp, after), after, g)
  BY <1>2, RecordFold
<1>5. RecordTrace(sp, g[Len(ev)], ev, g)
  <2>1. \A n \in 1..Len(ev) : g[n] = L!Record(g[n - 1], ev[n])
    <3> TAKE n \in 1..Len(ev)
    <3>1. n \in 1..Len(after) /\ after[n] = ev[n]
      BY <1>2
    <3>2. g[n] = L!Record(g[n - 1], after[n])
      BY <1>4, <3>1, Zenon DEF RecordTrace
    <3> QED BY <3>1, <3>2
  <2>2. g[0] = sp
    BY <1>4 DEF RecordTrace
  <2> QED BY <2>1, <2>2, Zenon DEF RecordTrace
<1>6. g[Len(ev)] = L!RecordAll(sp, ev)
  BY <1>2, <1>3, <1>5, RecordUnique
<1>7. L!RecordAll(sp, after) = L!Record(g[Len(ev)], e)
  <2>1. Len(after) \in 1..Len(after) /\ Len(after) - 1 = Len(ev) /\ after[Len(after)] = e
    BY <1>2
  <2>2. g[Len(after)] = L!Record(g[Len(after) - 1], after[Len(after)])
    BY <1>4, <2>1, Zenon DEF RecordTrace
  <2>3. g[Len(after)] = L!RecordAll(sp, after)
    BY <1>4, Zenon DEF RecordTrace
  <2> QED BY <2>1, <2>2, <2>3
<1>8. Sequence(after)
  BY <1>2 DEF Sequence
<1> QED BY <1>6, <1>7, <1>8 DEF after

-----------------------------------------------------------------------------
(* What a fact tells *)

Told(l, ev) == [life |-> l, events |-> ev]

(* The operations of the lifecycle are those of the file, as are the spans. *)
OpsSeen(t, lives, held) ==
  \A op \in Id :
    /\ lives[op] # None <=> Unfinished(t, op)
    /\ L!IsOpen(held[op]) <=> Unfinished(t, op)

(* An attempt it holds is open in the file, its span ended as it did.       *)
ModelsSeen(attempts, lives, held) ==
  \A a \in Id :
    /\ lives[a] # None =>
         /\ attempts[a] # None /\ ~attempts[a].closed
         /\ lives[a].op = attempts[a].op /\ lives[a].kind = attempts[a].kind
    /\ L!IsOpen(held[a]) <=> lives[a] # None
    /\ held[a] # None =>
         /\ attempts[a] # None /\ held[a].end \in {None, "succeeded", "failed"}
         /\ held[a].end = "succeeded" => attempts[a].settled # None
         /\ held[a].end = "failed" => attempts[a].closed /\ attempts[a].settled = None

(* A tool it holds is pending in the file, its span ended as it did.        *)
ToolsSeen(tools, lives, held) ==
  \A u \in Id :
    /\ lives[u] # None => tools[u] # None /\ tools[u].status = "pending"
    /\ L!IsOpen(held[u]) <=> lives[u] # None
    /\ held[u] # None =>
         /\ tools[u] # None /\ held[u].end \in {None, "written"}
         /\ held[u].end = "written" <=> tools[u].status = "completed"

Sees(t, l, sp) ==
  /\ l \in L!Life /\ sp \in L!Spans
  /\ OpsSeen(t, l.operations, sp.operations)
  /\ ModelsSeen(t.attempts, l.models, sp.models)
  /\ ToolsSeen(t.tools, l.tools, sp.tools)

(* A span that is open, and one that has ended.                             *)
LEMMA SpanTypes ==
  ASSUME NEW op \in Id
  PROVE  /\ [op |-> op, end |-> None] \in L!Span /\ L!IsOpen([op |-> op, end |-> None])
         /\ \A end \in L!Ends : /\ [op |-> op, end |-> end] \in L!Span
                                /\ ~L!IsOpen([op |-> op, end |-> end])
         /\ \A span \in L!Span : span # None
BY ObserversAssumption DEF L!Span, L!IsOpen

(* Only the span i of a kind has changed.                                   *)
OneSpan(kind, sp, sp1, i) ==
  /\ \A other \in {"operations", "models", "tools"} : other # kind => sp1[other] = sp[other]
  /\ \A j \in Id : j # i => sp1[kind][j] = sp[kind][j]

(* A span that is ended.                                                    *)
LEMMA OpenEndRecorded ==
  ASSUME NEW sp \in L!Spans, NEW kind \in {"operations", "models", "tools"}, NEW e,
         e.id \in Id, e.outcome \in L!Ends, NEW sp1, sp1 = L!End(kind, sp, e),
         L!IsOpen(sp[kind][e.id])
  PROVE  /\ sp1 \in L!Spans
         /\ OneSpan(kind, sp, sp1, e.id)
         /\ ~L!IsOpen(sp1[kind][e.id])
         /\ sp1[kind][e.id] # None /\ sp1[kind][e.id].end = e.outcome
<1> DEFINE span == [sp[kind][e.id] EXCEPT !.end = e.outcome]
<1>1. sp[kind] \in [Id -> L!Span \cup {None}]
  BY DEF L!Spans
<1>2. sp[kind][e.id] \in L!Span
  BY <1>1 DEF L!IsOpen
<1>3. span \in L!Span /\ span.end = e.outcome
  BY <1>2 DEF L!Span
<1>4. span # None /\ ~L!IsOpen(span)
  BY <1>3, ObserversAssumption DEF L!IsOpen
<1>5. sp1 = [sp EXCEPT ![kind] = [sp[kind] EXCEPT ![e.id] = span]]
  BY DEF L!End
<1> HIDE DEF span
<1>6. sp1[kind] = [sp[kind] EXCEPT ![e.id] = span] /\ sp1[kind] \in [Id -> L!Span \cup {None}]
  BY <1>1, <1>3, <1>5 DEF L!Spans
<1>7. \A other \in {"operations", "models", "tools"} : other # kind => sp1[other] = sp[other]
  BY <1>5 DEF L!Spans
<1>8. sp1 \in L!Spans
  BY <1>5, <1>6, <1>7 DEF L!Spans
<1>9. sp1[kind][e.id] = span /\ \A j \in Id : j # e.id => sp1[kind][j] = sp[kind][j]
  BY <1>1, <1>6
<1>10. OneSpan(kind, sp, sp1, e.id)
  BY <1>7, <1>9, Zenon DEF OneSpan
<1> QED BY <1>3, <1>4, <1>8, <1>9, <1>10

(* Or was not open.                                                         *)
LEMMA EndRecorded ==
  ASSUME NEW sp \in L!Spans, NEW kind \in {"operations", "models", "tools"}, NEW e,
         e.id \in Id, e.outcome \in L!Ends, NEW sp1, sp1 = L!End(kind, sp, e)
  PROVE  /\ sp1 \in L!Spans
         /\ OneSpan(kind, sp, sp1, e.id)
         /\ ~L!IsOpen(sp1[kind][e.id])
<1>1. CASE ~L!IsOpen(sp[kind][e.id])
  <2>1. sp1 = sp
    BY <1>1 DEF L!End
  <2> QED BY <1>1, <2>1 DEF OneSpan
<1>2. CASE L!IsOpen(sp[kind][e.id])
  BY <1>2, OpenEndRecorded, Zenon
<1> QED BY <1>1, <1>2

(* A span that is begun.                                                    *)
LEMMA BeginRecorded ==
  ASSUME NEW sp \in L!Spans, NEW kind \in {"models", "tools"}, NEW e,
         e.id \in Id, e.op \in Id, L!IsOpen(sp.operations[e.op]),
         NEW sp1, sp1 = L!Begin(kind, sp, e)
  PROVE  /\ sp1 \in L!Spans
         /\ OneSpan(kind, sp, sp1, e.id)
         /\ sp1[kind][e.id] # None /\ sp1[kind][e.id].end = None
         /\ L!IsOpen(sp1[kind][e.id])
<1> DEFINE span == [op |-> e.op, end |-> None]
<1>1. sp[kind] \in [Id -> L!Span \cup {None}]
  BY DEF L!Spans
<1>2. span \in L!Span /\ L!IsOpen(span) /\ span # None /\ span.end = None
  BY SpanTypes
<1>3. sp1 = [sp EXCEPT ![kind] = [sp[kind] EXCEPT ![e.id] = span]]
  BY DEF L!Begin
<1> HIDE DEF span
<1>4. sp1[kind] = [sp[kind] EXCEPT ![e.id] = span] /\ sp1[kind] \in [Id -> L!Span \cup {None}]
  BY <1>1, <1>2, <1>3 DEF L!Spans
<1>5. \A other \in {"operations", "models", "tools"} : other # kind => sp1[other] = sp[other]
  BY <1>3 DEF L!Spans
<1>6. sp1 \in L!Spans
  BY <1>3, <1>4, <1>5 DEF L!Spans
<1>7. sp1[kind][e.id] = span /\ \A i \in Id : i # e.id => sp1[kind][i] = sp[kind][i]
  BY <1>1, <1>4
<1>8. OneSpan(kind, sp, sp1, e.id)
  BY <1>5, <1>7, Zenon DEF OneSpan
<1> QED BY <1>2, <1>6, <1>7, <1>8

-----------------------------------------------------------------------------
(* Hearing one fact *)

(* What was told so far, from the spans sp0, is what the file says.         *)
Seen(t, sp0, told) ==
  /\ told = Told(told.life, told.events) /\ Sequence(told.events)
  /\ Sees(t, told.life, L!RecordAll(sp0, told.events))

(* The ends of operations that were published, and the operations.          *)
Completed(ev) == {ev[n] : n \in {m \in DOMAIN ev : ev[m].type = "operation.completed"}}
Reported(ev) == {e.id : e \in Completed(ev)}

(* Nothing but the attempts of the lifecycle may have become fewer, and     *)
(* the end of no operation was published.                                   *)
LessHeld(told, told1) ==
  /\ \A a \in Id : told1.life.models[a] # None => told.life.models[a] # None
  /\ told1.life.tools = told.life.tools
  /\ Completed(told1.events) = Completed(told.events)

(* An event that is published.                                              *)
LEMMA PublishTold ==
  ASSUME NEW l, NEW ev, NEW e
  PROVE  L!Publish(Told(l, ev), e) = Told(l, Append(ev, e))
BY DEF L!Publish, Told

(* One event more is one end more, or none.                                 *)
LEMMA CompletedLast ==
  ASSUME NEW ev, Sequence(ev), NEW e
  PROVE  Completed(Append(ev, e)) = IF e.type = "operation.completed"
                                      THEN Completed(ev) \cup {e} ELSE Completed(ev)
<1>1. PICK S : ev \in Seq(S)
  BY DEF Sequence
<1> DEFINE after == Append(ev, e)
<1>2. /\ DOMAIN ev = 1..Len(ev) /\ DOMAIN after = 1..(Len(ev) + 1) /\ Len(ev) \in Nat
      /\ after[Len(ev) + 1] = e /\ \A n \in 1..Len(ev) : after[n] = ev[n]
  <2>1. ev \in Seq(S \cup {e}) /\ e \in S \cup {e}
    BY <1>1
  <2> QED BY <2>1
<1> HIDE DEF after
<1>3. \A n \in DOMAIN ev : n \in DOMAIN after /\ after[n] = ev[n]
  BY <1>2
<1>4. \A n \in DOMAIN after : n \in DOMAIN ev \/ after[n] = e
  BY <1>2
<1>5. Len(ev) + 1 \in DOMAIN after /\ after[Len(ev) + 1] = e
  BY <1>2
<1>6. Completed(after) = IF e.type = "operation.completed"
                           THEN Completed(ev) \cup {e} ELSE Completed(ev)
  <2> SUFFICES ASSUME NEW end
               PROVE  end \in Completed(after) <=>
                        end \in Completed(ev) \/ (e.type = "operation.completed" /\ end = e)
    BY Zenon
  <2>1. end \in Completed(after) <=>
          \E n \in DOMAIN after : after[n].type = "operation.completed" /\ after[n] = end
    BY DEF Completed
  <2>2. end \in Completed(ev) <=>
          \E n \in DOMAIN ev : ev[n].type = "operation.completed" /\ ev[n] = end
    BY DEF Completed
  <2> QED BY <1>3, <1>4, <1>5, <2>1, <2>2, Zenon
<1> QED BY <1>6 DEF after

(* A fact of which the lifecycle says nothing, or nothing of a span.        *)
LEMMA OthersHeard ==
  ASSUME NEW t, NEW t1, NEW sp0, NEW told, Seen(t, sp0, told), NEW f,
         SameOperations1(t, t1), t1.attempts = t.attempts,
         \A u \in Id : t1.tools[u] = t.tools[u] \/ t.tools[u] = None,
         f.type \in {"user", "synthetic", "usage", "toolStarted", "abortRequested"}
  PROVE  LET told1 == L!ApplyFact(told, f)
         IN  Seen(t1, sp0, told1) /\ LessHeld(told, told1) /\ told1.life = told.life
<1> DEFINE l == told.life
           ev == told.events
           sp == L!RecordAll(sp0, ev)
           told1 == L!ApplyFact(told, f)
<1>1. told = Told(l, ev) /\ Sequence(ev) /\ Sees(t, l, sp)
  BY DEF Seen
<1>2. \/ told1 = told
      \/ \E e : told1 = Told(l, Append(ev, e)) /\ e.type \in {"tool.admitted", "cancel.requested"}
  <2>1. CASE f.type \in {"user", "synthetic", "usage"}
    BY <2>1 DEF L!ApplyFact
  <2>2. CASE f.type = "toolStarted"
    <3>1. told1 = L!Publish(Told(l, ev), [type |-> "tool.admitted", id |-> f.id, op |-> f.op])
      BY <1>1, <2>2, Zenon DEF L!ApplyFact
    <3> QED BY <3>1, PublishTold
  <2>3. CASE f.type = "abortRequested"
    <3>1. told1 = L!Publish(Told(l, ev), [type |-> "cancel.requested", id |-> f.op, op |-> f.op])
      BY <1>1, <2>3, Zenon DEF L!ApplyFact
    <3> QED BY <3>1, PublishTold
  <2> QED BY <2>1, <2>2, <2>3
<1> HIDE DEF told1
<1>3. Sees(t1, l, sp)
  <2> HIDE DEF l, sp
  <2>1. OpsSeen(t1, l.operations, sp.operations)
    BY <1>1, Zenon DEF Sees, OpsSeen, SameOperations1
  <2>2. ToolsSeen(t1.tools, l.tools, sp.tools)
    BY <1>1, Zenon DEF Sees, ToolsSeen
  <2> QED BY <1>1, <2>1, <2>2, Zenon DEF Sees
<1>4. CASE told1 = told
  BY <1>1, <1>3, <1>4, Zenon DEF Seen, LessHeld, told1
<1>5. ASSUME NEW e, told1 = Told(l, Append(ev, e)),
             e.type \in {"tool.admitted", "cancel.requested"}
      PROVE  Seen(t1, sp0, told1) /\ LessHeld(told, told1) /\ told1.life = told.life
  <2>1. told1.life = l /\ told1.events = Append(ev, e)
    BY <1>5 DEF Told
  <2>2. L!RecordAll(sp0, Append(ev, e)) = L!Record(sp, e) /\ Sequence(Append(ev, e))
    BY <1>1, RecordLast
  <2>3. L!Record(sp, e) = sp
    BY <1>5 DEF L!Record
  <2>4. Completed(Append(ev, e)) = Completed(ev)
    BY <1>1, <1>5, CompletedLast
  <2>5. Seen(t1, sp0, told1)
    BY <1>3, <1>5, <2>1, <2>2, <2>3, Zenon DEF Seen
  <2>6. LessHeld(told, told1)
    BY <2>1, <2>4, Zenon DEF LessHeld
  <2> QED BY <2>1, <2>5, <2>6
<1> QED BY <1>2, <1>4, <1>5 DEF told1

(* An operation is held, with nothing charged; and it is no more, its end   *)
(* published.                                                               *)
StartTold(told, told1, f) ==
  /\ \E kind \in {"run", "compaction"} :
       told1.life.operations =
         [told.life.operations EXCEPT ![f.op] = [kind |-> kind, recovery |-> FALSE]]
  /\ told1.life.operationUsage = [told.life.operationUsage EXCEPT ![f.op] = 0]

Completion(told, f) ==
  [type |-> "operation.completed", id |-> f.op,
   outcome |-> L!Outcome(f.outcome), usage |-> told.life.operationUsage[f.op],
   recovery |-> told.life.operations[f.op].recovery,
   answer |-> f.final # None /\ told.life.answers[f.final] # None]

FinishTold(told, told1, f) ==
  /\ told1.life.operationUsage = [told.life.operationUsage EXCEPT ![f.op] = 0]
  /\ told1.life.operations = [told.life.operations EXCEPT ![f.op] = None]
  /\ told.life.operations[f.op] # None

(* The start of an operation.                                               *)
LEMMA StartHeard ==
  ASSUME NEW t, NEW t1, NEW sp0, NEW told, Seen(t, sp0, told), NEW f,
         f.type \in {"runStarted", "compactionStarted"},
         OpBegins(t, t1, f.op), t1.attempts = t.attempts, t1.tools = t.tools
  PROVE  LET told1 == L!ApplyFact(told, f)
         IN  /\ Seen(t1, sp0, told1) /\ LessHeld(told, told1)
             /\ told1.life.models = told.life.models
             /\ told1.life.answers = told.life.answers
             /\ StartTold(told, told1, f)
<1> DEFINE l == told.life
           ev == told.events
           sp == L!RecordAll(sp0, ev)
           told1 == L!ApplyFact(told, f)
           kind == IF f.type = "runStarted" THEN "run" ELSE "compaction"
           live == [kind |-> kind, recovery |-> FALSE]
           l1 == [l EXCEPT !.operations[f.op] = live, !.operationUsage[f.op] = 0]
           e == [type |-> "operation.started", id |-> f.op]
           sp1 == L!Record(sp, e)
           span == [op |-> f.op, end |-> None]
<1>1. told = Told(l, ev) /\ Sequence(ev) /\ Sees(t, l, sp)
  BY DEF Seen
<1>7. l \in L!Life /\ sp \in L!Spans
  BY <1>1 DEF Sees
<1>2. f.op \in Id /\ t.operations[f.op] = None /\ t1.operations[f.op] # None
      /\ \A op \in Id : Unfinished(t1, op) <=> Unfinished(t, op) \/ op = f.op
  BY DEF OpBegins
<1>3. kind \in {"run", "compaction"} /\ told1 = L!OperationStarted(told, f.op, kind)
  BY DEF L!ApplyFact
<1>4. told1 = Told(l1, Append(ev, e))
  <2> DEFINE with == [Told(l, ev) EXCEPT !.life.operations[f.op] = live,
                                         !.life.operationUsage[f.op] = 0]
  <2> HIDE DEF live, kind
  <2>1. with \in [life: {l1}, events: {ev}]
    BY <1>7 DEF Told, L!Life
  <2>2. told1 = L!Publish(with, e)
    BY <1>1, <1>3, Zenon DEF L!OperationStarted, live
  <2> HIDE DEF with, l1, e, told1
  <2>3. with = Told(l1, ev)
    BY <2>1 DEF Told
  <2> QED BY <2>2, <2>3, PublishTold
<1>5. live \in L!LiveOperation /\ live # None
  <2>1. live \in L!LiveOperation
    BY <1>3 DEF L!LiveOperation
  <2> HIDE DEF live
  <2> QED BY <2>1, ObserversAssumption
<1>6. span \in L!Span /\ L!IsOpen(span) /\ span # None
  BY <1>2, SpanTypes
<1>8. sp1 = [sp EXCEPT !.operations[f.op] = span]
  BY DEF L!Record
<1>9. Completed(Append(ev, e)) = Completed(ev)
  BY <1>1, CompletedLast
<1>10. L!RecordAll(sp0, Append(ev, e)) = sp1 /\ Sequence(Append(ev, e))
  BY <1>1, RecordLast
<1> HIDE DEF told1, kind, live, sp, sp1, e, span
<1>11. /\ l1.operations = [l.operations EXCEPT ![f.op] = live]
       /\ l1.operationUsage = [l.operationUsage EXCEPT ![f.op] = 0]
       /\ l1.models = l.models /\ l1.tools = l.tools /\ l1.answers = l.answers
       /\ l1 \in L!Life
  BY <1>2, <1>5, <1>7 DEF L!Life
<1>12. /\ sp1.operations = [sp.operations EXCEPT ![f.op] = span]
       /\ sp1.models = sp.models /\ sp1.tools = sp.tools /\ sp1 \in L!Spans
  BY <1>2, <1>6, <1>7, <1>8 DEF L!Spans
<1> HIDE DEF l1
<1>13. OpsSeen(t1, l1.operations, sp1.operations)
  <2> SUFFICES ASSUME NEW op \in Id
               PROVE  /\ l1.operations[op] # None <=> Unfinished(t1, op)
                      /\ L!IsOpen(sp1.operations[op]) <=> Unfinished(t1, op)
    BY Zenon DEF OpsSeen
  <2>1. /\ l.operations[op] # None <=> Unfinished(t, op)
        /\ L!IsOpen(sp.operations[op]) <=> Unfinished(t, op)
    BY <1>1, Zenon DEF Sees, OpsSeen
  <2>2. /\ l1.operations[op] = IF op = f.op THEN live ELSE l.operations[op]
        /\ sp1.operations[op] = IF op = f.op THEN span ELSE sp.operations[op]
    BY <1>7, <1>11, <1>12 DEF L!Life, L!Spans
  <2> QED BY <1>2, <1>5, <1>6, <2>1, <2>2, Zenon
<1>14. Sees(t1, l1, sp1)
  BY <1>1, <1>11, <1>12, <1>13, Zenon DEF Sees
<1>15. told1.life = l1 /\ told1.events = Append(ev, e)
  BY <1>4 DEF Told
<1>16. Seen(t1, sp0, told1)
  BY <1>4, <1>10, <1>14, <1>15, Zenon DEF Seen
<1>17. LessHeld(told, told1)
  BY <1>9, <1>11, <1>15, Zenon DEF LessHeld
<1> QED BY <1>3, <1>11, <1>15, <1>16, <1>17, Zenon DEF told1, live, StartTold

(* Its end: it is published, with what is known of the operation.           *)
LEMMA FinishHeard ==
  ASSUME NEW t, NEW t1, NEW sp0, NEW told, Seen(t, sp0, told), NEW f,
         f.type = "operationFinished",
         OpEnds(t, t1, f.op), t1.attempts = t.attempts, t1.tools = t.tools
  PROVE  LET told1 == L!ApplyFact(told, f)
         IN  /\ Seen(t1, sp0, told1)
             /\ told1.life.models = told.life.models /\ told1.life.tools = told.life.tools
             /\ Completed(told1.events) = Completed(told.events) \cup {Completion(told, f)}
             /\ FinishTold(told, told1, f)
<1> DEFINE l == told.life
           ev == told.events
           sp == L!RecordAll(sp0, ev)
           told1 == L!ApplyFact(told, f)
           kept == [i \in Id |-> IF l.answers[i] = f.op THEN None ELSE l.answers[i]]
           l1 == [l EXCEPT !.operations[f.op] = None, !.operationUsage[f.op] = 0,
                           !.answers = kept]
           e == [type |-> "operation.completed", id |-> f.op,
                 outcome |-> L!Outcome(f.outcome), usage |-> l.operationUsage[f.op],
                 recovery |-> l.operations[f.op].recovery,
                 answer |-> f.final # None /\ l.answers[f.final] # None]
           sp1 == L!Record(sp, e)
<1>1. told = Told(l, ev) /\ Sequence(ev) /\ Sees(t, l, sp)
  BY DEF Seen
<1>7. l \in L!Life /\ sp \in L!Spans
  BY <1>1 DEF Sees
<1>2. f.op \in Id /\ Unfinished(t, f.op)
      /\ \A op \in Id : Unfinished(t1, op) <=> Unfinished(t, op) /\ op # f.op
  BY DEF OpEnds
<1>3. l.operations[f.op] # None
  BY <1>1, <1>2, Zenon DEF Sees, OpsSeen
<1>4. told1 = Told(l1, Append(ev, e))
  <2>1. told1 = L!OperationCompleted(told, f)
    BY Zenon DEF L!ApplyFact
  <2>2. told1 = L!Publish([told EXCEPT !.life.operations[f.op] = None,
                          !.life.operationUsage[f.op] = 0,
                          !.life.answers = [i \in Id |->
                             IF @[i] = f.op THEN None ELSE @[i]]], e)
    BY <1>3, <2>1 DEF L!OperationCompleted
  <2> DEFINE without(m) == [m EXCEPT !.life.operations[f.op] = None,
                                     !.life.operationUsage[f.op] = 0,
                                     !.life.answers = [i \in Id |->
                                        IF @[i] = f.op THEN None ELSE @[i]]]
  <2>3. without(Told(l, ev)) = Told(l1, ev)
    <3>1. without(Told(l, ev)) \in [life: {l1}, events: {ev}]
      BY <1>7 DEF Told, L!Life
    <3> HIDE DEF without, l1
    <3> QED BY <3>1 DEF Told
  <2>4. told1 = L!Publish(without(told), e)
    BY <2>2
  <2> HIDE DEF l1, e, without, told1
  <2>5. without(told) = Told(l1, ev)
    BY <1>1, <2>3
  <2> QED BY <2>4, <2>5, PublishTold
<1>5. e.type = "operation.completed" /\ e.id = f.op /\ e.outcome \in L!Ends
  BY DEF L!Ends, L!Outcome
<1>6. sp1 = L!End("operations", sp, e)
  BY <1>5 DEF L!Record
<1>8. Completed(Append(ev, e)) = Completed(ev) \cup {e}
  <2> HIDE DEF e
  <2> QED BY <1>1, <1>5, CompletedLast
<1>9. L!RecordAll(sp0, Append(ev, e)) = sp1 /\ Sequence(Append(ev, e))
  <2> HIDE DEF e
  <2> QED BY <1>1, RecordLast
<1>10. kept \in [Id -> Id \cup {None}]
  BY <1>7 DEF L!Life
<1> HIDE DEF told1, sp, sp1, e, kept
<1>11. /\ l1.operations = [l.operations EXCEPT ![f.op] = None]
       /\ l1.operationUsage = [l.operationUsage EXCEPT ![f.op] = 0]
       /\ l1.models = l.models /\ l1.tools = l.tools
       /\ l1 \in L!Life
  BY <1>2, <1>7, <1>10 DEF L!Life
<1>12. /\ sp1 \in L!Spans /\ sp1.models = sp.models /\ sp1.tools = sp.tools
       /\ \A i \in Id \ {f.op} : sp1.operations[i] = sp.operations[i]
       /\ ~L!IsOpen(sp1.operations[f.op])
  <2>1. "operations" \in {"operations", "models", "tools"} /\ e.id \in Id
    BY <1>2, <1>5
  <2>2. sp1 \in L!Spans /\ OneSpan("operations", sp, sp1, e.id)
        /\ ~L!IsOpen(sp1["operations"][e.id])
    BY <1>5, <1>6, <1>7, <2>1, EndRecorded, Zenon
  <2> QED BY <1>5, <2>2 DEF OneSpan
<1> HIDE DEF l1
<1>13. OpsSeen(t1, l1.operations, sp1.operations)
  <2> SUFFICES ASSUME NEW op \in Id
               PROVE  /\ l1.operations[op] # None <=> Unfinished(t1, op)
                      /\ L!IsOpen(sp1.operations[op]) <=> Unfinished(t1, op)
    BY Zenon DEF OpsSeen
  <2>1. /\ l.operations[op] # None <=> Unfinished(t, op)
        /\ L!IsOpen(sp.operations[op]) <=> Unfinished(t, op)
    BY <1>1, Zenon DEF Sees, OpsSeen
  <2>2. l1.operations[op] = IF op = f.op THEN None ELSE l.operations[op]
    BY <1>7, <1>11 DEF L!Life
  <2> QED BY <1>2, <1>12, <2>1, <2>2, Zenon
<1>14. Sees(t1, l1, sp1)
  BY <1>1, <1>11, <1>12, <1>13, Zenon DEF Sees
<1>15. told1.life = l1 /\ told1.events = Append(ev, e)
  BY <1>4 DEF Told
<1>16. Seen(t1, sp0, told1)
  BY <1>4, <1>9, <1>14, <1>15, Zenon DEF Seen
<1> QED BY <1>3, <1>8, <1>11, <1>15, <1>16, Zenon DEF told1, e, FinishTold, Completion

(* Every attempt that is open was heard.                                    *)
AllHeard(t, l) == \A a \in Id : OpenAttempt(t, a) => l.models[a] # None

(* The rest of the lifecycle is as it was.                                  *)
OnlyModels(l, l1) ==
  /\ l1.operations = l.operations /\ l1.tools = l.tools
  /\ l1.operationUsage = l.operationUsage /\ l1.answers = l.answers

(* The end of an attempt that the lifecycle does not hold, and of one that  *)
(* it does.                                                                 *)
LEMMA UnknownEnds ==
  ASSUME NEW t, NEW t1, NEW sp0, NEW told, Seen(t, sp0, told), NEW a \in Id, NEW answer,
         Closes(t, t1, a, answer), t.attempts[a].settled = None, SameOperations1(t, t1),
         t1.tools = t.tools, told.life.models[a] = None
  PROVE  Seen(t1, sp0, told) /\ (AllHeard(t, told.life) => AllHeard(t1, told.life))
<1> DEFINE l == told.life
           sp == L!RecordAll(sp0, told.events)
<1>1. told = Told(l, told.events) /\ Sequence(told.events) /\ Sees(t, l, sp)
  BY DEF Seen
<1>2. /\ l \in L!Life /\ sp \in L!Spans /\ OpsSeen(t, l.operations, sp.operations)
      /\ ModelsSeen(t.attempts, l.models, sp.models) /\ ToolsSeen(t.tools, l.tools, sp.tools)
  BY <1>1 DEF Sees
<1>3. l.models[a] = None
  OBVIOUS
<1> HIDE DEF l, sp
<1>4. OpsSeen(t1, l.operations, sp.operations)
  BY <1>2, Zenon DEF OpsSeen, SameOperations1
<1>5. sp.models[a] = None
  <2>1. ~L!IsOpen(sp.models[a]) /\ (sp.models[a] # None =>
           /\ sp.models[a].end \in {None, "succeeded", "failed"}
           /\ sp.models[a].end = "succeeded" => t.attempts[a].settled # None
           /\ sp.models[a].end = "failed" => t.attempts[a].closed)
    BY <1>2, <1>3, Zenon DEF ModelsSeen
  <2>2. ~t.attempts[a].closed
    BY DEF Closes, OpenAttempt
  <2> QED BY <2>1, <2>2 DEF L!IsOpen
<1>6. ModelsSeen(t1.attempts, l.models, sp.models)
  <2>1. \A b \in Id : b # a => t1.attempts[b] = t.attempts[b]
    BY DEF Closes
  <2>2. ~L!IsOpen(sp.models[a])
    BY <1>5 DEF L!IsOpen
  <2> QED BY <1>2, <1>3, <1>5, <2>1, <2>2, Zenon DEF ModelsSeen
<1>7. Sees(t1, l, sp)
  BY <1>2, <1>4, <1>6, Zenon DEF Sees
<1>8. ASSUME AllHeard(t, l) PROVE AllHeard(t1, l)
  <2> SUFFICES ASSUME NEW b \in Id, OpenAttempt(t1, b) PROVE l.models[b] # None
    BY DEF AllHeard
  <2>1. b # a /\ OpenAttempt(t, b)
    BY DEF Closes, OpenAttempt
  <2> QED BY <1>8, <2>1 DEF AllHeard
<1> QED BY <1>1, <1>7, <1>8, Zenon DEF Seen, l, sp

(* So it is for an attempt that the lifecycle holds: its span ends as told. *)
LEMMA KnownEnds ==
  ASSUME NEW t, NEW t1, NEW sp0, NEW told, Seen(t, sp0, told), NEW a \in Id, NEW answer,
         Closes(t, t1, a, answer), t.attempts[a].settled = None, SameOperations1(t, t1),
         t1.tools = t.tools, told.life.models[a] # None, NEW outcome,
         \/ outcome = "succeeded" /\ answer # None
         \/ outcome = "failed" /\ answer = None,
         NEW told1, told1 = L!CompleteModel(told, a, outcome)
  PROVE  /\ Seen(t1, sp0, told1) /\ LessHeld(told, told1)
         /\ OnlyModels(told.life, told1.life)
         /\ AllHeard(t, told.life) => AllHeard(t1, told1.life)
<1> DEFINE l == told.life
           ev == told.events
           sp == L!RecordAll(sp0, ev)
           l1 == [l EXCEPT !.models[a] = None]
           e == [type |-> "model.completed", id |-> a, outcome |-> outcome]
           sp1 == L!Record(sp, e)
<1>1. told = Told(l, ev) /\ Sequence(ev) /\ Sees(t, l, sp)
  BY DEF Seen
<1>2. /\ l \in L!Life /\ sp \in L!Spans /\ OpsSeen(t, l.operations, sp.operations)
      /\ ModelsSeen(t.attempts, l.models, sp.models) /\ ToolsSeen(t.tools, l.tools, sp.tools)
  BY <1>1 DEF Sees
<1>3. told1 = Told(l1, Append(ev, e))
  <2> DEFINE without == [Told(l, ev) EXCEPT !.life.models[a] = None]
  <2>1. without \in [life: {l1}, events: {ev}]
    BY <1>2 DEF Told, L!Life
  <2>2. told1 = L!Publish(without, e)
    BY <1>1, Zenon DEF L!CompleteModel
  <2> HIDE DEF without, l1, e
  <2>3. without = Told(l1, ev)
    BY <2>1 DEF Told
  <2> QED BY <2>2, <2>3, PublishTold
<1>4. e.type = "model.completed" /\ e.id = a /\ e.outcome = outcome /\ outcome \in L!Ends
  BY DEF L!Ends
<1>5. sp1 = L!End("models", sp, e)
  BY <1>4 DEF L!Record
<1> HIDE DEF e, sp, sp1
<1>6. Completed(Append(ev, e)) = Completed(ev)
  BY <1>1, <1>4, CompletedLast
<1>7. L!RecordAll(sp0, Append(ev, e)) = sp1 /\ Sequence(Append(ev, e))
  BY <1>1, RecordLast DEF sp, sp1
<1>8. /\ l1.models = [l.models EXCEPT ![a] = None] /\ OnlyModels(l, l1)
      /\ l1 \in L!Life
  BY <1>2 DEF L!Life, OnlyModels
<1> HIDE DEF l1
<1>9. l.models[a] # None
  OBVIOUS
<1>10. L!IsOpen(sp.models[a])
  BY <1>2, <1>9, Zenon DEF ModelsSeen
<1>11. /\ sp1 \in L!Spans /\ sp1.operations = sp.operations /\ sp1.tools = sp.tools
       /\ \A i \in Id : i # a => sp1.models[i] = sp.models[i]
       /\ ~L!IsOpen(sp1.models[a]) /\ sp1.models[a] # None /\ sp1.models[a].end = outcome
  <2>1. "models" \in {"operations", "models", "tools"} /\ e.id \in Id /\ e.outcome \in L!Ends
    BY <1>4
  <2>2. /\ sp1 \in L!Spans /\ OneSpan("models", sp, sp1, e.id)
        /\ ~L!IsOpen(sp1["models"][e.id])
        /\ L!IsOpen(sp["models"][e.id]) =>
             sp1["models"][e.id] # None /\ sp1["models"][e.id].end = e.outcome
    <3> DEFINE kind == "models"
    <3>1. kind \in {"operations", "models", "tools"} /\ sp1 = L!End(kind, sp, e)
      BY <1>5
    <3>a. L!IsOpen(sp[kind][e.id])
      BY <1>4, <1>10
    <3> HIDE DEF kind
    <3>2. /\ sp1 \in L!Spans /\ OneSpan(kind, sp, sp1, e.id)
          /\ ~L!IsOpen(sp1[kind][e.id])
          /\ sp1[kind][e.id] # None /\ sp1[kind][e.id].end = e.outcome
      BY <1>2, <2>1, <3>1, <3>a, OpenEndRecorded, Zenon
    <3> QED BY <3>2 DEF kind
  <2> QED BY <1>4, <1>10, <2>2 DEF OneSpan
<1>12. /\ OpsSeen(t1, l1.operations, sp1.operations)
       /\ ToolsSeen(t1.tools, l1.tools, sp1.tools)
  BY <1>2, <1>8, <1>11, Zenon DEF OpsSeen, SameOperations1, OnlyModels
<1>13. l1.models[a] = None /\ \A b \in Id : b # a => l1.models[b] = l.models[b]
  BY <1>2, <1>8 DEF L!Life
<1>14. ModelsSeen(t1.attempts, l1.models, sp1.models)
  <2>1. \A b \in Id : b # a => t1.attempts[b] = t.attempts[b]
    BY DEF Closes
  <2>2. t1.attempts[a] # None /\ t1.attempts[a].closed /\ t1.attempts[a].settled = answer
    BY DEF Closes
  <2>3. /\ sp1.models[a].end \in {None, "succeeded", "failed"}
        /\ sp1.models[a].end = "succeeded" => t1.attempts[a].settled # None
        /\ sp1.models[a].end = "failed" => t1.attempts[a].closed /\ t1.attempts[a].settled = None
    BY <1>11, <2>2
  <2> SUFFICES ASSUME NEW b \in Id
               PROVE  /\ l1.models[b] # None =>
                           /\ t1.attempts[b] # None /\ ~t1.attempts[b].closed
                           /\ l1.models[b].op = t1.attempts[b].op
                           /\ l1.models[b].kind = t1.attempts[b].kind
                      /\ L!IsOpen(sp1.models[b]) <=> l1.models[b] # None
                      /\ sp1.models[b] # None =>
                           /\ t1.attempts[b] # None
                           /\ sp1.models[b].end \in {None, "succeeded", "failed"}
                           /\ sp1.models[b].end = "succeeded" => t1.attempts[b].settled # None
                           /\ sp1.models[b].end = "failed" =>
                                t1.attempts[b].closed /\ t1.attempts[b].settled = None
    BY Zenon DEF ModelsSeen
  <2>4. CASE b = a
    BY <1>11, <1>13, <2>2, <2>3, <2>4
  <2>5. CASE b # a
    <3>1. /\ l1.models[b] = l.models[b] /\ sp1.models[b] = sp.models[b]
          /\ t1.attempts[b] = t.attempts[b]
      BY <1>11, <1>13, <2>1, <2>5
    <3> QED BY <1>2, <3>1, Zenon DEF ModelsSeen
  <2> QED BY <2>4, <2>5
<1>15. Sees(t1, l1, sp1)
  BY <1>8, <1>11, <1>12, <1>14, Zenon DEF Sees
<1>16. ASSUME AllHeard(t, l) PROVE AllHeard(t1, l1)
  <2> SUFFICES ASSUME NEW b \in Id, OpenAttempt(t1, b) PROVE l1.models[b] # None
    BY DEF AllHeard
  <2>1. b # a /\ OpenAttempt(t, b)
    BY DEF Closes, OpenAttempt
  <2> QED BY <1>13, <1>16, <2>1 DEF AllHeard
<1>17. told1.life = l1 /\ told1.events = Append(ev, e)
  BY <1>3 DEF Told
<1>18. Seen(t1, sp0, told1)
  BY <1>3, <1>7, <1>15, <1>17, Zenon DEF Seen
<1>19. LessHeld(told, told1)
  <2>1. \A b \in Id : l1.models[b] # None => l.models[b] # None
    BY <1>13, Zenon
  <2> QED BY <1>6, <1>8, <1>17, <2>1, Zenon DEF LessHeld, OnlyModels
<1> QED BY <1>8, <1>16, <1>17, <1>18, <1>19, Zenon

(* The end of an attempt, held or not.                                      *)
LEMMA AttemptEnds ==
  ASSUME NEW t, NEW t1, NEW sp0, NEW told, Seen(t, sp0, told), NEW a \in Id, NEW answer,
         Closes(t, t1, a, answer), t.attempts[a].settled = None, SameOperations1(t, t1),
         t1.tools = t.tools, NEW outcome,
         \/ outcome = "succeeded" /\ answer # None
         \/ outcome = "failed" /\ answer = None,
         NEW told1, told1 = L!CompleteModel(told, a, outcome)
  PROVE  /\ Seen(t1, sp0, told1) /\ LessHeld(told, told1)
         /\ OnlyModels(told.life, told1.life)
         /\ AllHeard(t, told.life) => AllHeard(t1, told1.life)
<1>1. CASE told.life.models[a] # None
  BY <1>1, KnownEnds, Zenon
<1>2. CASE told.life.models[a] = None
  <2>1. told1 = told
    BY <1>2 DEF L!CompleteModel
  <2>2. Seen(t1, sp0, told) /\ (AllHeard(t, told.life) => AllHeard(t1, told.life))
    BY <1>2, UnknownEnds, Zenon
  <2> QED BY <2>1, <2>2, Zenon DEF LessHeld, OnlyModels
<1> QED BY <1>1, <1>2

(* As a success with an answer, or a failure without one.                   *)
LEMMA AttemptSucceeds ==
  ASSUME NEW t, NEW t1, NEW sp0, NEW told, Seen(t, sp0, told), NEW a \in Id, NEW answer,
         Closes(t, t1, a, answer), t.attempts[a].settled = None, SameOperations1(t, t1),
         t1.tools = t.tools, answer # None,
         NEW told1, told1 = L!CompleteModel(told, a, "succeeded")
  PROVE  /\ Seen(t1, sp0, told1) /\ LessHeld(told, told1)
         /\ OnlyModels(told.life, told1.life)
         /\ AllHeard(t, told.life) => AllHeard(t1, told1.life)
<1> DEFINE outcome == "succeeded"
<1>1. /\ told1 = L!CompleteModel(told, a, outcome)
      /\ \/ outcome = "succeeded" /\ answer # None
         \/ outcome = "failed" /\ answer = None
  OBVIOUS
<1> HIDE DEF outcome
<1> QED BY <1>1, AttemptEnds, Zenon

(* And an attempt that fails.                                               *)
LEMMA AttemptFails ==
  ASSUME NEW t, NEW t1, NEW sp0, NEW told, Seen(t, sp0, told), NEW a \in Id,
         Closes(t, t1, a, None), t.attempts[a].settled = None, SameOperations1(t, t1),
         t1.tools = t.tools,
         NEW told1, told1 = L!CompleteModel(told, a, "failed")
  PROVE  /\ Seen(t1, sp0, told1) /\ LessHeld(told, told1)
         /\ OnlyModels(told.life, told1.life)
         /\ AllHeard(t, told.life) => AllHeard(t1, told1.life)
<1> DEFINE outcome == "failed"
           answer == None
<1>1. /\ told1 = L!CompleteModel(told, a, outcome) /\ Closes(t, t1, a, answer)
      /\ \/ outcome = "succeeded" /\ answer # None
         \/ outcome = "failed" /\ answer = None
  OBVIOUS
<1> HIDE DEF outcome, answer
<1> QED BY <1>1, AttemptEnds, Zenon

(* The answer of an attempt that is held is kept.                           *)
AnswerTold(told, told1, f) ==
  told1.life.answers =
    IF told.life.models[f.attempt] = None THEN told.life.answers
    ELSE [told.life.answers EXCEPT ![f.id] = told.life.models[f.attempt].op]

(* An answer: it is kept for the end of the operation if the attempt was    *)
(* heard, and ends the attempt.                                             *)
LEMMA AnswerHeard ==
  ASSUME NEW t, NEW t1, NEW sp0, NEW told, Seen(t, sp0, told), NEW f, f.type = "assistant",
         f.id \in Id, Closes(t, t1, f.attempt, f.id), t.attempts[f.attempt].settled = None,
         SameOperations1(t, t1), t1.tools = t.tools, \A a \in Id : t.attempts[a] # None => t.attempts[a].op \in Id
  PROVE  LET told1 == L!ApplyFact(told, f)
         IN  /\ Seen(t1, sp0, told1) /\ LessHeld(told, told1)
             /\ told1.life.operations = told.life.operations
             /\ told1.life.operationUsage = told.life.operationUsage
             /\ AllHeard(t, told.life) => AllHeard(t1, told1.life)
             /\ AnswerTold(told, told1, f)
<1> DEFINE l == told.life
           ev == told.events
           sp == L!RecordAll(sp0, ev)
           model == l.models[f.attempt]
           l2 == [l EXCEPT !.answers[f.id] = model.op]
           kept == IF model = None THEN told ELSE [told EXCEPT !.life.answers[f.id] = model.op]
           told1 == L!ApplyFact(told, f)
<1>1. told = Told(l, ev) /\ Sequence(ev) /\ Sees(t, l, sp)
  BY DEF Seen
<1>2. f.attempt \in Id /\ f.id # None
  BY NoneAssumption DEF Closes
<1>3. told1 = L!CompleteModel(kept, f.attempt, "succeeded")
  <2>1. told1 = L!ModelAnswered(told, f)
    BY Zenon DEF L!ApplyFact
  <2> QED BY <2>1, Zenon DEF L!ModelAnswered
<1> HIDE DEF told1
<1>4. /\ Seen(t, sp0, kept) /\ kept.events = ev
      /\ kept.life.models = l.models /\ kept.life.operations = l.operations
      /\ kept.life.operationUsage = l.operationUsage /\ kept.life.tools = l.tools
      /\ kept.life.answers = IF model = None THEN l.answers
                             ELSE [l.answers EXCEPT ![f.id] = model.op]
  <2>1. CASE model = None
    BY <2>1
  <2>2. CASE model # None
    <3>1. l \in L!Life
      BY <1>1 DEF Sees
    <3>2. model.op \in Id
      <4>1. t.attempts[f.attempt] # None /\ model.op = t.attempts[f.attempt].op
        BY <1>1, <1>2, <2>2, Zenon DEF Sees, ModelsSeen
      <4> QED BY <1>2, <4>1
    <3>3. kept \in [life: {l2}, events: {ev}]
      <4>1. [Told(l, ev) EXCEPT !.life.answers[f.id] = model.op] \in [life: {l2}, events: {ev}]
        BY <3>1 DEF Told, L!Life
      <4> QED BY <1>1, <2>2, <4>1
    <3> HIDE DEF model
    <3>4. /\ l2 \in L!Life /\ l2.operations = l.operations /\ l2.models = l.models
          /\ l2.tools = l.tools /\ l2.operationUsage = l.operationUsage
          /\ l2.answers = [l.answers EXCEPT ![f.id] = model.op]
      BY <3>1, <3>2 DEF L!Life
    <3> HIDE DEF kept, l2
    <3>5. kept = Told(l2, ev) /\ kept.life = l2 /\ kept.events = ev
      BY <3>3 DEF Told
    <3>6. Sees(t, l2, sp)
      BY <1>1, <3>4, Zenon DEF Sees
    <3>7. Seen(t, sp0, kept)
      BY <1>1, <3>5, <3>6, Zenon DEF Seen, sp
    <3> QED BY <2>2, <3>4, <3>5, <3>7, Zenon
  <2> QED BY <2>1, <2>2
<1> HIDE DEF kept, model
<1>5. /\ Seen(t1, sp0, told1) /\ LessHeld(kept, told1)
      /\ OnlyModels(kept.life, told1.life)
      /\ AllHeard(t, kept.life) => AllHeard(t1, told1.life)
  <2> DEFINE a == f.attempt
             answer == f.id
  <2>1. /\ a \in Id /\ told1 = L!CompleteModel(kept, a, "succeeded") /\ Closes(t, t1, a, answer)
        /\ t.attempts[a].settled = None /\ answer # None
    BY <1>2, <1>3
  <2> HIDE DEF a, answer
  <2> QED BY <1>4, <2>1, AttemptSucceeds, Zenon
<1>6. LessHeld(told, told1)
  BY <1>4, <1>5, Zenon DEF LessHeld, ev, l
<1>7. AllHeard(t, l) => AllHeard(t, kept.life)
  BY <1>4 DEF AllHeard
<1> QED BY <1>4, <1>5, <1>6, <1>7, Zenon DEF OnlyModels, told1, model, AnswerTold

(* A failure: an attempt of an earlier process is only reconciled.          *)
LEMMA FailureHeard ==
  ASSUME NEW t, NEW t1, NEW sp0, NEW told, Seen(t, sp0, told), NEW f, f.type = "stepFailed",
         Closes(t, t1, f.attempt, None), t.attempts[f.attempt].settled = None,
         SameOperations1(t, t1), t1.tools = t.tools
  PROVE  LET told1 == L!ApplyFact(told, f)
         IN  /\ Seen(t1, sp0, told1) /\ LessHeld(told, told1)
             /\ OnlyModels(told.life, told1.life)
             /\ AllHeard(t, told.life) => AllHeard(t1, told1.life)
<1> DEFINE l == told.life
           ev == told.events
           told1 == L!ApplyFact(told, f)
<1>1. told = Told(l, ev) /\ Sequence(ev)
  BY DEF Seen
<1>2. f.attempt \in Id
  BY DEF Closes
<1>3. told1 = L!ModelFailed(told, f)
  BY Zenon DEF L!ApplyFact
<1> HIDE DEF told1
<1>4. CASE l.models[f.attempt] = None /\ L!Recovery(l, f.op)
  <2> DEFINE e == [type |-> "model.reconciled", id |-> f.attempt]
  <2>1. told1 = Told(l, Append(ev, e))
    <3>1. told1 = L!Publish(Told(l, ev), e)
      BY <1>1, <1>3, <1>4, Zenon DEF L!ModelFailed
    <3> QED BY <3>1, PublishTold
  <2>2. e.type = "model.reconciled"
    OBVIOUS
  <2> HIDE DEF e
  <2>3. told1.life = l /\ told1.events = Append(ev, e)
    BY <2>1 DEF Told
  <2>4. L!RecordAll(sp0, Append(ev, e)) = L!Record(L!RecordAll(sp0, ev), e)
        /\ Sequence(Append(ev, e))
    BY <1>1, RecordLast
  <2>5. L!Record(L!RecordAll(sp0, ev), e) = L!RecordAll(sp0, ev)
    BY <2>2 DEF L!Record
  <2>6. Completed(Append(ev, e)) = Completed(ev)
    BY <1>1, <2>2, CompletedLast
  <2>7. Seen(t1, sp0, told) /\ (AllHeard(t, l) => AllHeard(t1, l))
    BY <1>2, <1>4, UnknownEnds, Zenon
  <2>8. Seen(t1, sp0, told1)
    BY <2>1, <2>3, <2>4, <2>5, <2>7, Zenon DEF Seen
  <2> QED BY <2>3, <2>6, <2>7, <2>8, Zenon DEF LessHeld, OnlyModels, told1
<1>5. CASE ~(l.models[f.attempt] = None /\ L!Recovery(l, f.op))
  <2>1. told1 = L!CompleteModel(told, f.attempt, "failed")
    BY <1>3, <1>5, Zenon DEF L!ModelFailed
  <2>2. /\ Seen(t1, sp0, told1) /\ LessHeld(told, told1)
        /\ OnlyModels(told.life, told1.life)
        /\ AllHeard(t, told.life) => AllHeard(t1, told1.life)
    <3> DEFINE a == f.attempt
    <3>1. /\ a \in Id /\ told1 = L!CompleteModel(told, a, "failed") /\ Closes(t, t1, a, None)
          /\ t.attempts[a].settled = None
      BY <1>2, <2>1
    <3> HIDE DEF a
    <3> QED BY <3>1, AttemptFails, Zenon
  <2> QED BY <2>2 DEF told1
<1> QED BY <1>4, <1>5

(* A compaction entry.                                                      *)
LEMMA SummaryHeard ==
  ASSUME NEW t, NEW t1, NEW sp0, NEW told, Seen(t, sp0, told), NEW f, f.type = "compaction",
         f.id \in Id, NEW a \in Id, Closes(t, t1, a, f.id), t.attempts[a].settled = None,
         t.attempts[a].op = f.op, t.attempts[a].kind = "compaction",
         \A b \in Id : OpenAttempt(t, b) /\ t.attempts[b].op = f.op => b = a,
         SameOperations1(t, t1), t1.tools = t.tools
  PROVE  LET told1 == L!ApplyFact(told, f)
         IN  /\ Seen(t1, sp0, told1) /\ LessHeld(told, told1)
             /\ OnlyModels(told.life, told1.life)
             /\ AllHeard(t, told.life) => AllHeard(t1, told1.life)
<1> DEFINE l == told.life
           sp == L!RecordAll(sp0, told.events)
           told1 == L!ApplyFact(told, f)
           held == {b \in Id : /\ l.models[b] # None
                               /\ l.models[b].op = f.op
                               /\ l.models[b].kind = "compaction"}
           answer == f.id
<1>1. answer # None /\ Closes(t, t1, a, answer)
  BY NoneAssumption
<1>2. \A b \in Id : l.models[b] # None =>
        /\ OpenAttempt(t, b)
        /\ l.models[b].op = t.attempts[b].op /\ l.models[b].kind = t.attempts[b].kind
  <2>1. ModelsSeen(t.attempts, l.models, sp.models)
    BY DEF Seen, Sees
  <2> QED BY <2>1 DEF ModelsSeen, OpenAttempt
<1>3. told1 = IF held = {} THEN told
              ELSE L!CompleteModel(told, CHOOSE b \in held : TRUE, "succeeded")
  <2>1. told1 = L!Summarised(told, f)
    BY Zenon DEF L!ApplyFact
  <2> QED BY <2>1 DEF L!Summarised
<1> HIDE DEF told1, answer
<1>4. \A b \in held : b = a
  BY <1>2
<1>5. CASE held = {}
  <2>1. l.models[a] = None
    BY <1>2, <1>5
  <2>2. Seen(t1, sp0, told) /\ (AllHeard(t, told.life) => AllHeard(t1, told.life))
    BY <1>1, <2>1, UnknownEnds, Zenon
  <2>3. told1 = told
    BY <1>3, <1>5
  <2> QED BY <2>2, <2>3, Zenon DEF LessHeld, OnlyModels, told1
<1>6. CASE held # {}
  <2>1. (CHOOSE b \in held : TRUE) = a
    <3> HIDE DEF held
    <3> QED BY <1>4, <1>6
  <2>2. told1 = L!CompleteModel(told, a, "succeeded")
    <3> HIDE DEF held
    <3> QED BY <1>3, <1>6, <2>1
  <2>3. /\ Seen(t1, sp0, told1) /\ LessHeld(told, told1)
        /\ OnlyModels(told.life, told1.life)
        /\ AllHeard(t, told.life) => AllHeard(t1, told1.life)
    BY <1>1, <2>2, AttemptSucceeds, Zenon
  <2> QED BY <2>3 DEF told1
<1> QED BY <1>5, <1>6

(* An attempt begins, when the lifecycle holds none.                        *)
LEMMA AttemptHeard ==
  ASSUME NEW t, NEW t1, NEW sp0, NEW told, Seen(t, sp0, told), NEW f, f.type = "stepAttempt",
         Opens(t, t1, f), SameOperations1(t, t1), t1.tools = t.tools,
         \A a \in Id : told.life.models[a] = None
  PROVE  LET told1 == L!ApplyFact(told, f)
         IN  /\ Seen(t1, sp0, told1)
             /\ told1.life.tools = told.life.tools
             /\ Completed(told1.events) = Completed(told.events)
             /\ OnlyModels(told.life, told1.life)
             /\ AllHeard(t, told.life) => AllHeard(t1, told1.life)
<1> DEFINE l == told.life
           ev == told.events
           sp == L!RecordAll(sp0, ev)
           told1 == L!ApplyFact(told, f)
           a == f.attempt
           live == [op |-> f.op, kind |-> f.kind]
           l1 == [l EXCEPT !.models[a] = live]
           e == [type |-> "model.started", id |-> a, op |-> f.op]
           sp1 == L!Record(sp, e)
<1>1. told = Told(l, ev) /\ Sequence(ev) /\ Sees(t, l, sp)
  BY DEF Seen
<1>2. /\ l \in L!Life /\ sp \in L!Spans /\ OpsSeen(t, l.operations, sp.operations)
      /\ ModelsSeen(t.attempts, l.models, sp.models) /\ ToolsSeen(t.tools, l.tools, sp.tools)
  BY <1>1 DEF Sees
<1>3. /\ a \in Id /\ t.attempts[a] = None /\ OpenAttempt(t1, a) /\ t1.attempts[a].op = f.op
      /\ t1.attempts[a].kind = f.kind
      /\ f.op \in Id /\ Unfinished(t, f.op) /\ f.kind \in {"run", "compaction"}
      /\ \A b \in Id : b # a => AttemptStays(t, t1, b)
  BY DEF Opens
<1>4. live \in L!LiveModel /\ live # None /\ live.op = f.op /\ live.kind = f.kind
  <2>1. live \in L!LiveModel /\ live.op = f.op /\ live.kind = f.kind
    BY <1>3 DEF L!LiveModel
  <2> HIDE DEF live
  <2> QED BY <2>1, ObserversAssumption
<1>5. told1 = Told(l1, Append(ev, e))
  <2> DEFINE with == [Told(l, ev) EXCEPT !.life.models[a] = live]
  <2>1. with \in [life: {l1}, events: {ev}]
    BY <1>2 DEF Told, L!Life
  <2>2. told1 = L!ModelStarted(told, f)
    BY Zenon DEF L!ApplyFact
  <2>3. told1 = L!Publish(with, e)
    BY <1>1, <2>2, Zenon DEF L!ModelStarted
  <2> HIDE DEF with, l1, e, told1
  <2>4. with = Told(l1, ev)
    BY <2>1 DEF Told
  <2> QED BY <2>3, <2>4, PublishTold
<1>6. e.type = "model.started" /\ e.id = a /\ e.op = f.op
  OBVIOUS
<1>7. sp1 = L!Begin("models", sp, e)
  BY <1>6 DEF L!Record
<1> HIDE DEF e, sp, sp1, live, a, told1
<1>8. Completed(Append(ev, e)) = Completed(ev)
  BY <1>1, <1>6, CompletedLast
<1>9. L!RecordAll(sp0, Append(ev, e)) = sp1 /\ Sequence(Append(ev, e))
  BY <1>1, RecordLast DEF sp, sp1
<1>10. l1.models = [l.models EXCEPT ![a] = live] /\ OnlyModels(l, l1) /\ l1 \in L!Life
  BY <1>2, <1>3, <1>4 DEF L!Life, OnlyModels
<1>11. l1.models[a] = live /\ \A b \in Id : b # a => l1.models[b] = None
  BY <1>2, <1>3, <1>10 DEF L!Life
<1> HIDE DEF l1
<1>12. /\ sp1 \in L!Spans /\ sp1.operations = sp.operations /\ sp1.tools = sp.tools
       /\ \A i \in Id : i # a => sp1.models[i] = sp.models[i]
       /\ L!IsOpen(sp1.models[a]) /\ sp1.models[a] # None /\ sp1.models[a].end = None
  <2> DEFINE kind == "models"
  <2>1. /\ kind \in {"models", "tools"} /\ e.id \in Id /\ e.op \in Id
        /\ sp1 = L!Begin(kind, sp, e)
    BY <1>3, <1>6, <1>7
  <2>2. L!IsOpen(sp.operations[e.op])
    BY <1>2, <1>3, <1>6 DEF OpsSeen
  <2> HIDE DEF kind
  <2>3. /\ sp1 \in L!Spans /\ OneSpan(kind, sp, sp1, e.id)
        /\ sp1[kind][e.id] # None /\ sp1[kind][e.id].end = None
        /\ L!IsOpen(sp1[kind][e.id])
    BY <1>2, <2>1, <2>2, BeginRecorded, Zenon
  <2> QED BY <1>6, <2>3 DEF OneSpan, kind
<1>13. /\ OpsSeen(t1, l1.operations, sp1.operations)
       /\ ToolsSeen(t1.tools, l1.tools, sp1.tools)
  BY <1>2, <1>10, <1>12, Zenon DEF OpsSeen, SameOperations1, OnlyModels
<1>14. ModelsSeen(t1.attempts, l1.models, sp1.models)
  <2> SUFFICES ASSUME NEW b \in Id
               PROVE  /\ l1.models[b] # None =>
                           /\ t1.attempts[b] # None /\ ~t1.attempts[b].closed
                           /\ l1.models[b].op = t1.attempts[b].op
                           /\ l1.models[b].kind = t1.attempts[b].kind
                      /\ L!IsOpen(sp1.models[b]) <=> l1.models[b] # None
                      /\ sp1.models[b] # None =>
                           /\ t1.attempts[b] # None
                           /\ sp1.models[b].end \in {None, "succeeded", "failed"}
                           /\ sp1.models[b].end = "succeeded" => t1.attempts[b].settled # None
                           /\ sp1.models[b].end = "failed" =>
                                t1.attempts[b].closed /\ t1.attempts[b].settled = None
    BY Zenon DEF ModelsSeen
  <2>1. CASE b = a
    <3>1. None # "succeeded" /\ None # "failed"
      BY ObserversAssumption DEF L!Ends
    <3> QED BY <1>3, <1>4, <1>11, <1>12, <2>1, <3>1 DEF OpenAttempt
  <2>2. CASE b # a
    <3>1. /\ l1.models[b] = None /\ sp1.models[b] = sp.models[b] /\ AttemptStays(t, t1, b)
      BY <1>3, <1>11, <1>12, <2>2
    <3>2. l.models[b] = None
      OBVIOUS
    <3>3. /\ ~L!IsOpen(sp.models[b])
          /\ sp.models[b] # None =>
               /\ t.attempts[b] # None /\ sp.models[b].end \in {None, "succeeded", "failed"}
               /\ sp.models[b].end = "succeeded" => t.attempts[b].settled # None
               /\ sp.models[b].end = "failed" =>
                    t.attempts[b].closed /\ t.attempts[b].settled = None
      BY <1>2, <3>2, Zenon DEF ModelsSeen
    <3> QED BY <3>1, <3>3 DEF AttemptStays
  <2> QED BY <2>1, <2>2
<1>15. Sees(t1, l1, sp1)
  BY <1>10, <1>12, <1>13, <1>14, Zenon DEF Sees
<1>16. ASSUME AllHeard(t, l) PROVE AllHeard(t1, l1)
  <2> SUFFICES ASSUME NEW b \in Id, OpenAttempt(t1, b) PROVE l1.models[b] # None
    BY DEF AllHeard
  <2>1. b # a => OpenAttempt(t, b)
    BY <1>3 DEF AttemptStays, OpenAttempt
  <2>2. ~OpenAttempt(t, b)
    BY <1>16 DEF AllHeard
  <2> QED BY <1>4, <1>11, <2>1, <2>2
<1>17. told1.life = l1 /\ told1.events = Append(ev, e)
  BY <1>5 DEF Told
<1>18. Seen(t1, sp0, told1)
  BY <1>5, <1>9, <1>15, <1>17, Zenon DEF Seen
<1> QED BY <1>8, <1>10, <1>16, <1>17, <1>18, Zenon DEF OnlyModels, told1

(* A started tool has its result.                                           *)
LEMMA ResultHeard ==
  ASSUME NEW t, NEW t1, NEW sp0, NEW told, Seen(t, sp0, told), NEW f, f.type = "result",
         CompletesTool(t, t1, f.started), SameOperations1(t, t1), t1.attempts = t.attempts
  PROVE  LET told1 == L!ApplyFact(told, f)
         IN  /\ Seen(t1, sp0, told1)
             /\ told1.life.models = told.life.models
             /\ told1.life.operations = told.life.operations
             /\ told1.life.operationUsage = told.life.operationUsage
             /\ told1.life.answers = told.life.answers
             /\ \A u \in Id : told1.life.tools[u] # None <=>
                                told.life.tools[u] # None /\ u # f.started
             /\ Completed(told1.events) = Completed(told.events)
<1> DEFINE l == told.life
           ev == told.events
           sp == L!RecordAll(sp0, ev)
           told1 == L!ApplyFact(told, f)
           u0 == f.started
<1>1. told = Told(l, ev) /\ Sequence(ev) /\ Sees(t, l, sp)
  BY DEF Seen
<1>2. /\ l \in L!Life /\ sp \in L!Spans /\ OpsSeen(t, l.operations, sp.operations)
      /\ ModelsSeen(t.attempts, l.models, sp.models) /\ ToolsSeen(t.tools, l.tools, sp.tools)
  BY <1>1 DEF Sees
<1>3. /\ u0 \in Id /\ t.tools[u0] # None /\ t.tools[u0].status = "pending"
      /\ t1.tools[u0] # None /\ t1.tools[u0].status = "completed"
      /\ \A u \in Id : u # u0 => t1.tools[u] = t.tools[u]
  BY DEF CompletesTool
<1>4. told1 = L!CompleteTool(told, u0)
  BY Zenon DEF L!ApplyFact
<1> HIDE DEF told1, u0, sp
<1>a. None # "written" /\ "written" \in L!Ends
  BY ObserversAssumption DEF L!Ends
<1>5. CASE l.tools[u0] = None
  <2>1. told1 = told
    BY <1>4, <1>5 DEF L!CompleteTool
  <2> HIDE DEF l
  <2>2. sp.tools[u0] = None
    <3>1. ~L!IsOpen(sp.tools[u0]) /\ (sp.tools[u0] # None =>
             /\ sp.tools[u0].end \in {None, "written"}
             /\ sp.tools[u0].end = "written" <=> t.tools[u0].status = "completed")
      BY <1>2, <1>3, <1>5, Zenon DEF ToolsSeen
    <3> QED BY <1>3, <3>1 DEF L!IsOpen
  <2>3. ToolsSeen(t1.tools, l.tools, sp.tools)
    <3>1. ~L!IsOpen(sp.tools[u0])
      BY <2>2 DEF L!IsOpen
    <3> SUFFICES ASSUME NEW u \in Id
                 PROVE  /\ l.tools[u] # None => t1.tools[u] # None /\ t1.tools[u].status = "pending"
                        /\ L!IsOpen(sp.tools[u]) <=> l.tools[u] # None
                        /\ sp.tools[u] # None =>
                             /\ t1.tools[u] # None /\ sp.tools[u].end \in {None, "written"}
                             /\ sp.tools[u].end = "written" <=> t1.tools[u].status = "completed"
      BY Zenon DEF ToolsSeen
    <3>2. CASE u = u0
      BY <1>5, <2>2, <3>1, <3>2
    <3>3. CASE u # u0
      <4>1. t1.tools[u] = t.tools[u]
        BY <1>3, <3>3
      <4> QED BY <1>2, <4>1, Zenon DEF ToolsSeen
    <3> QED BY <3>2, <3>3
  <2>4. OpsSeen(t1, l.operations, sp.operations)
    BY <1>2, Zenon DEF OpsSeen, SameOperations1
  <2>5. Sees(t1, l, sp)
    BY <1>2, <2>3, <2>4, Zenon DEF Sees
  <2>6. Seen(t1, sp0, told1)
    BY <1>1, <2>1, <2>5, Zenon DEF Seen, l, sp
  <2>7. \A u \in Id : l.tools[u] # None <=> l.tools[u] # None /\ u # u0
    BY <1>5
  <2> QED BY <2>1, <2>6, <2>7, Zenon DEF told1, u0, l
<1>6. CASE l.tools[u0] # None
  <2> DEFINE l1 == [l EXCEPT !.tools[u0] = None]
             e == [type |-> "tool.completed", id |-> u0, outcome |-> "written"]
             sp1 == L!Record(sp, e)
  <2>1. told1 = Told(l1, Append(ev, e))
    <3> DEFINE without == [Told(l, ev) EXCEPT !.life.tools[u0] = None]
    <3>1. without \in [life: {l1}, events: {ev}]
      BY <1>2 DEF Told, L!Life
    <3>2. told1 = L!Publish(without, e)
      BY <1>1, <1>4, <1>6, Zenon DEF L!CompleteTool
    <3> HIDE DEF without, l1, e
    <3>3. without = Told(l1, ev)
      BY <3>1 DEF Told
    <3> QED BY <3>2, <3>3, PublishTold
  <2>2. e.type = "tool.completed" /\ e.id = u0 /\ e.outcome = "written"
    OBVIOUS
  <2>3. sp1 = L!End("tools", sp, e)
    BY <2>2 DEF L!Record
  <2> HIDE DEF e, sp1
  <2>4. Completed(Append(ev, e)) = Completed(ev)
    BY <1>1, <2>2, CompletedLast
  <2>5. L!RecordAll(sp0, Append(ev, e)) = sp1 /\ Sequence(Append(ev, e))
    BY <1>1, RecordLast DEF sp, sp1
  <2>6. /\ l1.tools = [l.tools EXCEPT ![u0] = None] /\ l1.models = l.models
        /\ l1.operations = l.operations /\ l1.answers = l.answers
        /\ l1.operationUsage = l.operationUsage /\ l1 \in L!Life
    BY <1>2 DEF L!Life
  <2>7. l1.tools[u0] = None /\ \A u \in Id : u # u0 => l1.tools[u] = l.tools[u]
    BY <1>2, <1>3, <2>6 DEF L!Life
  <2> HIDE DEF l1
  <2>8. L!IsOpen(sp.tools[u0])
    BY <1>2, <1>3, <1>6, Zenon DEF ToolsSeen
  <2>9. /\ sp1 \in L!Spans /\ sp1.operations = sp.operations /\ sp1.models = sp.models
        /\ \A i \in Id : i # u0 => sp1.tools[i] = sp.tools[i]
        /\ ~L!IsOpen(sp1.tools[u0]) /\ sp1.tools[u0] # None /\ sp1.tools[u0].end = "written"
    <3> DEFINE kind == "tools"
    <3>1. /\ kind \in {"operations", "models", "tools"} /\ e.id \in Id /\ e.outcome \in L!Ends
          /\ sp1 = L!End(kind, sp, e) /\ L!IsOpen(sp[kind][e.id])
      BY <1>a, <1>3, <2>2, <2>3, <2>8
    <3> HIDE DEF kind
    <3>2. /\ sp1 \in L!Spans /\ OneSpan(kind, sp, sp1, e.id)
          /\ ~L!IsOpen(sp1[kind][e.id])
          /\ sp1[kind][e.id] # None /\ sp1[kind][e.id].end = e.outcome
      BY <1>2, <3>1, OpenEndRecorded, Zenon
    <3> QED BY <2>2, <3>2 DEF OneSpan, kind
  <2>10. OpsSeen(t1, l1.operations, sp1.operations)
    BY <1>2, <2>6, <2>9, Zenon DEF OpsSeen, SameOperations1
  <2>11. ToolsSeen(t1.tools, l1.tools, sp1.tools)
    <3> SUFFICES ASSUME NEW u \in Id
                 PROVE  /\ l1.tools[u] # None => t1.tools[u] # None /\ t1.tools[u].status = "pending"
                        /\ L!IsOpen(sp1.tools[u]) <=> l1.tools[u] # None
                        /\ sp1.tools[u] # None =>
                             /\ t1.tools[u] # None /\ sp1.tools[u].end \in {None, "written"}
                             /\ sp1.tools[u].end = "written" <=> t1.tools[u].status = "completed"
      BY Zenon DEF ToolsSeen
    <3>1. CASE u = u0
      BY <1>3, <2>7, <2>9, <3>1
    <3>2. CASE u # u0
      <4>1. t1.tools[u] = t.tools[u] /\ l1.tools[u] = l.tools[u] /\ sp1.tools[u] = sp.tools[u]
        BY <1>3, <2>7, <2>9, <3>2
      <4> QED BY <1>2, <4>1, Zenon DEF ToolsSeen
    <3> QED BY <3>1, <3>2
  <2>12. Sees(t1, l1, sp1)
    BY <1>2, <2>6, <2>9, <2>10, <2>11, Zenon DEF Sees
  <2>13. told1.life = l1 /\ told1.events = Append(ev, e)
    BY <2>1 DEF Told
  <2>14. Seen(t1, sp0, told1)
    BY <2>1, <2>5, <2>12, <2>13, Zenon DEF Seen
  <2>15. \A u \in Id : l1.tools[u] # None <=> l.tools[u] # None /\ u # u0
    BY <2>7
  <2> QED BY <2>4, <2>6, <2>13, <2>14, <2>15, Zenon DEF told1, u0, l
<1> QED BY <1>5, <1>6

-----------------------------------------------------------------------------
(* Hearing any fact *)

NoModels(l) == \A a \in Id : l.models[a] = None
Starts == {"runStarted", "compactionStarted"}

(* What the lifecycle makes of a fact, but for what the file says of it.    *)
Hears1(t, t1, told, told1, f) ==
  /\ AllHeard(t, told.life) => AllHeard(t1, told1.life)
  /\ f.type # "stepAttempt" =>
       \A a \in Id : told1.life.models[a] # None => told.life.models[a] # None
  /\ \A u \in Id : told1.life.tools[u] # None <=>
                     told.life.tools[u] # None /\ ~(f.type = "result" /\ u = f.started)
  /\ Completed(told1.events) = IF f.type = "operationFinished"
                                 THEN Completed(told.events) \cup {Completion(told, f)}
                                 ELSE Completed(told.events)
  /\ f.type \notin Starts \cup {"operationFinished"} =>
       /\ told1.life.operations = told.life.operations
       /\ told1.life.operationUsage = told.life.operationUsage
  /\ f.type \notin {"assistant", "operationFinished"} =>
       told1.life.answers = told.life.answers
  /\ f.type \in Starts => StartTold(told, told1, f)
  /\ f.type = "operationFinished" => FinishTold(told, told1, f)
  /\ f.type = "assistant" => AnswerTold(told, told1, f)

(* No attempt is open unless a step is attempted.                           *)
LEMMA NotAttempting ==
  ASSUME NEW t, Good(t), OpenFits(t), Idle(t) \/ ~Attempting(t)
  PROVE  NoneOpened(t)
<1> SUFFICES ASSUME NEW a \in Id, OpenAttempt(t, a) PROVE FALSE
  BY DEF NoneOpened
<1>1. ~Idle(t) /\ t.operation.step = [attempt |-> a, status |-> "attempting"]
  BY OpenedIsCurrent
<1>2. t.operation.step # None
  <2>1. t.operation.step \in StepState \cup {None} /\ t \in State
    BY <1>1, CurrentTypes DEF Good, Sound, OperationState
  <2>2. t.operation.step = None => None \in [attempt : Id, status : {"attempting"}]
    BY <1>1
  <2>3. None \notin StepState
    BY NoneAssumption
  <2> QED BY <1>1, <2>1, <2>2, <2>3 DEF StepState
<1> QED BY <1>1, <1>2 DEF Attempting

(* Hearing a fact: the lifecycle and its spans see the file as it has       *)
(* become.                                                                  *)
LEMMA FactHeard ==
  ASSUME NEW t, NEW t1, NEW sp0, NEW told, Good(t), OpenFits(t), Seen(t, sp0, told),
         NEW f \in Facts, Reduces(t, t1, f),
         f.type = "stepAttempt" => NoModels(told.life),
         f.type = "operationFinished" => f.outcome = "aborted" \/ NoneOpened(t)
  PROVE  /\ Good(t1) /\ OpenFits(t1) /\ Follows(t, t1, f)
         /\ Seen(t1, sp0, L!ApplyFact(told, f))
         /\ Hears1(t, t1, told, L!ApplyFact(told, f), f)
<1> DEFINE told1 == L!ApplyFact(told, f)
<1>0. Good(t1) /\ Follows(t, t1, f)
  BY FactFollows
<1>1. f.type = "operationFinished" => NoneOpened(t)
  <2> SUFFICES ASSUME f.type = "operationFinished" PROVE NoneOpened(t)
    OBVIOUS
  <2>1. f.outcome = "aborted" => ~Attempting(t)
    BY <1>0, EndsFollows
  <2> QED BY <2>1, NotAttempting
<1>2. OpenFits(t1)
  BY <1>0, <1>1, OpenKept
<1>o. /\ told.life = told.life
      /\ \A a \in Id : t.attempts[a] # None => t.attempts[a].op \in Id
  BY AttemptOps
<1>3. CASE f.type \in Starts
  <2>1. OpBegins(t, t1, f.op) /\ t1.attempts = t.attempts /\ t1.tools = t.tools
    BY <1>0, <1>3, BeginsFollows DEF Starts
  <2>2. /\ Seen(t1, sp0, told1) /\ LessHeld(told, told1)
        /\ told1.life.models = told.life.models
        /\ told1.life.answers = told.life.answers
        /\ StartTold(told, told1, f)
    BY <1>3, <2>1, StartHeard DEF Starts
  <2>3. Hears1(t, t1, told, told1, f)
    <3> HIDE DEF told1
    <3>1. f.type \notin {"stepAttempt", "result", "operationFinished", "assistant"}
      BY <1>3 DEF Starts
    <3>2. AllHeard(t, told.life) => AllHeard(t1, told1.life)
      BY <2>1, <2>2 DEF AllHeard, OpenAttempt
    <3> QED BY <1>3, <2>2, <3>1, <3>2 DEF Hears1, LessHeld
  <2> QED BY <1>0, <1>2, <2>2, <2>3
<1>4. CASE f.type = "operationFinished"
  <2>1. OpEnds(t, t1, f.op) /\ t1.attempts = t.attempts /\ t1.tools = t.tools
    BY <1>0, <1>4, EndsFollows
  <2>2. /\ Seen(t1, sp0, told1)
        /\ told1.life.models = told.life.models /\ told1.life.tools = told.life.tools
        /\ Completed(told1.events) = Completed(told.events) \cup {Completion(told, f)}
        /\ FinishTold(told, told1, f)
    BY <1>4, <2>1, FinishHeard, Zenon
  <2>3. Hears1(t, t1, told, told1, f)
    <3> HIDE DEF told1
    <3>1. f.type \notin {"stepAttempt", "result"}
      BY <1>4
    <3>2. AllHeard(t, told.life) => AllHeard(t1, told1.life)
      BY <2>1, <2>2 DEF AllHeard, OpenAttempt
    <3>3. f.type \notin Starts /\ f.type # "assistant"
      BY <1>4 DEF Starts
    <3> QED BY <1>4, <2>2, <3>1, <3>2, <3>3 DEF Hears1
  <2> QED BY <1>0, <1>2, <2>2, <2>3
<1>5. CASE f.type = "stepAttempt"
  <2>1. Opens(t, t1, f) /\ SameOperations1(t, t1) /\ t1.tools = t.tools
    BY <1>0, <1>5 DEF Follows
  <2>2. /\ Seen(t1, sp0, told1)
        /\ told1.life.tools = told.life.tools
        /\ Completed(told1.events) = Completed(told.events)
        /\ OnlyModels(told.life, told1.life)
        /\ AllHeard(t, told.life) => AllHeard(t1, told1.life)
    BY <1>5, <2>1, AttemptHeard, Zenon DEF NoModels
  <2>3. Hears1(t, t1, told, told1, f)
    <3> HIDE DEF told1
    <3>1. f.type \notin Starts
      BY <1>5 DEF Starts
    <3> QED BY <1>5, <3>1, <2>2 DEF Hears1, OnlyModels
  <2> QED BY <1>0, <1>2, <2>2, <2>3
<1>6. CASE f.type = "assistant"
  <2>1. /\ f.id \in Id /\ Closes(t, t1, f.attempt, f.id) /\ SameOperations1(t, t1)
        /\ t1.tools = t.tools
    BY <1>0, <1>6 DEF Follows
  <2>2. t.attempts[f.attempt].settled = None
    BY <2>1 DEF Closes, OpenFits
  <2>3. /\ Seen(t1, sp0, told1) /\ LessHeld(told, told1)
        /\ told1.life.operations = told.life.operations
        /\ told1.life.operationUsage = told.life.operationUsage
        /\ AllHeard(t, told.life) => AllHeard(t1, told1.life)
        /\ AnswerTold(told, told1, f)
    BY <1>6, <1>o, <2>1, <2>2, AnswerHeard
  <2>4. Hears1(t, t1, told, told1, f)
    <3> HIDE DEF told1
    <3>1. f.type \notin Starts
      BY <1>6 DEF Starts
    <3> QED BY <1>6, <2>3, <3>1 DEF Hears1, LessHeld
  <2> QED BY <1>0, <1>2, <2>3, <2>4
<1>7. CASE f.type = "stepFailed"
  <2>1. /\ Closes(t, t1, f.attempt, t.attempts[f.attempt].settled) /\ SameOperations1(t, t1)
        /\ t1.tools = t.tools
    BY <1>0, <1>7 DEF Follows
  <2>2. t.attempts[f.attempt].settled = None
    BY <2>1 DEF Closes, OpenFits
  <2>3. /\ Seen(t1, sp0, told1) /\ LessHeld(told, told1)
        /\ OnlyModels(told.life, told1.life)
        /\ AllHeard(t, told.life) => AllHeard(t1, told1.life)
    BY <1>7, <2>1, <2>2, FailureHeard
  <2>4. Hears1(t, t1, told, told1, f)
    <3> HIDE DEF told1
    <3>1. f.type \notin Starts
      BY <1>7 DEF Starts
    <3> QED BY <1>7, <3>1, <2>3 DEF Hears1, LessHeld, OnlyModels
  <2> QED BY <1>0, <1>2, <2>3, <2>4
<1>8. CASE f.type = "compaction"
  <2> DEFINE a == t.operation.step.attempt
  <2>1. f.id \in Id /\ Closes(t, t1, a, f.id) /\ SameOperations1(t, t1) /\ t1.tools = t.tools
    BY <1>0, <1>8 DEF Follows
  <2>2. /\ a \in Id /\ t.attempts[a].op = f.op /\ t.attempts[a].kind = "compaction"
        /\ \A b \in Id : OpenAttempt(t, b) /\ t.attempts[b].op = f.op => b = a
    BY <1>8, SummarisesOne
  <2>3. t.attempts[a].settled = None
    BY <2>1 DEF Closes, OpenFits
  <2> HIDE DEF a
  <2>4. /\ Seen(t1, sp0, told1) /\ LessHeld(told, told1)
        /\ OnlyModels(told.life, told1.life)
        /\ AllHeard(t, told.life) => AllHeard(t1, told1.life)
    BY <1>8, <2>1, <2>2, <2>3, SummaryHeard
  <2>5. Hears1(t, t1, told, told1, f)
    <3> HIDE DEF told1
    <3>1. f.type \notin Starts
      BY <1>8 DEF Starts
    <3> QED BY <1>8, <3>1, <2>4 DEF Hears1, LessHeld, OnlyModels
  <2> QED BY <1>0, <1>2, <2>4, <2>5
<1>9. CASE f.type = "result"
  <2>1. CompletesTool(t, t1, f.started) /\ SameOperations1(t, t1) /\ t1.attempts = t.attempts
    BY <1>0, <1>9 DEF Follows
  <2>2. /\ Seen(t1, sp0, told1)
        /\ told1.life.models = told.life.models
        /\ told1.life.operations = told.life.operations
        /\ told1.life.operationUsage = told.life.operationUsage
        /\ told1.life.answers = told.life.answers
        /\ \A u \in Id : told1.life.tools[u] # None <=>
                           told.life.tools[u] # None /\ u # f.started
        /\ Completed(told1.events) = Completed(told.events)
    BY <1>9, <2>1, ResultHeard
  <2>3. Hears1(t, t1, told, told1, f)
    <3> HIDE DEF told1
    <3>1. AllHeard(t, told.life) => AllHeard(t1, told1.life)
      BY <2>1, <2>2 DEF AllHeard, OpenAttempt
    <3>2. f.type \notin Starts
      BY <1>9 DEF Starts
    <3> QED BY <1>9, <2>2, <3>1, <3>2 DEF Hears1
  <2> QED BY <1>0, <1>2, <2>2, <2>3
<1>10. CASE f.type \in {"user", "synthetic", "usage", "toolStarted", "abortRequested"}
  <2>1. SameOperations1(t, t1) /\ t1.attempts = t.attempts
    BY <1>0, <1>10 DEF Follows
  <2>2. \A u \in Id : t1.tools[u] = t.tools[u] \/ t.tools[u] = None
    BY <1>0, <1>10 DEF Follows, StartsTool
  <2>3. Seen(t1, sp0, told1) /\ LessHeld(told, told1) /\ told1.life = told.life
    BY <1>10, <2>1, <2>2, OthersHeard
  <2>4. Hears1(t, t1, told, told1, f)
    <3> HIDE DEF told1
    <3>1. f.type \notin {"stepAttempt", "result", "operationFinished", "assistant"}
      BY <1>10
    <3>2. AllHeard(t, told.life) => AllHeard(t1, told1.life)
      BY <2>1, <2>3 DEF AllHeard, OpenAttempt
    <3>3. f.type \notin Starts
      BY <1>10 DEF Starts
    <3> QED BY <2>3, <3>1, <3>2, <3>3 DEF Hears1, LessHeld
  <2> QED BY <1>0, <1>2, <2>3, <2>4
<1>11. f.type \in Starts \cup {"operationFinished", "stepAttempt", "assistant", "stepFailed",
                   "compaction", "result", "user", "synthetic", "usage", "toolStarted",
                   "abortRequested"}
  BY DEF Starts, Facts, UserFacts, AssistantFacts, SyntheticFacts, ResultFacts, SummaryFacts, RunFacts,
         CompactionFacts, AttemptFacts, FailureFacts, ToolFacts, AbortFacts, FinishFacts, UsageFacts
<1> QED BY <1>3, <1>4, <1>5, <1>6, <1>7, <1>8, <1>9, <1>10, <1>11

-----------------------------------------------------------------------------
(* The usage of a line *)

(* The line adds usage to the operations it names, and changes nothing else *)
(* of the lifecycle.                                                        *)
LEMMA ChargedLife ==
  ASSUME NEW l \in L!Life, NEW facts, Len(facts) \in Nat,
         \A n \in 1..Len(facts) : facts[n] \in Facts
  PROVE  LET l1 == L!Charged(l, facts)
         IN  /\ l1 \in L!Life
             /\ l1.operations = l.operations /\ l1.models = l.models
             /\ l1.tools = l.tools /\ l1.answers = l.answers
             /\ (\A n \in 1..Len(facts) : facts[n].type # "usage") =>
                  l1.operationUsage = l.operationUsage
<1> DEFINE l1 == L!Charged(l, facts)
           K == Len(facts)
<1>1. PICK h : ChargeTrace(l, l1, facts, h)
  BY ChargeFold
<1>2. h[0] = l.operationUsage /\ l1 = [l EXCEPT !.operationUsage = h[K]]
  BY <1>1, Zenon DEF ChargeTrace
<1> DEFINE T == {n \in Nat : n <= K => h[n] \in [Id -> Nat]}
<1>3. 0 \in T
  BY <1>2 DEF L!Life
<1>4. ASSUME NEW n \in T PROVE n + 1 \in T
  <2> SUFFICES ASSUME n + 1 <= K PROVE h[n + 1] \in [Id -> Nat]
    OBVIOUS
  <2> DEFINE m == n + 1
             f == facts[m]
  <2>1. m \in 1..K /\ m - 1 = n /\ h[n] \in [Id -> Nat]
    OBVIOUS
  <2>2. h[m] = IF f.type = "usage" THEN [h[m - 1] EXCEPT ![f.op] = @ + f.amount] ELSE h[m - 1]
    BY <1>1, <2>1, Zenon DEF ChargeTrace
  <2>3. f.type = "usage" => f.op \in Id /\ f.amount \in Nat
    <3>1. f \in Facts
      BY <2>1
    <3> HIDE DEF f
    <3> QED BY <3>1 DEF Facts, UserFacts, AssistantFacts, SyntheticFacts, ResultFacts, SummaryFacts,
         RunFacts, CompactionFacts, AttemptFacts, FailureFacts, ToolFacts, AbortFacts, FinishFacts, UsageFacts
  <2> HIDE DEF f
  <2>4. h[m] \in [Id -> Nat]
    BY <2>1, <2>2, <2>3
  <2> QED BY <2>4
<1>5. Nat \subseteq T
  <2> HIDE DEF T
  <2> QED BY <1>3, <1>4, SetInduction DEF T
<1>6. h[K] \in [Id -> Nat]
  BY <1>5
<1> HIDE DEF l1
<1>7. /\ l1 \in L!Life
      /\ l1.operations = l.operations /\ l1.models = l.models
      /\ l1.tools = l.tools /\ l1.answers = l.answers /\ l1.operationUsage = h[K]
  BY <1>2, <1>6 DEF L!Life
<1>8. ASSUME \A n \in 1..K : facts[n].type # "usage"
      PROVE  l1.operationUsage = l.operationUsage
  <2> DEFINE R == {n \in Nat : n <= K => h[n] = h[0]}
  <2>1. 0 \in R
    OBVIOUS
  <2>2. ASSUME NEW n \in R PROVE n + 1 \in R
    <3> SUFFICES ASSUME n + 1 <= K PROVE h[n + 1] = h[0]
      OBVIOUS
    <3>1. n + 1 \in 1..K /\ (n + 1) - 1 = n /\ h[n] = h[0]
      OBVIOUS
    <3>2. h[n + 1] = h[(n + 1) - 1]
      BY <1>1, <1>8, <3>1, Zenon DEF ChargeTrace
    <3> QED BY <3>1, <3>2
  <2>3. Nat \subseteq R
    <3> HIDE DEF R
    <3> QED BY <2>1, <2>2, SetInduction DEF R
  <2>4. h[K] = h[0]
    BY <2>3
  <2> QED BY <1>2, <1>7, <2>4
<1> QED BY <1>7, <1>8 DEF l1

(* A line that the worker or the terminal thread may write: an attempt is   *)
(* its only beginning, when none is held, an operation ends when none is    *)
(* open, and starts in a line that neither ends one nor charges it.         *)
LineFits(t, l, facts) ==
  /\ Len(facts) \in Nat /\ \A n \in 1..Len(facts) : facts[n] \in Facts
  /\ \A n \in 1..Len(facts) :
       /\ facts[n].type = "stepAttempt" => n = 1 /\ NoModels(l)
       /\ facts[n].type = "operationFinished" =>
            \/ facts[n].outcome = "aborted"
            \/ n = 1 /\ ~Attempting(t)
            \/ n > 1 /\ facts[n - 1].type = "stepFailed"
  /\ \/ \A n \in 1..Len(facts) : facts[n].type \notin Starts
     \/ \A n \in 1..Len(facts) : facts[n].type \notin {"operationFinished", "usage"}

(* The file and the lifecycle, fact by fact.                                *)
HeardTrace(t, t1, l, sp0, facts, T, h) ==
  /\ Trace(t, t1, facts, T) /\ CommitTrace(l, L!Committed(l, facts), facts, h)
  /\ \A n \in 0..Len(facts) : Good(T[n]) /\ OpenFits(T[n]) /\ Seen(T[n], sp0, h[n])
  /\ \A n \in 1..Len(facts) :
       /\ Follows(T[n - 1], T[n], facts[n])
       /\ Hears1(T[n - 1], T[n], h[n - 1], h[n], facts[n])

(* After every fact of such a line the observers see the file.              *)
LEMMA LineHeard ==
  ASSUME NEW t, NEW t1, NEW l, NEW sp0, NEW facts, Good(t), OpenFits(t), Sees(t, l, sp0),
         LineFits(t, l, facts), t1 \in ReduceLine(t, facts)
  PROVE  \E T, h : HeardTrace(t, t1, l, sp0, facts, T, h)
<1> DEFINE K == Len(facts)
           l0 == L!Charged(l, facts)
<1>1. K \in Nat /\ \A n \in 1..K : facts[n] \in Facts
  BY DEF LineFits
<1>2. PICK T : Trace(t, t1, facts, T)
  BY <1>1, LineTrace
<1>3. PICK h : CommitTrace(l, L!Committed(l, facts), facts, h)
  BY <1>1, CommitFold
<1>4. T[0] = t /\ \A n \in 1..K : Reduces(T[n - 1], T[n], facts[n])
  BY <1>2 DEF Trace
<1>5. h[0] = L!Quiet(l0) /\ \A n \in 1..K : h[n] = L!ApplyFact(h[n - 1], facts[n])
  BY <1>3 DEF CommitTrace
<1>6. l \in L!Life /\ sp0 \in L!Spans /\ OpsSeen(t, l.operations, sp0.operations)
      /\ ModelsSeen(t.attempts, l.models, sp0.models) /\ ToolsSeen(t.tools, l.tools, sp0.tools)
  BY DEF Sees
<1>7. /\ l0 \in L!Life /\ l0.operations = l.operations /\ l0.models = l.models
      /\ l0.tools = l.tools
  BY <1>1, <1>6, ChargedLife
<1> HIDE DEF l0
<1>8. h[0] = Told(l0, << >>) /\ h[0].life = l0 /\ h[0].events = << >>
  BY <1>5 DEF L!Quiet, Told
<1>9. Seen(t, sp0, h[0])
  <2>1. Sequence(<< >>) /\ L!RecordAll(sp0, << >>) = sp0
    <3>1. << >> \in Seq(Id)
      OBVIOUS
    <3> QED BY <3>1, RecordNone DEF Sequence
  <2>2. Sees(t, l0, sp0)
    BY <1>6, <1>7, Zenon DEF Sees
  <2> QED BY <1>8, <2>1, <2>2, Zenon DEF Seen
<1> DEFINE At(n) == Good(T[n]) /\ OpenFits(T[n]) /\ Seen(T[n], sp0, h[n])
           After(n) == /\ Follows(T[n - 1], T[n], facts[n])
                       /\ Hears1(T[n - 1], T[n], h[n - 1], h[n], facts[n])
           R == {n \in Nat : n <= K => /\ \A m \in 0..n : At(m)
                                       /\ \A m \in 1..n : After(m)}
<1>10. 0 \in R
  <2>1. At(0)
    BY <1>4, <1>9
  <2>2. \A m \in 0..0 : m = 0
    OBVIOUS
  <2>3. \A m \in 1..0 : FALSE
    OBVIOUS
  <2> HIDE DEF At, After
  <2> QED BY <2>1, <2>2, <2>3
<1>11. ASSUME NEW n \in R PROVE n + 1 \in R
  <2> SUFFICES ASSUME n + 1 <= K
               PROVE  (\A m \in 0..(n + 1) : At(m)) /\ (\A m \in 1..(n + 1) : After(m))
    OBVIOUS
  <2> DEFINE f == facts[n + 1]
  <2>1. /\ n + 1 \in 1..K /\ (n + 1) - 1 = n /\ n \in 0..n /\ n \in Nat
        /\ \A m \in 0..n : At(m)
        /\ \A m \in 1..n : After(m)
    OBVIOUS
  <2>2. Good(T[n]) /\ OpenFits(T[n]) /\ Seen(T[n], sp0, h[n])
    BY <2>1
  <2>3. Reduces(T[n], T[n + 1], f) /\ h[n + 1] = L!ApplyFact(h[n], f) /\ f \in Facts
    <3>1. Reduces(T[(n + 1) - 1], T[n + 1], f) /\ h[n + 1] = L!ApplyFact(h[(n + 1) - 1], f)
      BY <1>4, <1>5, <2>1, Zenon
    <3> QED BY <1>1, <2>1, <3>1
  <2>4. f.type = "stepAttempt" => NoModels(h[n].life)
    <3> SUFFICES ASSUME f.type = "stepAttempt" PROVE NoModels(h[n].life)
      OBVIOUS
    <3>1. n + 1 = 1 /\ NoModels(l)
      BY <2>1, Zenon DEF LineFits
    <3>2. n = 0
      BY <2>1, <3>1
    <3> QED BY <1>7, <1>8, <3>1, <3>2 DEF NoModels
  <2>5. f.type = "operationFinished" => f.outcome = "aborted" \/ NoneOpened(T[n])
    <3> SUFFICES ASSUME f.type = "operationFinished", f.outcome # "aborted"
                 PROVE  NoneOpened(T[n])
      OBVIOUS
    <3>1. \/ n + 1 = 1 /\ ~Attempting(t)
          \/ n + 1 > 1 /\ facts[(n + 1) - 1].type = "stepFailed"
      BY <2>1, Zenon DEF LineFits
    <3>2. CASE n + 1 = 1 /\ ~Attempting(t)
      <4>1. T[n] = t
        BY <1>4, <2>1, <3>2
      <4> QED BY <3>2, <4>1, NotAttempting
    <3>3. CASE n + 1 > 1 /\ facts[(n + 1) - 1].type = "stepFailed"
      <4> DEFINE g == facts[n]
      <4>1. n \in 1..K /\ g.type = "stepFailed" /\ n - 1 \in 0..n /\ n \in 1..n
        BY <2>1, <3>3
      <4>2. Follows(T[n - 1], T[n], g) /\ Good(T[n - 1]) /\ OpenFits(T[n - 1])
        BY <2>1, <4>1
      <4> HIDE DEF g
      <4>3. Closes(T[n - 1], T[n], g.attempt, T[n - 1].attempts[g.attempt].settled)
        BY <4>1, <4>2 DEF Follows
      <4> QED BY <4>2, <4>3, FailureClosesAll
    <3> QED BY <3>1, <3>2, <3>3
  <2> HIDE DEF f
  <2>6. /\ Good(T[n + 1]) /\ OpenFits(T[n + 1]) /\ Follows(T[n], T[n + 1], f)
        /\ Seen(T[n + 1], sp0, h[n + 1])
        /\ Hears1(T[n], T[n + 1], h[n], h[n + 1], f)
    BY <2>2, <2>3, <2>4, <2>5, FactHeard, Zenon
  <2>7. At(n + 1) /\ After(n + 1)
    BY <2>1, <2>6 DEF f
  <2>8. (\A m \in 0..(n + 1) : m \in 0..n \/ m = n + 1)
        /\ (\A m \in 1..(n + 1) : m \in 1..n \/ m = n + 1)
    BY <2>1
  <2> HIDE DEF At, After
  <2> QED BY <2>1, <2>7, <2>8, Zenon
<1>12. Nat \subseteq R
  <2> HIDE DEF R
  <2> QED BY <1>10, <1>11, SetInduction DEF R
<1>13. (\A n \in 0..K : At(n)) /\ (\A n \in 1..K : After(n))
  <2> HIDE DEF At, After
  <2> QED BY <1>1, <1>12
<1>14. HeardTrace(t, t1, l, sp0, facts, T, h)
  BY <1>2, <1>3, <1>13, Zenon DEF HeardTrace
<1> QED BY <1>14

-----------------------------------------------------------------------------
(* Hearing a line *)

NoFact(type, facts) == \A n \in 1..Len(facts) : facts[n].type # type
NoStarts(facts) == \A n \in 1..Len(facts) : facts[n].type \notin Starts

(* What the first facts of a line have made known: the file is tn and told  *)
(* was told since it was t and the lifecycle l.                             *)
ToldSoFar(t, l, facts, tn, told) ==
  /\ AllHeard(t, l) => AllHeard(tn, told.life)
  /\ NoFact("stepAttempt", facts) =>
       \A a \in Id : told.life.models[a] # None => l.models[a] # None
  /\ \A u \in Id :
       /\ l.tools[u] # None => tn.tools[u] # None
       /\ told.life.tools[u] # None <=> l.tools[u] # None /\ tn.tools[u].status = "pending"
  /\ Reported(told.events) \subseteq Id
  /\ NoStarts(facts) => \A op \in Id :
       /\ Unfinished(tn, op) => Unfinished(t, op)
       /\ op \in Reported(told.events) <=> Unfinished(t, op) /\ ~Unfinished(tn, op)
  /\ NoFact("operationFinished", facts) =>
       /\ Reported(told.events) = {}
       /\ \A op \in Id : Unfinished(t, op) => Unfinished(tn, op)

(* And the whole line: no attempt is held that was not, unless one is       *)
(* admitted; the ends that are published are those in the file.             *)
LineTold(t, l, facts, t1, told) ==
  /\ AllHeard(t, l) => AllHeard(t1, told.life)
  /\ NoFact("stepAttempt", facts) =>
       \A a \in Id : told.life.models[a] # None => l.models[a] # None
  /\ \A u \in Id : told.life.tools[u] # None <=>
                     l.tools[u] # None /\ t1.tools[u].status = "pending"
  /\ Reported(told.events) = {op \in Id : Unfinished(t, op) /\ ~Unfinished(t1, op)}

(* The operations that were reported.                                       *)
LEMMA HearsReported ==
  ASSUME NEW t, NEW t1, NEW told, NEW told1, NEW f, Hears1(t, t1, told, told1, f)
  PROVE  /\ f.type = "operationFinished" =>
              Reported(told1.events) = Reported(told.events) \cup {f.op}
         /\ f.type # "operationFinished" => Reported(told1.events) = Reported(told.events)
<1>1. Completed(told1.events) = IF f.type = "operationFinished"
                                  THEN Completed(told.events) \cup {Completion(told, f)}
                                  ELSE Completed(told.events)
  BY DEF Hears1
<1>2. Completion(told, f).id = f.op
  BY DEF Completion
<1> HIDE DEF Completion
<1> QED BY <1>1, <1>2 DEF Reported

(* One more fact.                                                           *)
LEMMA ToldOneMore ==
  ASSUME NEW t, NEW l, NEW facts, NEW tn, NEW told, NEW n \in 1..Len(facts), NEW tn1, NEW told1,
         ToldSoFar(t, l, facts, tn, told), Follows(tn, tn1, facts[n]),
         Hears1(tn, tn1, told, told1, facts[n])
  PROVE  ToldSoFar(t, l, facts, tn1, told1)
<1> DEFINE f == facts[n]
<1>1. /\ NoFact("stepAttempt", facts) => f.type # "stepAttempt"
      /\ NoStarts(facts) => f.type \notin Starts
      /\ NoFact("operationFinished", facts) => f.type # "operationFinished"
  BY DEF NoFact, NoStarts
<1>2. Follows(tn, tn1, f) /\ Hears1(tn, tn1, told, told1, f)
  OBVIOUS
<1> HIDE DEF f
<1>9. /\ f.type = "operationFinished" =>
           Reported(told1.events) = Reported(told.events) \cup {f.op}
      /\ f.type # "operationFinished" => Reported(told1.events) = Reported(told.events)
  <2>1. Hears1(tn, tn1, told, told1, f)
    BY <1>2
  <2> QED BY ONLY <2>1, HearsReported
<1>3. AllHeard(t, l) => AllHeard(tn1, told1.life)
  BY <1>2 DEF ToldSoFar, Hears1
<1>4. NoFact("stepAttempt", facts) =>
        \A a \in Id : told1.life.models[a] # None => l.models[a] # None
  BY <1>1, <1>2 DEF ToldSoFar, Hears1
<1>5. ASSUME NEW u \in Id
      PROVE  /\ l.tools[u] # None => tn1.tools[u] # None
             /\ told1.life.tools[u] # None <=> l.tools[u] # None /\ tn1.tools[u].status = "pending"
  <2>1. /\ l.tools[u] # None => tn.tools[u] # None
        /\ told.life.tools[u] # None <=> l.tools[u] # None /\ tn.tools[u].status = "pending"
    BY DEF ToldSoFar
  <2>2. told1.life.tools[u] # None <=> told.life.tools[u] # None /\ ~(f.type = "result" /\ u = f.started)
    BY <1>2 DEF Hears1
  <2>3. CASE f.type = "toolStarted"
    <3>1. tn.tools[f.id] = None /\ \A v \in Id : v # f.id => tn1.tools[v] = tn.tools[v]
      BY <1>2, <2>3 DEF Follows, StartsTool
    <3> QED BY <2>1, <2>2, <2>3, <3>1
  <2>4. CASE f.type = "result"
    <3>1. tn1.tools[f.started] # None /\ tn1.tools[f.started].status = "completed"
          /\ \A v \in Id : v # f.started => tn1.tools[v] = tn.tools[v]
      BY <1>2, <2>4 DEF Follows, CompletesTool
    <3> QED BY <2>1, <2>2, <2>4, <3>1
  <2>5. CASE f.type \notin {"toolStarted", "result"}
    BY <1>2, <2>1, <2>2, <2>5 DEF Follows
  <2> QED BY <2>3, <2>4, <2>5
<1>6. Reported(told1.events) \subseteq Id
  <2>1. Reported(told.events) \subseteq Id
    BY DEF ToldSoFar
  <2>2. f.type = "operationFinished" => f.op \in Id
    BY <1>2 DEF Follows, OpEnds
  <2>3. Reported(told1.events) = IF f.type = "operationFinished"
                                   THEN Reported(told.events) \cup {f.op} ELSE Reported(told.events)
    BY <1>9
  <2> QED BY <2>1, <2>2, <2>3
<1>7. ASSUME NoStarts(facts), NEW op \in Id
      PROVE  /\ Unfinished(tn1, op) => Unfinished(t, op)
             /\ op \in Reported(told1.events) <=> Unfinished(t, op) /\ ~Unfinished(tn1, op)
  <2>1. /\ Unfinished(tn, op) => Unfinished(t, op)
        /\ op \in Reported(told.events) <=> Unfinished(t, op) /\ ~Unfinished(tn, op)
    BY <1>7 DEF ToldSoFar
  <2>2. CASE f.type = "operationFinished"
    <3>1. Unfinished(tn, f.op) /\ (Unfinished(tn1, op) <=> Unfinished(tn, op) /\ op # f.op)
      BY <1>2, <2>2 DEF Follows, OpEnds
    <3>2. op \in Reported(told1.events) <=> op \in Reported(told.events) \/ op = f.op
      BY <1>9, <2>2
    <3> QED BY <2>1, <3>1, <3>2, Zenon
  <2>3. CASE f.type # "operationFinished"
    <3>1. Unfinished(tn1, op) <=> Unfinished(tn, op)
      BY <1>1, <1>2, <1>7, <2>3 DEF Follows, SameOperations1, Starts
    <3>2. Reported(told1.events) = Reported(told.events)
      BY <1>9, <2>3
    <3> QED BY <2>1, <3>1, <3>2, Zenon
  <2> QED BY <2>2, <2>3
<1>8. ASSUME NoFact("operationFinished", facts)
      PROVE  /\ Reported(told1.events) = {}
             /\ \A op \in Id : Unfinished(t, op) => Unfinished(tn1, op)
  <2>1. Reported(told.events) = {} /\ \A op \in Id : Unfinished(t, op) => Unfinished(tn, op)
    BY <1>8 DEF ToldSoFar
  <2>2. f.type # "operationFinished"
    BY <1>1, <1>8
  <2>3. Reported(told1.events) = Reported(told.events)
    BY <1>9, <2>2
  <2>4. \A op \in Id : Unfinished(tn, op) => Unfinished(tn1, op)
    BY <1>2, <2>2 DEF Follows, SameOperations1, OpBegins, Starts
  <2> QED BY <2>1, <2>3, <2>4
<1> QED BY <1>3, <1>4, <1>5, <1>6, <1>7, <1>8, Zenon DEF ToldSoFar

(* Any number of facts.                                                     *)
LEMMA LineResult ==
  ASSUME NEW t, NEW t1, NEW l, NEW sp0, NEW facts, Sees(t, l, sp0), LineFits(t, l, facts),
         NEW T, NEW h, HeardTrace(t, t1, l, sp0, facts, T, h)
  PROVE  /\ \A n \in 0..Len(facts) : ToldSoFar(t, l, facts, T[n], h[n])
         /\ Good(t1) /\ OpenFits(t1) /\ Seen(t1, sp0, L!Committed(l, facts))
         /\ LineTold(t, l, facts, t1, L!Committed(l, facts))
<1> DEFINE K == Len(facts)
           l0 == L!Charged(l, facts)
           told == L!Committed(l, facts)
<1>1. K \in Nat /\ \A n \in 1..K : facts[n] \in Facts
  BY DEF LineFits
<1>2. T[0] = t /\ T[K] = t1
  BY DEF HeardTrace, Trace
<1>3. h[0] = L!Quiet(l0) /\ h[K] = told
  BY DEF HeardTrace, CommitTrace
<1>4. /\ \A n \in 0..K : Good(T[n]) /\ OpenFits(T[n]) /\ Seen(T[n], sp0, h[n])
      /\ \A n \in 1..K : /\ Follows(T[n - 1], T[n], facts[n])
                         /\ Hears1(T[n - 1], T[n], h[n - 1], h[n], facts[n])
  BY DEF HeardTrace
<1>5. l0.models = l.models /\ l0.tools = l.tools
  <2>1. l \in L!Life
    BY DEF Sees
  <2> QED BY <1>1, <2>1, ChargedLife
<1> HIDE DEF l0, told
<1> DEFINE R == {n \in Nat : n <= K => ToldSoFar(t, l, facts, T[n], h[n])}
<1>6. 0 \in R
  <2>1. h[0].life = l0 /\ h[0].events = << >>
    BY <1>3 DEF L!Quiet
  <2>2. Reported(<< >>) = {}
    BY DEF Reported, Completed
  <2>3. \A u \in Id : l.tools[u] # None => t.tools[u] # None /\ t.tools[u].status = "pending"
    BY DEF Sees, ToolsSeen
  <2>4. AllHeard(t, l) => AllHeard(t, l0)
    BY <1>5 DEF AllHeard
  <2>5. ToldSoFar(t, l, facts, t, h[0])
    BY <1>5, <2>1, <2>2, <2>3, <2>4 DEF ToldSoFar
  <2> QED BY <1>2, <2>5
<1>7. ASSUME NEW n \in R PROVE n + 1 \in R
  <2> SUFFICES ASSUME n + 1 <= K PROVE ToldSoFar(t, l, facts, T[n + 1], h[n + 1])
    OBVIOUS
  <2>1. n + 1 \in 1..K /\ (n + 1) - 1 = n /\ ToldSoFar(t, l, facts, T[n], h[n])
    BY <1>1
  <2>2. /\ Follows(T[(n + 1) - 1], T[n + 1], facts[n + 1])
        /\ Hears1(T[(n + 1) - 1], T[n + 1], h[(n + 1) - 1], h[n + 1], facts[n + 1])
    BY <1>4, <2>1, Zenon
  <2> QED BY <2>1, <2>2, ToldOneMore
<1>8. Nat \subseteq R
  <2> HIDE DEF R
  <2> QED BY <1>6, <1>7, SetInduction DEF R
<1>9. \A n \in 0..K : ToldSoFar(t, l, facts, T[n], h[n])
  BY <1>1, <1>8
<1>10. ToldSoFar(t, l, facts, t1, told)
  <2>1. K \in 0..K
    BY <1>1
  <2> QED BY <1>2, <1>3, <1>9, <2>1
<1>11. Good(t1) /\ OpenFits(t1) /\ Seen(t1, sp0, told)
  <2>1. K \in 0..K
    BY <1>1
  <2> QED BY <1>2, <1>3, <1>4, <2>1
<1>12. Reported(told.events) = {op \in Id : Unfinished(t, op) /\ ~Unfinished(t1, op)}
  <2>1. CASE NoStarts(facts)
    <3>1. \A op \in Id : op \in Reported(told.events) <=> Unfinished(t, op) /\ ~Unfinished(t1, op)
      BY <1>10, <2>1 DEF ToldSoFar
    <3>2. Reported(told.events) \subseteq Id
      BY <1>10 DEF ToldSoFar
    <3> QED BY <3>1, <3>2, Zenon
  <2>2. CASE NoFact("operationFinished", facts)
    BY <1>10, <2>2 DEF ToldSoFar
  <2>3. NoStarts(facts) \/ NoFact("operationFinished", facts)
    BY DEF LineFits, NoStarts, NoFact
  <2> QED BY <2>1, <2>2, <2>3
<1>13. LineTold(t, l, facts, t1, told)
  BY <1>10, <1>12 DEF LineTold, ToldSoFar
<1> QED BY <1>9, <1>11, <1>13 DEF told

-----------------------------------------------------------------------------
(* The lines that are appended *)

(* What a line must be to fit, whatever the lifecycle holds.                *)
FitsFile(t, facts) ==
  /\ Len(facts) \in Nat /\ \A n \in 1..Len(facts) : facts[n] \in Facts
  /\ \A n \in 1..Len(facts) :
       /\ facts[n].type = "stepAttempt" => n = 1
       /\ facts[n].type = "operationFinished" =>
            \/ facts[n].outcome = "aborted"
            \/ n = 1 /\ ~Attempting(t)
            \/ n > 1 /\ facts[n - 1].type = "stepFailed"
       /\ facts[n].type = "usage" => ~Idle(t) /\ facts[n].op = t.operation.id
  /\ \/ NoStarts(facts)
     \/ NoFact("operationFinished", facts) /\ NoFact("usage", facts)

(* A step appends such a line or leaves the file alone; an attempt is       *)
(* admitted where a step begins.                                            *)
Lines ==
  \/ s' = s
  \/ /\ s' \in ReduceLine(s, committed') /\ FitsFile(s, committed')
     /\ NoFact("stepAttempt", committed') \/ pc \in {"step", "admit"}

(* A line of one fact.                                                      *)
LEMMA ShapedOne ==
  ASSUME NEW t, NEW f \in Facts, f.type # "usage",
         f.type = "operationFinished" => f.outcome = "aborted" \/ ~Attempting(t)
  PROVE  /\ FitsFile(t, <<f>>)
         /\ f.type # "stepAttempt" => NoFact("stepAttempt", <<f>>)
<1>1. Len(<<f>>) = 1 /\ <<f>>[1] = f /\ \A n \in 1..1 : n = 1
  OBVIOUS
<1> DEFINE facts == <<f>>
<1>2. Len(facts) = 1 /\ facts[1] = f
  BY <1>1
<1> HIDE DEF facts
<1>3. \/ NoStarts(facts)
      \/ NoFact("operationFinished", facts) /\ NoFact("usage", facts)
  BY <1>1, <1>2 DEF NoStarts, NoFact, Starts
<1>4. FitsFile(t, facts)
  BY <1>1, <1>2, <1>3 DEF FitsFile
<1>5. f.type # "stepAttempt" => NoFact("stepAttempt", facts)
  BY <1>1, <1>2 DEF NoFact
<1> QED BY <1>4, <1>5 DEF facts

(* A line of two.                                                           *)
LEMMA ShapedTwo ==
  ASSUME NEW t, NEW f \in Facts, NEW g \in Facts, f.type # "operationFinished",
         \A e \in {f, g} : e.type = "usage" => ~Idle(t) /\ e.op = t.operation.id,
         {f.type, g.type} \cap {"stepAttempt"} = {},
         f.type \notin Starts \/ g.type # "usage", g.type \notin Starts \/ f.type # "usage",
         \/ g.type # "operationFinished"
         \/ f.type \notin Starts /\ (g.outcome = "aborted" \/ f.type = "stepFailed")
  PROVE  FitsFile(t, <<f, g>>) /\ NoFact("stepAttempt", <<f, g>>)
<1>1. Len(<<f, g>>) = 2 /\ <<f, g>>[1] = f /\ <<f, g>>[2] = g /\ \A n \in 1..2 : n = 1 \/ n = 2
  OBVIOUS
<1> DEFINE facts == <<f, g>>
<1>2. Len(facts) = 2 /\ facts[1] = f /\ facts[2] = g
  BY <1>1
<1> HIDE DEF facts
<1>3. \/ NoStarts(facts)
      \/ NoFact("operationFinished", facts) /\ NoFact("usage", facts)
  BY <1>1, <1>2 DEF NoStarts, NoFact, Starts
<1>4. \A n \in 1..2 : facts[n] \in Facts /\ facts[n].type # "stepAttempt"
  BY <1>1, <1>2
<1>8. \A n \in 1..2 : facts[n].type = "usage" => ~Idle(t) /\ facts[n].op = t.operation.id
  BY <1>1, <1>2
<1>5. ASSUME NEW n \in 1..2, facts[n].type = "operationFinished"
      PROVE  \/ facts[n].outcome = "aborted"
             \/ n > 1 /\ facts[n - 1].type = "stepFailed"
  <2>1. n = 2 /\ n - 1 = 1 /\ n > 1
    BY <1>1, <1>2, <1>5
  <2> QED BY <1>2, <1>5, <2>1
<1>6. NoFact("stepAttempt", facts)
  BY <1>2, <1>4 DEF NoFact
<1>7. FitsFile(t, facts)
  BY <1>2, <1>3, <1>4, <1>5, <1>8 DEF FitsFile
<1> QED BY <1>6, <1>7 DEF facts

(* A line that only ends things, with an abort if with anything.            *)
Ending ==
  {f \in Closing : /\ f.type \notin Starts \cup {"stepAttempt", "usage"}
                   /\ f.type = "operationFinished" => f.outcome = "aborted"}

(* A line of such facts fits any file.                                      *)
LEMMA ShapedMany ==
  ASSUME NEW t, NEW facts \in Seq(Ending)
  PROVE  FitsFile(t, facts) /\ NoFact("stepAttempt", facts)
<1>1. Len(facts) \in Nat /\ \A n \in 1..Len(facts) : facts[n] \in Ending
  OBVIOUS
<1>2. \A f \in Ending : /\ f \in Facts /\ f.type \notin Starts \cup {"stepAttempt", "usage"}
                        /\ f.type = "operationFinished" => f.outcome = "aborted"
  BY DEF Ending, Closing
<1>3. NoStarts(facts) /\ NoFact("stepAttempt", facts) /\ NoFact("usage", facts)
  BY <1>1, <1>2 DEF NoStarts, NoFact
<1> QED BY <1>1, <1>2, <1>3 DEF FitsFile, NoFact

(* The skipped calls are answered, which ends nothing.                      *)
LEMMA SkippedEnding ==
  ASSUME NEW k \in Nat \ {0}, Skipped(k) \in Seq(Closing), job.answer.calls \in Seq(Call)
  PROVE  Skipped(k) \in Seq(Ending)
<1> DEFINE m == Len(job.answer.calls) - k + 1
           line == Skipped(k)
<1>1. line = [n \in 1..m |-> SyntheticToolResult(New(n), job.step, job.assistant,
                               k + n - 1, job.answer.calls[k + n - 1])]
  BY DEF Skipped
<1>2. Len(line) \in Nat /\ DOMAIN line = 1..Len(line) /\ line = [n \in 1..Len(line) |-> line[n]]
  BY DEF line
<1>3. \A n \in 1..Len(line) : line[n] \in Closing
  OBVIOUS
<1>4. DOMAIN line = 1..m
  BY <1>1
<1>5. ASSUME NEW n \in 1..Len(line) PROVE line[n] \in Ending
  <2>1. n \in 1..m
    BY <1>2, <1>4
  <2>2. line[n] = SyntheticToolResult(New(n), job.step, job.assistant,
                               k + n - 1, job.answer.calls[k + n - 1])
    BY <1>1, <2>1
  <2>3. line[n].type = "synthetic"
    BY <2>2 DEF SyntheticToolResult
  <2> HIDE DEF line
  <2> QED BY <1>3, <2>3 DEF Ending, Starts
<1> HIDE DEF line
<1>6. line \in Seq(Ending)
  BY <1>2, <1>5
<1> QED BY <1>6 DEF line

(* When the last fact ends the operation there is none.                     *)
LEMMA LineIdles ==
  ASSUME NEW t, NEW t1, Good(t), NEW facts, Len(facts) \in Nat \ {0},
         \A n \in 1..Len(facts) : facts[n] \in Facts, t1 \in ReduceLine(t, facts),
         facts[Len(facts)].type = "operationFinished"
  PROVE  Idle(t1)
<1> DEFINE K == Len(facts)
<1>1. PICK T : Trace(t, t1, facts, T)
  BY LineTrace
<1>2. /\ T[0] = t /\ T[K] = t1
      /\ \A n \in 1..K : Reduces(T[n - 1], T[n], facts[n])
  BY <1>1 DEF Trace
<1> DEFINE R == {n \in Nat : n <= K => Good(T[n])}
<1>3. 0 \in R
  BY <1>2
<1>4. ASSUME NEW n \in R PROVE n + 1 \in R
  <2> SUFFICES ASSUME n + 1 <= K PROVE Good(T[n + 1])
    OBVIOUS
  <2>1. n + 1 \in 1..K /\ (n + 1) - 1 = n /\ Good(T[n])
    OBVIOUS
  <2>2. Reduces(T[(n + 1) - 1], T[n + 1], facts[n + 1]) /\ facts[n + 1] \in Facts
    BY <1>2, <2>1, Zenon
  <2> QED BY <2>1, <2>2, GoodNext
<1>5. Nat \subseteq R
  <2> HIDE DEF R
  <2> QED BY <1>3, <1>4, SetInduction DEF R
<1>6. K \in 1..K /\ K - 1 \in Nat /\ K - 1 <= K
  OBVIOUS
<1>7. Good(T[K - 1]) /\ facts[K] \in Facts /\ Reduces(T[K - 1], T[K], facts[K])
  BY <1>2, <1>5, <1>6
<1> QED BY <1>2, <1>7, FinishIdles

(* So it is at the end of a line of ends, and of two facts.                 *)
LEMMA EndingIdles ==
  ASSUME NEW t, NEW t1, Good(t), NEW a \in Seq(Ending), NEW f \in Ending,
         f.type = "operationFinished", t1 \in ReduceLine(t, a \o <<f>>)
  PROVE  Idle(t1) /\ FitsFile(t, a \o <<f>>) /\ NoFact("stepAttempt", a \o <<f>>)
<1> DEFINE facts == a \o <<f>>
<1>1. /\ facts \in Seq(Ending) /\ Len(facts) = Len(a) + 1 /\ Len(a) \in Nat
      /\ facts[Len(facts)] = f
  OBVIOUS
<1>2. \A g \in Ending : g \in Facts
  BY DEF Ending, Closing
<1> HIDE DEF facts
<1>3. Len(facts) \in Nat \ {0} /\ \A n \in 1..Len(facts) : facts[n] \in Facts
  BY <1>1, <1>2
<1>4. Idle(t1)
  BY <1>1, <1>3, LineIdles DEF facts
<1> QED BY <1>1, <1>4, ShapedMany DEF facts

-----------------------------------------------------------------------------
(* Where an attempt may be open *)

(* An attempt of the current operation is open only while the worker waits  *)
(* for it, or in what an error or an earlier process left.                  *)
AttemptPlace(t, at, j) ==
  ~Idle(t) /\ Attempting(t) =>
    \/ at \in AtAttempt \cup {"start", "recover", "down"}
    \/ at \in {"step", "admit"} /\ j.recovering

(* Recovery takes no prompt.                                                *)
RecoveryPlace(at, j) ==
  j.recovering => ~j.auto /\ at \notin {"idle", "prompt", "compact", "start"}

PInv == AttemptPlace(s, pc, job) /\ RecoveryPlace(pc, job)

AtExecution == {"executing", "toolAbort", "toolResult"}

(* What the observers need to know of a step of the process: it is not      *)
(* recovery any more only when no operation is left, it goes on with        *)
(* recovery only when no attempt of this process is open, and an execution  *)
(* ends with the result of the tool.                                        *)
Goes ==
  pc' # "down" =>
    /\ ~job'.recovering => ~job.recovering \/ Idle(s')
    /\ pc' \in {"recover", "step", "admit"} /\ job'.recovering =>
         \/ Idle(s')
         \/ /\ pc \notin AtAttempt \cup {"start"}
            /\ s' = s \/ NoFact("stepAttempt", committed')
    /\ pc' \in AtExecution =>
         \/ pc = "execute" /\ pc' = "executing" /\ s' = s /\ job' = job
         \/ pc \in AtExecution /\ job'.tool = job.tool /\ s'.tools = s.tools
    /\ pc \in AtExecution /\ pc' \notin AtExecution => s'.tools[job.tool].status # "pending"

Placed == PInv' /\ Goes

(* An operation that has ended leaves nothing open.                         *)
LEMMA ReturnPlaced ==
  ASSUME Return, Idle(s'), pc \notin AtExecution
  PROVE  Placed
<1>1. \/ pc' = "recover" /\ job' = [NoJob EXCEPT !.recovering = TRUE]
      \/ pc' = "idle" /\ job' = NoJob
  BY DEF Return, Goto, Set
<1>2. PInv'
  BY <1>1 DEF PInv, AttemptPlace, RecoveryPlace, NoJob
<1>3. Goes
  BY <1>1, <1>2 DEF Goes, AtExecution
<1> QED BY <1>2, <1>3 DEF Placed

(* Nor does the end of the process.                                         *)
LEMMA ExitPlaced ==
  ASSUME Exit
  PROVE  Placed
<1>1. pc' = "down" /\ job' = NoJob
  BY DEF Exit
<1>2. PInv'
  BY <1>1 DEF PInv, AttemptPlace, RecoveryPlace, NoJob
<1> QED BY <1>1, <1>2 DEF Placed, Goes

(* The steps between two appends.                                           *)
LEMMA TakePromptPlaced == ASSUME PInv, TakePrompt PROVE Lines /\ Placed
<1>1. s' = s /\ pc = "idle" /\ pc' \in {"prompt", "compact"} /\ job' = NoJob
  BY DEF TakePrompt, Goto, Set, file, session
<1>2. ~job.recovering /\ ~job'.recovering
  BY <1>1 DEF PInv, RecoveryPlace, NoJob
<1>3. PInv'
  BY <1>1, <1>2 DEF PInv, AttemptPlace, RecoveryPlace, Idle, Attempting, AtAttempt
<1> QED BY <1>1, <1>2, <1>3 DEF Lines, Placed, Goes, AtExecution

(* The automatic compaction, or none.                                       *)
LEMMA AutoCompactPlaced == ASSUME IInv, PInv, AutoCompact PROVE Lines /\ Placed
<1>1. s' = s /\ pc = "prompt" /\ pc' \in {"start", "compact"}
      /\ (job' = job \/ job' = [job EXCEPT !.auto = TRUE])
  BY DEF AutoCompact, Goto, Set, file, session
<1>2. ~job.recovering /\ ~job'.recovering
  BY <1>1 DEF PInv, RecoveryPlace, IInv, Job
<1>3. PInv'
  BY <1>1, <1>2 DEF PInv, AttemptPlace, RecoveryPlace, Idle, Attempting, AtAttempt
<1> QED BY <1>1, <1>2, <1>3 DEF Lines, Placed, Goes, AtExecution

(* The provider's answers.                                                  *)
LEMMA CallModelPlaced == ASSUME IInv, PInv, CallModel PROVE Lines /\ Placed
<1>1. s' = s /\ pc = "model" /\ pc' \in {"answered", "modelError"}
      /\ (job' = job \/ \E answer \in Answers : job' = [job EXCEPT !.answer = answer])
  BY DEF CallModel, Goto, Set, file, session
<1>2. job'.recovering = job.recovering /\ job'.auto = job.auto
  BY <1>1 DEF IInv, Job
<1>3. PInv'
  BY <1>1, <1>2 DEF PInv, AttemptPlace, RecoveryPlace, Idle, Attempting, AtAttempt
<1> QED BY <1>1, <1>2, <1>3 DEF Lines, Placed, Goes, AtExecution

(* And the provider's summaries.                                            *)
LEMMA SummarizePlaced == ASSUME IInv, PInv, Summarize PROVE Lines /\ Placed
<1>1. s' = s /\ pc = "summarize" /\ pc' \in {"settle", "summaryError"}
      /\ (job' = job \/ \E summary \in {"summary", "invalid"} :
                          job' = [job EXCEPT !.summary = summary])
  BY DEF Summarize, Goto, Set, file, session
<1>2. job'.recovering = job.recovering /\ job'.auto = job.auto
  BY <1>1 DEF IInv, Job
<1>3. PInv'
  BY <1>1, <1>2 DEF PInv, AttemptPlace, RecoveryPlace, Idle, Attempting, AtAttempt
<1> QED BY <1>1, <1>2, <1>3 DEF Lines, Placed, Goes, AtExecution

(* The next step of a run begins with no attempt.                           *)
LEMMA NextStepPlaced == ASSUME IInv, PInv, NextStep PROVE Lines /\ Placed
<1>1. s' = s /\ pc = "tools" /\ pc' = "step"
      /\ job'.recovering = job.recovering /\ job'.auto = job.auto
  BY DEF NextStep, Goto, Set, file, session, IInv, Job
<1>2. PInv'
  BY <1>1 DEF PInv, AttemptPlace, RecoveryPlace, Idle, Attempting, AtAttempt
<1> QED BY <1>1, <1>2 DEF Lines, Placed, Goes, AtExecution, AtAttempt

(* The execution of a tool begins,                                          *)
LEMMA ExecutePlaced == ASSUME PInv, Execute PROVE Lines /\ Placed
<1>1. s' = s /\ pc = "execute" /\ pc' = "executing" /\ job' = job
  BY DEF Execute, Goto, file, session
<1>2. PInv'
  BY <1>1 DEF PInv, AttemptPlace, RecoveryPlace, Idle, Attempting, AtAttempt
<1> QED BY <1>1, <1>2 DEF Lines, Placed, Goes, AtExecution

(* and returns.                                                             *)
LEMMA ToolReturnsPlaced == ASSUME IInv, PInv, ToolReturns PROVE Lines /\ Placed
<1>1. s' = s /\ pc = "executing" /\ pc' \in {"toolAbort", "toolResult"}
      /\ job'.recovering = job.recovering /\ job'.auto = job.auto /\ job'.tool = job.tool
  BY DEF ToolReturns, Goto, Set, file, session, IInv, Job
<1>2. PInv'
  BY <1>1 DEF PInv, AttemptPlace, RecoveryPlace, Idle, Attempting, AtAttempt
<1> QED BY <1>1, <1>2 DEF Lines, Placed, Goes, AtExecution

(* The terminal thread moves on alone.                                      *)
LEMMA UserPlaced == ASSUME PInv, Esc \/ Cancel PROVE Lines /\ Placed
<1>1. s' = s /\ pc' = pc /\ job' = job
  BY DEF Esc, Cancel, file, session
<1>2. PInv'
  BY <1>1 DEF PInv, AttemptPlace, RecoveryPlace, Idle, Attempting
<1> QED BY <1>1, <1>2 DEF Lines, Placed, Goes, AtExecution, AtAttempt

(* The process ends or is left.                                             *)
LEMMA LeavesPlaced == ASSUME Crash \/ Quit \/ RecoveryBlocked PROVE Lines /\ Placed
<1>1. s' = s /\ Exit
  BY DEF Crash, Quit, RecoveryBlocked, file, session
<1> QED BY <1>1, ExitPlaced DEF Lines

(* The steps of recovery that append nothing.                               *)
LEMMA RecoveryDonePlaced == ASSUME RecoveryDone PROVE Lines /\ Placed
<1>1. s' = s /\ pc = "recover" /\ Idle(s) /\ pc' = "idle" /\ job' = NoJob
  BY DEF RecoveryDone, Goto, Set, file, session
<1>2. Idle(s') /\ ~job'.recovering
  BY <1>1 DEF Idle, NoJob
<1>3. PInv'
  BY <1>1, <1>2 DEF PInv, AttemptPlace, RecoveryPlace
<1> QED BY <1>1, <1>2, <1>3 DEF Lines, Placed, Goes, AtExecution

(* A tool is started or replayed when no attempt is open.                   *)
LEMMA PlanStartsSettled ==
  ASSUME NEW t, NEW process, Plan(t, process).type = "startTool"
  PROVE  ~Attempting(t)
<1> SUFFICES ASSUME Attempting(t) PROVE FALSE
  OBVIOUS
<1> DEFINE plan == Plan(t, process)
<1>1. CASE t.operation.abort
  <2>1. plan = CloseAttempt
    BY <1>1, Zenon DEF Plan, PlanAbort
  <2> QED BY <2>1 DEF CloseAttempt
<1>2. CASE ~t.operation.abort
  <2>1. t.operation.step # None /\ t.operation.step.status = "attempting"
        /\ t.operation.step.status # "failed"
    BY DEF Attempting
  <2>2. plan = PlanAttempting(t, process)
    BY <1>2, <2>1, Zenon DEF Plan
  <2>3. \/ plan.type = "blocked"
        \/ \E number, step, context : plan = StartStep(number, step, context)
    BY <2>2 DEF PlanAttempting, Blocked
  <2> QED BY <2>3 DEF StartStep
<1> QED BY <1>1, <1>2

(* An operation that is finished by recovery has none, unless it is aborted. *)
LEMMA PlanFinishesSettled ==
  ASSUME NEW t, NEW process, Plan(t, process).type = "finish"
  PROVE  ~Attempting(t)
<1> SUFFICES ASSUME Attempting(t) PROVE FALSE
  OBVIOUS
<1> DEFINE plan == Plan(t, process)
<1>1. CASE t.operation.abort
  <2>1. plan = CloseAttempt
    BY <1>1, Zenon DEF Plan, PlanAbort
  <2> QED BY <2>1 DEF CloseAttempt
<1>2. CASE ~t.operation.abort
  <2>1. t.operation.step # None /\ t.operation.step.status = "attempting"
        /\ t.operation.step.status # "failed"
    BY DEF Attempting
  <2>2. plan = PlanAttempting(t, process)
    BY <1>2, <2>1, Zenon DEF Plan
  <2>3. \/ plan.type = "blocked"
        \/ \E number, step, context : plan = StartStep(number, step, context)
    BY <2>2 DEF PlanAttempting, Blocked
  <2> QED BY <2>3 DEF StartStep
<1> QED BY <1>1, <1>2

(* A replay, and a step.                                                    *)
LEMMA RecoverReplayPlaced == ASSUME IInv, PInv, RecoverReplay PROVE Lines /\ Placed
<1>1. s' = s /\ pc = "recover" /\ ~Idle(s) /\ pc' = "execute"
      /\ job' = [Recovering EXCEPT !.tool = RecoveryPlan.tool, !.direct = TRUE]
      /\ RecoveryPlan.type = "startTool"
  BY DEF RecoverReplay, Recovers, Goto, Set, file, session
<1>2. job'.recovering /\ ~job'.auto
  BY <1>1 DEF Recovering, NoJob
<1>3. ~Attempting(s)
  BY <1>1, PlanStartsSettled DEF RecoveryPlan
<1>4. PInv'
  BY <1>1, <1>2, <1>3 DEF PInv, AttemptPlace, RecoveryPlace, Attempting
<1> QED BY <1>1, <1>2, <1>4 DEF Lines, Placed, Goes, AtExecution

(* The next step of recovery.                                               *)
LEMMA RecoverStepPlaced == ASSUME RecoverStep PROVE Lines /\ Placed
<1>1. s' = s /\ pc = "recover" /\ pc' \in {"step", "admit"}
      /\ job' = [Recovering EXCEPT !.context = RecoveryPlan.context,
                   !.step = RecoveryPlan.step, !.number = RecoveryPlan.number]
  BY DEF RecoverStep, Recovers, Goto, Set, file, session
<1>2. job'.recovering /\ ~job'.auto
  BY <1>1 DEF Recovering, NoJob
<1>3. PInv'
  BY <1>1, <1>2 DEF PInv, AttemptPlace, RecoveryPlace
<1> QED BY <1>1, <1>2, <1>3 DEF Lines, Placed, Goes, AtExecution, AtAttempt

-----------------------------------------------------------------------------
(* The steps that append *)

(* A step on which no attempt is left open but at its place.                *)
LEMMA OnPlaced ==
  ASSUME RecoveryPlace(pc, job), pc \notin AtExecution \cup {"idle", "prompt", "compact", "start"},
         pc' \notin AtExecution \cup {"idle", "prompt", "compact", "start", "recover", "down",
                                      "step", "admit"},
         job'.recovering = job.recovering, job'.auto = job.auto,
         ~Idle(s') /\ Attempting(s') => pc' \in AtAttempt
  PROVE  Placed
<1>1. PInv'
  BY DEF PInv, AttemptPlace, RecoveryPlace
<1> QED BY <1>1 DEF Placed, Goes

(* Between the attempts there is none.                                      *)
LEMMA NoneAttempts ==
  ASSUME PInv, ~Idle(s), pc \notin AtAttempt \cup {"start", "recover", "down", "step", "admit"}
  PROVE  ~Attempting(s)
BY DEF PInv, AttemptPlace

(* And none is opened by a fact that names no step.                         *)
LEMMA NoneAttemptsStays ==
  ASSUME NEW t, NEW t1, ~Idle(t), ~Attempting(t), StepKept(t, t1)
  PROVE  ~Attempting(t1)
BY DEF Attempting, StepKept

(* Lines of an aborted run.                                                 *)
LEMMA AbortedEnding ==
  ASSUME IInv, pc \in AtRun
  PROVE  Finished("aborted", None) \in Ending
         /\ Finished("aborted", None).type = "operationFinished"
<1>1. Finished("aborted", None) \in Closing
  BY ClosingFacts DEF Outcome
<1>2. Finished("aborted", None).type = "operationFinished"
      /\ Finished("aborted", None).outcome = "aborted"
  BY DEF Finished, OperationFinished
<1> QED BY <1>1, <1>2 DEF Ending, Starts

(* A run that ends because of an abort leaves nothing open.                 *)
LEMMA AbortedReturns ==
  ASSUME IInv, pc \in AtRun, pc \notin AtExecution, NEW a \in Seq(Ending),
         s' \in ReduceLine(s, a \o <<Finished("aborted", None)>>),
         committed' = a \o <<Finished("aborted", None)>>, Return
  PROVE  Lines /\ Placed
<1> DEFINE f == Finished("aborted", None)
           facts == a \o <<f>>
<1>1. f \in Ending /\ f.type = "operationFinished"
  BY AbortedEnding
<1>2. Good(s)
  BY DEF IInv, FileInv
<1> HIDE DEF f
<1>3. s' \in ReduceLine(s, facts) /\ committed' = facts
  BY Zenon DEF facts, f
<1>4. Idle(s') /\ FitsFile(s, facts) /\ NoFact("stepAttempt", facts)
  BY <1>1, <1>2, <1>3, EndingIdles
<1> HIDE DEF facts
<1>5. Lines
  BY <1>3, <1>4, Zenon DEF Lines
<1> QED BY <1>4, <1>5, ReturnPlaced

(* A run begins.                                                            *)
LEMMA RunOpens ==
  ASSUME NEW t, NEW t1, t \in State, t1 \in State, NEW op \in Id, NEW input \in Id,
         Reduces(t, t1, RunStarted(op, input))
  PROVE  t1.operation.step = None
<1> DEFINE f == RunStarted(op, input)
           o == [kind |-> "run", id |-> op, input |-> input, step |-> None, abort |-> FALSE]
<1>1. f.type = "runStarted" /\ f.op = op /\ f.input = input
  BY DEF RunStarted
<1> HIDE DEF f
<1>2. t1 = DoRunStarted(t, f)
  BY <1>1, Reduced DEF ReducesRunStarted, f
<1>3. t1.operation = o
  BY <1>1, <1>2 DEF DoRunStarted, State
<1>4. o.step = None
  OBVIOUS
<1> QED BY <1>3, <1>4

(* A run starts.                                                            *)
LEMMA StartRunPlaced == ASSUME IInv, PInv, StartRun PROVE Lines /\ Placed
<1> DEFINE f == UserMessage(New(1))
           g == RunStarted(New(2), New(1))
<1>1. /\ pc = "start" /\ Room(2)
      /\ \/ /\ s' \in ReduceLine(s, <<f, g>>) /\ committed' = <<f, g>> /\ pc' = "step"
            /\ job' = [NoJob EXCEPT !.op = New(2), !.context = New(1)]
         \/ s' = s /\ Exit
  BY Zenon DEF StartRun, Commit, CommitOr, Goto, Set, session
<1>2. s \in State /\ FileInv(s) /\ Good(s)
  BY DEF IInv, TypeOK, FileInv
<1>3. New(1) \in Id /\ New(2) \in Id
  BY <1>1, <1>2, Allocates
<1>4. f \in Facts /\ g \in Facts
  BY <1>3, RunFactTypes
<1>5. f.type = "user" /\ g.type = "runStarted"
  BY DEF UserMessage, RunStarted
<1>6. CASE /\ s' \in ReduceLine(s, <<f, g>>) /\ committed' = <<f, g>> /\ pc' = "step"
           /\ job' = [NoJob EXCEPT !.op = New(2), !.context = New(1)]
  <2>1. PICK m : Reduces(s, m, f) /\ Reduces(m, s', g)
    BY <1>6, LineTwo
  <2>2. Good(m) /\ Good(s')
    BY <1>2, <1>4, <2>1, GoodNext
  <2>3. m \in State /\ s' \in State
    BY <2>2 DEF Good, Sound
  <2>4. s'.operation.step = None
    BY <1>3, <2>1, <2>3, RunOpens
  <2> HIDE DEF f, g
  <2>5. FitsFile(s, <<f, g>>) /\ NoFact("stepAttempt", <<f, g>>)
    BY <1>4, <1>5, ShapedTwo
  <2>6. Lines
    BY <1>6, <2>5, Zenon DEF Lines
  <2>7. ~job'.recovering /\ ~job.recovering
    BY <1>1, <1>6 DEF NoJob, PInv, RecoveryPlace
  <2>8. PInv'
    BY <1>6, <2>4, <2>7 DEF PInv, AttemptPlace, RecoveryPlace, Attempting
  <2> QED BY <1>1, <1>6, <2>6, <2>7, <2>8 DEF Placed, Goes, AtExecution
<1>7. CASE s' = s /\ Exit
  BY <1>7, ExitPlaced DEF Lines
<1> QED BY <1>1, <1>6, <1>7

(* An attempt is admitted.                                                  *)
LEMMA AdmitStepPlaced == ASSUME IInv, PInv, AdmitStep PROVE Lines /\ Placed
<1> DEFINE step == IF job.step = None THEN New(2) ELSE job.step
           f == StepAttempt(job.op, step, New(1), "run", job.number, job.context, now.config)
<1>1. /\ pc = "step" /\ Room(2)
      /\ \/ /\ s' \in ReduceLine(s, <<f>>) /\ committed' = <<f>>
            /\ pc' \in {"model", "modelError"}
            /\ job' = [job EXCEPT !.step = step, !.attempt = New(1)]
         \/ s' = s /\ Exit
  BY Zenon DEF AdmitStep, Commit, CommitOr, Goto, Set, session
<1>2. pc \in AtRun /\ job \in Job /\ s \in State
  BY <1>1 DEF AtRun, IInv, TypeOK
<1>3. job.op \in Id /\ now.config \in ConfigurationSnapshot
  BY <1>2, RunNow
<1>4. New(1) \in Id /\ New(2) \in Id
  BY <1>1, <1>2, Allocates
<1>5. step \in Id /\ job.context \in Id /\ job.number \in 1..2
  BY <1>1, <1>2, <1>4 DEF IInv, Job, ContextFits
<1>6. f \in Facts
  BY <1>3, <1>4, <1>5, AttemptFactTypes
<1>7. f.type = "stepAttempt"
  BY DEF StepAttempt
<1> HIDE DEF f, step
<1>8. CASE /\ s' \in ReduceLine(s, <<f>>) /\ committed' = <<f>> /\ pc' \in {"model", "modelError"}
           /\ job' = [job EXCEPT !.step = step, !.attempt = New(1)]
  <2>1. FitsFile(s, <<f>>)
    BY <1>6, <1>7, ShapedOne
  <2>2. Lines
    BY <1>1, <1>8, <2>1 DEF Lines
  <2>3. job'.recovering = job.recovering /\ job'.auto = job.auto
    BY <1>2, <1>8 DEF Job
  <2>4. pc \notin AtExecution \cup {"idle", "prompt", "compact", "start"} /\ RecoveryPlace(pc, job)
    BY <1>1 DEF AtExecution, PInv
  <2>5. pc' \notin AtExecution \cup {"idle", "prompt", "compact", "start", "recover", "down",
                                     "step", "admit"}
        /\ pc' \in AtAttempt
    BY <1>8 DEF AtExecution, AtAttempt
  <2> QED BY <2>2, <2>3, <2>4, <2>5, OnPlaced
<1>9. CASE s' = s /\ Exit
  BY <1>9, ExitPlaced DEF Lines
<1> QED BY <1>1, <1>8, <1>9

(* A failed request.                                                        *)
LEMMA FailedShape ==
  ASSUME NEW t, NEW f \in Facts, NEW g \in Facts, f.type = "stepFailed",
         g.type = "operationFinished", Good(t), NEW t1, t1 \in ReduceLine(t, <<f, g>>)
  PROVE  FitsFile(t, <<f, g>>) /\ NoFact("stepAttempt", <<f, g>>) /\ Idle(t1)
<1>1. FitsFile(t, <<f, g>>) /\ NoFact("stepAttempt", <<f, g>>)
  BY ShapedTwo DEF Starts
<1>2. Len(<<f, g>>) = 2 /\ <<f, g>>[1] = f /\ <<f, g>>[2] = g /\ \A n \in 1..2 : n = 1 \/ n = 2
  OBVIOUS
<1>3. Len(<<f, g>>) \in Nat \ {0} /\ \A n \in 1..Len(<<f, g>>) : <<f, g>>[n] \in Facts
  BY <1>2
<1>4. <<f, g>>[Len(<<f, g>>)].type = "operationFinished"
  BY <1>2
<1>5. Idle(t1)
  BY <1>3, <1>4, LineIdles
<1> QED BY <1>1, <1>5

(* A provider that fails ends the run, or the abort does.                   *)
LEMMA ModelErrorPlaced == ASSUME IInv, PInv, ModelError PROVE Lines /\ Placed
<1> DEFINE f == StepFailed(job.op, job.step, job.attempt)
           g == Finished("failed", None)
<1>1. /\ pc = "modelError"
      /\ \/ s' = s /\ pc' = "abortClose" /\ job' = [job EXCEPT !.flag = s.operation.abort]
         \/ s' \in ReduceLine(s, <<f, g>>) /\ committed' = <<f, g>> /\ Exit
         \/ s' = s /\ Exit
  BY Zenon DEF ModelError, Commit, CommitOr, Goto, Set, session
<1>2. pc \in AtRun /\ pc \in AtAttempt /\ AttemptFits(s, pc, job) /\ job \in Job /\ Good(s)
  BY <1>1 DEF AtRun, AtAttempt, IInv, FileInv
<1>3. job.step \in Id /\ job.attempt \in Id
  BY <1>2 DEF AttemptFits
<1>4. f \in Facts /\ g \in Facts /\ f.type = "stepFailed" /\ g.type = "operationFinished"
  <2>1. f \in Closing /\ g \in Closing
    BY <1>2, <1>3, ClosingFacts DEF Outcome
  <2>2. f.type = "stepFailed" /\ g.type = "operationFinished"
    BY DEF StepFailed, Finished, OperationFinished
  <2> QED BY <2>1, <2>2 DEF Closing
<1> HIDE DEF f, g
<1>5. CASE s' = s /\ pc' = "abortClose" /\ job' = [job EXCEPT !.flag = s.operation.abort]
  <2>1. job'.recovering = job.recovering /\ job'.auto = job.auto
    BY <1>2, <1>5 DEF Job
  <2>2. pc \notin AtExecution \cup {"idle", "prompt", "compact", "start"} /\ RecoveryPlace(pc, job)
    BY <1>1 DEF AtExecution, PInv
  <2>3. pc' \notin AtExecution \cup {"idle", "prompt", "compact", "start", "recover", "down",
                                     "step", "admit"}
        /\ pc' \in AtAttempt
    BY <1>5 DEF AtExecution, AtAttempt
  <2> QED BY <1>5, <2>1, <2>2, <2>3, OnPlaced DEF Lines
<1>6. CASE s' \in ReduceLine(s, <<f, g>>) /\ committed' = <<f, g>> /\ Exit
  <2>1. FitsFile(s, <<f, g>>) /\ NoFact("stepAttempt", <<f, g>>)
    BY <1>2, <1>4, <1>6, FailedShape
  <2> QED BY <1>6, <2>1, ExitPlaced, Zenon DEF Lines
<1>7. CASE s' = s /\ Exit
  BY <1>7, ExitPlaced DEF Lines
<1> QED BY <1>1, <1>5, <1>6, <1>7

(* An aborted one.                                                          *)
LEMMA AbortClosePlaced == ASSUME IInv, PInv, AbortClose PROVE Lines /\ Placed
<1> DEFINE f == StepFailed(job.op, job.step, job.attempt)
           g == Finished("aborted", None)
           request == <<AbortRequested(job.op, "run", "model", None)>>
           head == IF job.flag THEN << >> ELSE request
           facts == head \o <<f, g>>
<1>1. /\ pc = "abortClose"
      /\ \/ s' \in ReduceLine(s, facts) /\ committed' = facts /\ Return
         \/ s' = s /\ Exit
  BY Zenon DEF AbortClose, Commit, CommitOr, session
<1>2. pc \in AtRun /\ pc \in AtAttempt /\ AttemptFits(s, pc, job) /\ Good(s)
      /\ pc \notin AtExecution
  BY <1>1 DEF AtRun, AtAttempt, IInv, FileInv, AtExecution
<1>3. job.step \in Id /\ job.attempt \in Id
  BY <1>2 DEF AttemptFits
<1>4. f \in Ending /\ g \in Ending /\ g.type = "operationFinished"
  <2>1. f \in Closing
    BY <1>2, <1>3, ClosingFacts
  <2>2. f.type = "stepFailed"
    BY DEF StepFailed
  <2> QED BY <1>2, <2>1, <2>2, AbortedEnding DEF Ending, Starts
<1>5. request \in Seq(Ending) /\ << >> \in Seq(Ending)
  <2>1. AbortRequested(job.op, "run", "model", None) \in Closing
    BY <1>2, ClosingFacts
  <2>2. AbortRequested(job.op, "run", "model", None).type = "abortRequested"
    BY DEF AbortRequested
  <2>3. AbortRequested(job.op, "run", "model", None) \in Ending
    BY <2>1, <2>2 DEF Ending, Starts
  <2> QED BY <2>3
<1> HIDE DEF f, g, request
<1>6. head \in Seq(Ending)
  BY <1>5
<1> HIDE DEF head
<1>7. /\ facts \in Seq(Ending) /\ Len(facts) = Len(head) + 2 /\ Len(head) \in Nat
      /\ facts[Len(facts)] = g
  BY <1>4, <1>6
<1> HIDE DEF facts
<1>8. CASE s' \in ReduceLine(s, facts) /\ committed' = facts /\ Return
  <2>1. FitsFile(s, facts) /\ NoFact("stepAttempt", facts)
    BY <1>7, ShapedMany
  <2>2. \A e \in Ending : e \in Facts
    BY DEF Ending, Closing
  <2>3. Len(facts) \in Nat \ {0} /\ \A n \in 1..Len(facts) : facts[n] \in Facts
    BY <1>7, <2>2
  <2>4. Idle(s')
    BY <1>2, <1>4, <1>7, <1>8, <2>3, LineIdles
  <2>5. Lines
    BY <1>8, <2>1, Zenon DEF Lines
  <2> QED BY <1>2, <1>8, <2>4, <2>5, ReturnPlaced
<1>9. CASE s' = s /\ Exit
  BY <1>9, ExitPlaced DEF Lines
<1> QED BY <1>1, <1>8, <1>9

(* An answer settles the attempt.                                           *)
LEMMA SettleStepPlaced == ASSUME IInv, PInv, SettleStep PROVE Lines /\ Placed
<1> DEFINE f == AssistantMessage(New(1), job.step, job.attempt, job.answer)
           g == UsageFact(job.op, job.attempt, 1)
<1>1. /\ pc = "answered" /\ Room(1)
      /\ \/ /\ s' \in ReduceLine(s, <<f, g>>) /\ committed' = <<f, g>>
            /\ pc' = IF job.answer.calls = << >> THEN "finishRun" ELSE "tools"
            /\ job' = [job EXCEPT !.assistant = New(1), !.index = 1]
         \/ s' = s /\ Exit
  BY Zenon DEF SettleStep, Commit, CommitOr, Goto, Set, session
<1>2. /\ pc \in AtRun /\ job \in Job /\ s \in State /\ Good(s)
      /\ AttemptFits(s, pc, job) /\ AnswerFits(pc, job)
  BY <1>1 DEF AtRun, IInv, TypeOK, FileInv
<1>3. job.op \in Id
  BY <1>2, RunNow
<1>4. New(1) \in Id
  BY <1>1, <1>2, Allocates
<1>5. job.step \in Id /\ job.attempt \in Id /\ job.answer \in Answers
  BY <1>1, <1>2 DEF AttemptFits, AtAttempt, AnswerFits, AtAnswer
<1>6. f \in Facts /\ g \in Facts
  BY <1>3, <1>4, <1>5, AnswerFactTypes, FailureFactTypes
<1>7. f.type = "assistant" /\ g.type = "usage" /\ g.op = s.operation.id /\ ~Idle(s)
  <2>1. g.op = job.op /\ f.type = "assistant" /\ g.type = "usage"
    BY DEF AssistantMessage, UsageFact
  <2> QED BY <1>2, <2>1, RunNow
<1> HIDE DEF f, g
<1>8. CASE /\ s' \in ReduceLine(s, <<f, g>>) /\ committed' = <<f, g>>
           /\ pc' = IF job.answer.calls = << >> THEN "finishRun" ELSE "tools"
           /\ job' = [job EXCEPT !.assistant = New(1), !.index = 1]
  <2>1. FitsFile(s, <<f, g>>) /\ NoFact("stepAttempt", <<f, g>>)
    BY <1>6, <1>7, ShapedTwo DEF Starts
  <2>2. Lines
    BY <1>8, <2>1, Zenon DEF Lines
  <2>3. PICK m : Reduces(s, m, f) /\ Reduces(m, s', g)
    BY <1>8, LineTwo
  <2>4. ~Idle(m) /\ ~Attempting(m)
    BY <1>2, <1>6, <1>7, <2>3, AnswerIsCurrent DEF Attempting
  <2>5. Good(m)
    BY <1>2, <1>6, <2>3, GoodNext
  <2>6. StepKept(m, s')
    <3>1. Sound(m) /\ Ledger(m) /\ FactDoes(m, s', g)
      BY <1>6, <2>3, <2>5, FactCases DEF Good, Sound
    <3> QED BY <1>7, <3>1, FactStep DEF Steady
  <2>7. ~Attempting(s')
    BY <2>4, <2>6, NoneAttemptsStays
  <2>8. job'.recovering = job.recovering /\ job'.auto = job.auto
    BY <1>2, <1>8 DEF Job
  <2>9. pc \notin AtExecution \cup {"idle", "prompt", "compact", "start"} /\ RecoveryPlace(pc, job)
    BY <1>1 DEF AtExecution, PInv
  <2>10. pc' \notin AtExecution \cup {"idle", "prompt", "compact", "start", "recover", "down",
                                      "step", "admit"}
    BY <1>8 DEF AtExecution
  <2> QED BY <2>2, <2>7, <2>8, <2>9, <2>10, OnPlaced
<1>9. CASE s' = s /\ Exit
  BY <1>9, ExitPlaced DEF Lines
<1> QED BY <1>1, <1>8, <1>9

(* The end of an operation, when it attempts nothing.                       *)
LEMMA FinishedShape ==
  ASSUME NEW t, Good(t), ~Attempting(t), NEW f \in Facts, f.type = "operationFinished",
         NEW t1, t1 \in ReduceLine(t, <<f>>)
  PROVE  FitsFile(t, <<f>>) /\ NoFact("stepAttempt", <<f>>) /\ Idle(t1)
<1>1. FitsFile(t, <<f>>) /\ NoFact("stepAttempt", <<f>>)
  BY ShapedOne
<1>2. Reduces(t, t1, f)
  BY LineOne
<1> QED BY <1>1, <1>2, FinishIdles

(* An answer without calls ends the run.                                    *)
LEMMA FinishRunPlaced == ASSUME IInv, PInv, FinishRun PROVE Lines /\ Placed
<1>1. /\ pc = "finishRun"
      /\ \/ \E outcome \in Outcome, final \in {job.assistant, None} :
              /\ s' \in ReduceLine(s, <<Finished(outcome, final)>>)
              /\ committed' = <<Finished(outcome, final)>> /\ (Return \/ Exit)
         \/ s' = s /\ Exit
  <2>1. "completed" \in Outcome /\ "failed" \in Outcome
    BY DEF Outcome
  <2> QED BY <2>1, Zenon DEF FinishRun, Commit, CommitOr, session
<1>2. pc \in AtRun /\ job \in Job /\ ~Idle(s) /\ Good(s) /\ pc \notin AtExecution
  BY <1>1, RunNow DEF AtRun, IInv, AtExecution
<1>3. ~Attempting(s)
  BY <1>1, <1>2, NoneAttempts DEF AtAttempt
<1>4. ASSUME NEW outcome \in Outcome, NEW final \in {job.assistant, None},
             s' \in ReduceLine(s, <<Finished(outcome, final)>>),
             committed' = <<Finished(outcome, final)>>, Return \/ Exit
      PROVE  Lines /\ Placed
  <2> DEFINE f == Finished(outcome, final)
  <2>1. f \in Facts
    BY <1>2, RunNow DEF Job
  <2>2. f.type = "operationFinished"
    BY DEF Finished, OperationFinished
  <2> HIDE DEF f
  <2>3. s' \in ReduceLine(s, <<f>>) /\ committed' = <<f>>
    BY <1>4, Zenon DEF f
  <2>4. FitsFile(s, <<f>>) /\ NoFact("stepAttempt", <<f>>) /\ Idle(s')
    BY <1>2, <1>3, <2>1, <2>2, <2>3, FinishedShape
  <2>5. Lines
    BY <2>3, <2>4, Zenon DEF Lines
  <2> QED BY <1>2, <1>4, <2>4, <2>5, ReturnPlaced, ExitPlaced
<1>5. CASE s' = s /\ Exit
  BY <1>5, ExitPlaced DEF Lines
<1> QED BY <1>1, <1>4, <1>5

(* A line of one fact that names no step, where there is no attempt.        *)
LEMMA SteadyLine ==
  ASSUME IInv, PInv, pc \in AtRun, pc \notin AtAttempt \cup {"step"}, NEW f \in Facts,
         f.type \in Steady, f.type # "usage", s' \in ReduceLine(s, <<f>>), committed' = <<f>>
  PROVE  Lines /\ ~Attempting(s') /\ Reduces(s, s', f) /\ NoFact("stepAttempt", <<f>>)
<1>1. ~Idle(s) /\ Good(s)
  BY RunNow
<1>2. ~Attempting(s)
  BY <1>1, NoneAttempts DEF AtRun, AtAttempt
<1>3. f.type # "operationFinished" /\ f.type # "stepAttempt"
  BY DEF Steady
<1>4. FitsFile(s, <<f>>) /\ NoFact("stepAttempt", <<f>>)
  BY <1>3, ShapedOne
<1>5. Lines
  BY <1>4, Zenon DEF Lines
<1>6. Reduces(s, s', f)
  BY LineOne
<1>7. StepKept(s, s')
  <2>1. Sound(s) /\ Ledger(s) /\ FactDoes(s, s', f)
    BY <1>1, <1>6, FactCases DEF Good, Sound
  <2> QED BY <2>1, FactStep
<1>8. ~Attempting(s')
  BY <1>1, <1>2, <1>7, NoneAttemptsStays
<1> QED BY <1>4, <1>5, <1>6, <1>8

(* A call that is not executed has its result at once.                      *)
LEMMA PreExecutionPlaced == ASSUME IInv, PInv, PreExecutionResult PROVE Lines /\ Placed
<1> DEFINE f == SyntheticToolResult(New(1), job.step, job.assistant, job.index, ToolCall)
<1>1. /\ pc = "tools" /\ job.index <= Len(job.answer.calls) /\ Room(1)
      /\ \/ /\ s' \in ReduceLine(s, <<f>>) /\ committed' = <<f>> /\ pc' = pc
            /\ job' = Answered(New(1))
         \/ s' = s /\ Exit
  BY Zenon DEF PreExecutionResult, Commit, CommitOr, Goto, Set, session
<1>2. pc \in AtRun /\ AtAnswer(pc, job) /\ pc \notin AtAttempt \cup {"step"}
  BY <1>1 DEF AtRun, AtAnswer, AtAttempt
<1>3. s \in State
  BY <1>2, RunNow
<1>4. /\ job \in Job /\ job.answer.calls \in Seq(Call) /\ Len(job.answer.calls) \in Nat \ {0}
      /\ job.step \in Id /\ job.assistant \in Id
      /\ job.index \in 1..(Len(job.answer.calls) + 1)
  BY <1>1, <1>2, AnswerNow
<1>5. New(1) \in Id
  BY <1>1, <1>3, Allocates
<1>6. ToolCall \in Call /\ job.index \in Nat
  BY <1>1, <1>4 DEF ToolCall
<1>7. f \in Closing
  BY <1>2, <1>4, <1>5, <1>6, ClosingResults
<1>8. f.type = "synthetic"
  BY DEF SyntheticToolResult
<1> HIDE DEF f
<1>9. CASE s' \in ReduceLine(s, <<f>>) /\ committed' = <<f>> /\ pc' = pc /\ job' = Answered(New(1))
  <2>1. Lines /\ ~Attempting(s')
    BY <1>2, <1>7, <1>8, <1>9, SteadyLine DEF Closing, Steady
  <2>2. job'.recovering = job.recovering /\ job'.auto = job.auto
    BY <1>4, <1>9 DEF Job, Answered
  <2>3. pc \notin AtExecution \cup {"idle", "prompt", "compact", "start"} /\ RecoveryPlace(pc, job)
    BY <1>1 DEF AtExecution, PInv
  <2>4. pc' \notin AtExecution \cup {"idle", "prompt", "compact", "start", "recover", "down",
                                     "step", "admit"}
    BY <1>1, <1>9 DEF AtExecution
  <2> QED BY <2>1, <2>2, <2>3, <2>4, OnPlaced
<1>10. CASE s' = s /\ Exit
  BY <1>10, ExitPlaced DEF Lines
<1> QED BY <1>1, <1>9, <1>10

(* A tool is started, or the calls are skipped.                             *)
LEMMA StartToolPlaced == ASSUME IInv, PInv, StartTool PROVE Lines /\ Placed
<1> DEFINE f == ToolStarted(New(1), job.op, job.step, job.assistant, job.index, ToolCall,
                            now.replay[ToolCall.name], now.key[ToolCall.name], now.env, New(2))
           facts == Skipped(job.index) \o <<Finished("aborted", None)>>
<1>1. /\ pc = "tools" /\ job.index <= Len(job.answer.calls) /\ Room(2)
      /\ Room(Len(job.answer.calls) - job.index + 1)
      /\ \/ /\ s' \in ReduceLine(s, <<f>>) /\ committed' = <<f>> /\ pc' = "started"
            /\ job' = [job EXCEPT !.tool = New(1)]
         \/ s' \in ReduceLine(s, facts) /\ committed' = facts /\ Return
         \/ s' = s /\ Exit
  BY Zenon DEF StartTool, Commit, CommitOr, Goto, Set, session
<1>2. /\ pc \in AtRun /\ AtAnswer(pc, job) /\ pc \notin AtAttempt \cup {"step"}
      /\ pc \notin AtExecution
  BY <1>1 DEF AtRun, AtAnswer, AtAttempt, AtExecution
<1>3. s \in State /\ job.op \in Id /\ now \in Setups
  BY <1>2, RunNow
<1>4. /\ job \in Job /\ job.answer \in Answers
      /\ job.answer.calls \in Seq(Call) /\ Len(job.answer.calls) \in Nat \ {0}
      /\ job.step \in Id /\ job.assistant \in Id
      /\ job.index \in 1..(Len(job.answer.calls) + 1)
  BY <1>1, <1>2, AnswerNow
<1>5. New(1) \in Id /\ New(2) \in Id
  BY <1>1, <1>3, Allocates
<1>6. ToolCall \in Call /\ job.index \in Nat \ {0}
  <2>1. job.index \in Nat \ {0} /\ job.index \in 1..Len(job.answer.calls)
    BY <1>1, <1>4
  <2> QED BY <1>4, <2>1 DEF ToolCall
<1>7. f \in Facts
  BY <1>3, <1>4, <1>5, <1>6, ToolFactTypes
<1>8. f.type = "toolStarted"
  BY DEF ToolStarted
<1>9. Skipped(job.index) \in Seq(Ending)
  <2>1. Skipped(job.index) \in Seq(Closing)
    BY <1>1, <1>2, <1>4, <1>6, SkippedFacts
  <2> QED BY <1>4, <1>6, <2>1, SkippedEnding
<1> HIDE DEF f
<1>10. CASE s' \in ReduceLine(s, <<f>>) /\ committed' = <<f>> /\ pc' = "started"
            /\ job' = [job EXCEPT !.tool = New(1)]
  <2>1. Lines /\ ~Attempting(s')
    BY <1>2, <1>7, <1>8, <1>10, SteadyLine DEF Steady
  <2>2. job'.recovering = job.recovering /\ job'.auto = job.auto
    BY <1>4, <1>10 DEF Job
  <2>3. pc \notin AtExecution \cup {"idle", "prompt", "compact", "start"} /\ RecoveryPlace(pc, job)
    BY <1>1 DEF AtExecution, PInv
  <2>4. pc' \notin AtExecution \cup {"idle", "prompt", "compact", "start", "recover", "down",
                                     "step", "admit"}
    BY <1>10 DEF AtExecution
  <2> QED BY <2>1, <2>2, <2>3, <2>4, OnPlaced
<1>11. CASE s' \in ReduceLine(s, facts) /\ committed' = facts /\ Return
  BY <1>2, <1>9, <1>11, AbortedReturns
<1>12. CASE s' = s /\ Exit
  BY <1>12, ExitPlaced DEF Lines
<1> QED BY <1>1, <1>10, <1>11, <1>12

(* The abort is looked at again before the effect.                          *)
LEMMA CheckStartedPlaced == ASSUME IInv, PInv, CheckStarted PROVE Lines /\ Placed
<1> DEFINE head == <<Result(job.tool)>>
           skipped == Skipped(job.index + 1)
           all == head \o skipped
           facts == all \o <<Finished("aborted", None)>>
<1>1. /\ pc = "started" /\ Room(Len(job.answer.calls) - job.index)
      /\ \/ s' \in ReduceLine(s, facts) /\ committed' = facts /\ Return
         \/ s' = s /\ Exit
         \/ s' = s /\ pc' = "execute" /\ job' = job
  BY Zenon DEF CheckStarted, Commit, CommitOr, Goto, session
<1>2. pc \in AtTool /\ AtAnswer(pc, job) /\ pc \notin AtAttempt /\ pc \notin AtExecution
  BY <1>1 DEF AtTool, AtAnswer, AtAttempt, AtExecution
<1>3. pc \in AtRun /\ job \in Job /\ Result(job.tool) \in Closing /\ Result(job.tool).type = "result"
  BY <1>2, ToolNow
<1>4. /\ job.answer \in Answers /\ Len(job.answer.calls) \in Nat \ {0}
      /\ job.step \in Id /\ job.assistant \in Id /\ job.answer.calls \in Seq(Call)
      /\ job.index \in 1..(Len(job.answer.calls) + 1) /\ job.index <= Len(job.answer.calls)
  BY <1>1, <1>2, <1>3, AnswerNow
<1>5. all \in Seq(Ending)
  <2>1. /\ job.index + 1 \in Nat \ {0} /\ job.index + 1 <= Len(job.answer.calls) + 1
        /\ Len(job.answer.calls) - (job.index + 1) + 1 = Len(job.answer.calls) - job.index
    BY <1>4
  <2>2. skipped \in Seq(Closing)
    BY <1>1, <1>3, <1>4, <2>1, SkippedFacts
  <2>3. skipped \in Seq(Ending)
    BY <1>4, <2>1, <2>2, SkippedEnding
  <2>4. Result(job.tool) \in Ending
    BY <1>3 DEF Ending, Starts
  <2> HIDE DEF skipped
  <2> QED BY <2>3, <2>4
<1> HIDE DEF all
<1>6. CASE s' \in ReduceLine(s, facts) /\ committed' = facts /\ Return
  BY <1>2, <1>3, <1>5, <1>6, AbortedReturns
<1>7. CASE s' = s /\ Exit
  BY <1>7, ExitPlaced DEF Lines
<1>8. CASE s' = s /\ pc' = "execute" /\ job' = job
  <2>1. ~Idle(s)
    BY <1>3, RunNow
  <2>2. ~Attempting(s)
    BY <1>1, <2>1, NoneAttempts DEF AtAttempt
  <2>3. pc \notin AtExecution \cup {"idle", "prompt", "compact", "start"} /\ RecoveryPlace(pc, job)
    BY <1>1 DEF AtExecution, PInv
  <2>4. pc' \notin AtExecution \cup {"idle", "prompt", "compact", "start", "recover", "down",
                                     "step", "admit"}
    BY <1>8 DEF AtExecution
  <2> QED BY <1>8, <2>2, <2>3, <2>4, OnPlaced DEF Lines
<1> QED BY <1>1, <1>6, <1>7, <1>8

(* A tool that was cancelled: the abort first.                              *)
LEMMA ToolAbortPlaced == ASSUME IInv, PInv, ToolAbort PROVE Lines /\ Placed
<1> DEFINE f == AbortRequested(job.op, "run", "tool", s.tools[job.tool].call)
<1>1. /\ pc = "toolAbort"
      /\ \/ /\ s' \in ReduceLine(s, <<f>>) /\ committed' = <<f>> /\ pc' = "toolResult"
            /\ job' = job
         \/ s' = s /\ Exit
  BY Zenon DEF ToolAbort, Commit, CommitOr, Goto, session
<1>2. pc \in AtTool /\ pc \notin AtAttempt \cup {"step"}
  BY <1>1 DEF AtTool, AtAttempt
<1>3. pc \in AtRun /\ s.tools[job.tool].call \in CallId
  BY <1>2, ToolNow
<1>4. f \in Facts /\ f.type = "abortRequested"
  <2>1. f \in Closing
    BY <1>3, ClosingFacts
  <2> QED BY <2>1 DEF Closing, AbortRequested
<1> HIDE DEF f
<1>5. CASE s' \in ReduceLine(s, <<f>>) /\ committed' = <<f>> /\ pc' = "toolResult" /\ job' = job
  <2>1. Lines /\ ~Attempting(s') /\ Reduces(s, s', f)
    BY <1>2, <1>3, <1>4, <1>5, SteadyLine DEF Steady
  <2>2. s'.tools = s.tools
    BY <1>3, <1>4, <2>1, FactFollows, RunNow DEF Follows
  <2>3. PInv'
    BY <1>1, <1>5, <2>1 DEF PInv, AttemptPlace, RecoveryPlace
  <2> QED BY <1>1, <1>5, <2>1, <2>2, <2>3 DEF Placed, Goes, AtExecution
<1>6. CASE s' = s /\ Exit
  BY <1>6, ExitPlaced DEF Lines
<1> QED BY <1>1, <1>5, <1>6

(* The result of the tool.                                                  *)
LEMMA AppendResultPlaced == ASSUME IInv, PInv, AppendResult PROVE Lines /\ Placed
<1> DEFINE f == Result(job.tool)
           result == s.tools[job.tool].result
<1>1. /\ pc = "toolResult"
      /\ \/ /\ s' \in ReduceLine(s, <<f>>) /\ committed' = <<f>>
            /\ \/ Return
               \/ /\ pc' = "toolAborted" /\ job' = job
               \/ /\ pc' = "tools" /\ job' = Answered(result)
         \/ s' = s /\ Exit
  BY Zenon DEF AppendResult, Commit, CommitOr, Goto, Set, session
<1>2. pc \in AtTool /\ pc \notin AtAttempt \cup {"step"}
  BY <1>1 DEF AtTool, AtAttempt
<1>3. /\ pc \in AtRun /\ job \in Job /\ f \in Closing /\ f.type = "result"
  BY <1>2, ToolNow
<1>4. f.started = job.tool
  BY DEF Result, ToolResult
<1> HIDE DEF f, result
<1>5. CASE /\ s' \in ReduceLine(s, <<f>>) /\ committed' = <<f>>
           /\ \/ Return
              \/ /\ pc' = "toolAborted" /\ job' = job
              \/ /\ pc' = "tools" /\ job' = Answered(result)
  <2>1. Lines /\ ~Attempting(s') /\ Reduces(s, s', f) /\ NoFact("stepAttempt", committed')
    BY <1>2, <1>3, <1>5, SteadyLine DEF Closing, Steady
  <2>2. CompletesTool(s, s', f.started)
    BY <1>3, <2>1, FactFollows, RunNow DEF Follows, Closing
  <2>3. s'.tools[job.tool].status # "pending"
    BY <1>4, <2>2 DEF CompletesTool
  <2>4. \/ pc' = "recover" /\ job.recovering /\ job' = [NoJob EXCEPT !.recovering = TRUE]
        \/ pc' = "idle" /\ ~job.recovering /\ job' = NoJob
        \/ /\ pc' \in {"toolAborted", "tools"}
           /\ job'.recovering = job.recovering /\ job'.auto = job.auto
    BY <1>3, <1>5 DEF Return, Goto, Set, Answered, Job
  <2>5. PInv'
    BY <1>1, <2>1, <2>4 DEF PInv, AttemptPlace, RecoveryPlace, NoJob
  <2>6. ~job'.recovering => ~job.recovering
    BY <2>4 DEF NoJob
  <2> QED BY <1>1, <1>2, <2>1, <2>3, <2>4, <2>5, <2>6 DEF Placed, Goes, AtExecution
<1>6. CASE s' = s /\ Exit
  BY <1>6, ExitPlaced DEF Lines
<1> QED BY <1>1, <1>5, <1>6

(* The calls after an aborted one.                                          *)
LEMMA ToolAbortedPlaced == ASSUME IInv, PInv, ToolAborted PROVE Lines /\ Placed
<1> DEFINE skipped == Skipped(job.index + 1)
           facts == skipped \o <<Finished("aborted", None)>>
<1>1. /\ pc = "toolAborted" /\ Room(Len(job.answer.calls) - job.index)
      /\ \/ s' \in ReduceLine(s, facts) /\ committed' = facts /\ Return
         \/ s' = s /\ Exit
  BY Zenon DEF ToolAborted, Commit, CommitOr, session
<1>2. pc \in AtRun /\ AtAnswer(pc, job) /\ pc \notin AtExecution
  BY <1>1 DEF AtRun, AtAnswer, AtExecution
<1>3. /\ job.answer \in Answers /\ Len(job.answer.calls) \in Nat \ {0}
      /\ job.step \in Id /\ job.assistant \in Id /\ job.answer.calls \in Seq(Call)
      /\ job.index \in 1..(Len(job.answer.calls) + 1) /\ job.index <= Len(job.answer.calls)
  BY <1>1, <1>2, AnswerNow
<1>4. skipped \in Seq(Ending)
  <2>1. /\ job.index + 1 \in Nat \ {0} /\ job.index + 1 <= Len(job.answer.calls) + 1
        /\ Len(job.answer.calls) - (job.index + 1) + 1 = Len(job.answer.calls) - job.index
    BY <1>3
  <2>2. skipped \in Seq(Closing)
    BY <1>1, <1>2, <1>3, <2>1, SkippedFacts
  <2> QED BY <1>3, <2>1, <2>2, SkippedEnding
<1> HIDE DEF skipped
<1>5. CASE s' \in ReduceLine(s, facts) /\ committed' = facts /\ Return
  BY <1>2, <1>4, <1>5, AbortedReturns
<1>6. CASE s' = s /\ Exit
  BY <1>6, ExitPlaced DEF Lines
<1> QED BY <1>1, <1>5, <1>6

(* A compaction that is over, whatever it wrote.                            *)
LEMMA OverPlaced ==
  ASSUME RecoveryPlace(pc, job), pc \in AtCompaction,
         \/ Exit
         \/ Idle(s') /\ Return
         \/ pc' = "start" /\ job' = NoJob /\ (job.auto \/ Idle(s'))
  PROVE  Placed
<1>1. pc \notin AtExecution
  BY DEF AtExecution, AtCompaction
<1>2. CASE pc' = "start" /\ job' = NoJob /\ (job.auto \/ Idle(s'))
  <2>1. PInv'
    BY <1>2 DEF PInv, AttemptPlace, RecoveryPlace, NoJob
  <2>2. ~job'.recovering => ~job.recovering \/ Idle(s')
    BY <1>2 DEF RecoveryPlace
  <2> QED BY <1>1, <1>2, <2>1, <2>2 DEF Placed, Goes, AtExecution
<1> QED BY <1>1, <1>2, ExitPlaced, ReturnPlaced

(* One that is refused writes nothing.                                      *)
LEMMA RefusedPlaced ==
  ASSUME RecoveryPlace(pc, job), pc \in AtCompaction, s' = s, CompactionRefused
  PROVE  Lines /\ Placed
<1>1. \/ Exit
      \/ pc' = "start" /\ job' = NoJob /\ job.auto
  BY DEF CompactionRefused, CompactionErr, Goto, Set
<1> QED BY <1>1, OverPlaced DEF Lines

(* A compaction begins.                                                     *)
LEMMA StartCompactionPlaced == ASSUME IInv, PInv, StartCompaction PROVE Lines /\ Placed
<1> DEFINE f == CompactionStarted(New(1), s.through, New(2), Source(s, s.through))
           Over == (pc' = "start" /\ job' = NoJob) \/ Return
<1>1. /\ pc = "compact"
      /\ \/ Over /\ s' = s
         \/ /\ ~NothingToCompact /\ Room(2)
            /\ s' \in ReduceLine(s, <<f>>) /\ committed' = <<f>> /\ pc' = "admit"
            /\ job' = [job EXCEPT !.op = New(1), !.context = s.through]
         \/ s' = s /\ Exit
  BY Zenon DEF StartCompaction, CompactionErr, CompactionRefused, CommitOr, Goto,
     Set, file, session
<1>2. job \in Job /\ s \in State /\ FileInv(s) /\ Good(s) /\ ~job.recovering /\ pc \notin AtExecution
  BY <1>1 DEF IInv, TypeOK, FileInv, PInv, RecoveryPlace, AtExecution
<1>3. CASE Over /\ s' = s
  <2>1. pc' \in {"start", "idle"} /\ job' = NoJob
    BY <1>2, <1>3 DEF Return, Goto, Set
  <2>2. PInv'
    BY <1>1, <1>3, <2>1 DEF PInv, AttemptPlace, RecoveryPlace, NoJob, Idle, Attempting, AtAttempt
  <2>3. ~job'.recovering
    BY <2>1 DEF NoJob
  <2> QED BY <1>2, <1>3, <2>1, <2>2, <2>3 DEF Lines, Placed, Goes, AtExecution
<1>4. CASE /\ ~NothingToCompact /\ Room(2)
           /\ s' \in ReduceLine(s, <<f>>) /\ committed' = <<f>> /\ pc' = "admit"
           /\ job' = [job EXCEPT !.op = New(1), !.context = s.through]
  <2>1. /\ s.through \in Id /\ Source(s, s.through) \in Seq(Id)
    BY <1>4, CompactionBounds
  <2>2. New(1) \in Id /\ New(2) \in Id
    BY <1>2, <1>4, Allocates
  <2>3. f \in Facts
    BY <2>1, <2>2, CompactionFactTypes
  <2>4. f.type = "compactionStarted"
    BY DEF CompactionStarted
  <2>5. Reduces(s, s', f)
    BY <1>4, LineOne
  <2>6. Good(s') /\ s' \in State
    BY <1>2, <2>3, <2>5, GoodNext DEF Good, Sound
  <2>7. s'.operation.step = None
    BY <1>2, <2>1, <2>2, <2>5, <2>6, CompactionOpens
  <2> HIDE DEF f
  <2>8. FitsFile(s, <<f>>) /\ NoFact("stepAttempt", <<f>>)
    BY <2>3, <2>4, ShapedOne
  <2>9. Lines
    BY <1>4, <2>8, Zenon DEF Lines
  <2>10. job'.recovering = job.recovering
    BY <1>2, <1>4 DEF Job
  <2>11. PInv'
    BY <1>2, <1>4, <2>7, <2>10 DEF PInv, AttemptPlace, RecoveryPlace, Attempting
  <2> QED BY <1>2, <1>4, <2>9, <2>10, <2>11 DEF Placed, Goes, AtExecution
<1>5. CASE s' = s /\ Exit
  BY <1>5, ExitPlaced DEF Lines
<1> QED BY <1>1, <1>3, <1>4, <1>5

(* Its attempt is admitted, or it is being aborted.                         *)
LEMMA AdmitCompactionPlaced == ASSUME IInv, PInv, AdmitCompaction PROVE Lines /\ Placed
<1> DEFINE step == IF job.step = None THEN New(2) ELSE job.step
           f == StepAttempt(job.op, step, New(1), "compaction", job.number, job.context,
                            now.config)
           g == Finished("aborted", None)
<1>1. /\ pc = "admit" /\ Room(2)
      /\ \/ /\ s' \in ReduceLine(s, <<f>>) /\ committed' = <<f>>
            /\ pc' \in {"summarize", "summaryError"}
            /\ job' = [job EXCEPT !.step = step, !.attempt = New(1)]
         \/ /\ s' \in ReduceLine(s, <<g>>) /\ committed' = <<g>> /\ Return
         \/ s' = s /\ Return
         \/ s' = s /\ CompactionRefused
  BY Zenon DEF AdmitCompaction, CompactionAborted, CommitOr, Goto, Set, session
<1>2. pc \in AtCompaction /\ job \in Job /\ s \in State /\ Good(s) /\ RecoveryPlace(pc, job)
      /\ pc \notin AtExecution
  BY <1>1 DEF AtCompaction, IInv, TypeOK, FileInv, PInv, AtExecution
<1>3. job.op \in Id /\ now.config \in ConfigurationSnapshot
  BY <1>2, CompactionNow
<1>4. New(1) \in Id /\ New(2) \in Id
  BY <1>1, <1>2, Allocates
<1>5. step \in Id /\ job.context \in Id /\ job.number \in 1..2
  BY <1>1, <1>2, <1>4 DEF IInv, Job, ContextFits
<1>6. f \in Facts /\ f.type = "stepAttempt"
  BY <1>3, <1>4, <1>5, AttemptFactTypes DEF StepAttempt
<1>7. g \in Facts /\ g.type = "operationFinished" /\ g.outcome = "aborted"
  <2>1. g \in Facts
    BY <1>2, CompactionFacts1 DEF Outcome
  <2> QED BY <2>1 DEF Finished, OperationFinished
<1> HIDE DEF f, g, step
<1>8. CASE /\ s' \in ReduceLine(s, <<f>>) /\ committed' = <<f>>
           /\ pc' \in {"summarize", "summaryError"}
           /\ job' = [job EXCEPT !.step = step, !.attempt = New(1)]
  <2>1. FitsFile(s, <<f>>)
    BY <1>6, ShapedOne
  <2>2. Lines
    BY <1>1, <1>8, <2>1 DEF Lines
  <2>3. job'.recovering = job.recovering /\ job'.auto = job.auto
    BY <1>2, <1>8 DEF Job
  <2>4. pc \notin AtExecution \cup {"idle", "prompt", "compact", "start"}
    BY <1>1 DEF AtExecution
  <2>5. pc' \notin AtExecution \cup {"idle", "prompt", "compact", "start", "recover", "down",
                                     "step", "admit"}
        /\ pc' \in AtAttempt
    BY <1>8 DEF AtExecution, AtAttempt
  <2> QED BY <1>2, <2>2, <2>3, <2>4, <2>5, OnPlaced
<1>9. CASE s' \in ReduceLine(s, <<g>>) /\ committed' = <<g>> /\ Return
  <2>1. FitsFile(s, <<g>>) /\ NoFact("stepAttempt", <<g>>)
    BY <1>7, ShapedOne
  <2>2. Lines
    BY <1>9, <2>1, Zenon DEF Lines
  <2>3. Idle(s')
    BY <1>2, <1>7, <1>9, LineOne, FinishIdles
  <2> QED BY <1>2, <1>9, <2>2, <2>3, ReturnPlaced
<1>10. CASE s' = s /\ Return
  <2>1. \/ pc' = "recover" /\ job.recovering /\ job' = [NoJob EXCEPT !.recovering = TRUE]
        \/ pc' = "idle" /\ ~job.recovering /\ job' = NoJob
    BY <1>10 DEF Return, Goto, Set
  <2>2. PInv'
    BY <1>1, <1>10, <2>1 DEF PInv, AttemptPlace, RecoveryPlace, NoJob, Idle, Attempting, AtAttempt
  <2>3. ~job'.recovering => ~job.recovering
    BY <2>1 DEF NoJob
  <2> QED BY <1>1, <1>10, <2>1, <2>2, <2>3 DEF Lines, Placed, Goes, AtExecution, AtAttempt
<1>11. CASE s' = s /\ CompactionRefused
  BY <1>2, <1>11, RefusedPlaced
<1> QED BY <1>1, <1>8, <1>9, <1>10, <1>11

(* A request for a summary that failed.                                     *)
LEMMA SummaryErrorPlaced == ASSUME IInv, PInv, SummaryError PROVE Lines /\ Placed
<1> DEFINE f == AbortRequested(job.op, "compaction", "compact", None)
<1>1. /\ pc = "summaryError"
      /\ \/ /\ s' = s \/ (s' \in ReduceLine(s, <<f>>) /\ committed' = <<f>>)
            /\ pc' = "settle" /\ job' = [job EXCEPT !.summary = "error"]
         \/ s' = s /\ CompactionRefused
  BY Zenon DEF SummaryError, CommitOr, Goto, Set, session
<1>2. pc \in AtCompaction /\ job \in Job /\ RecoveryPlace(pc, job)
  BY <1>1 DEF IInv, AtCompaction, PInv
<1>3. job.op \in Id
  BY <1>2, CompactionNow
<1>4. f \in Facts /\ f.type = "abortRequested"
  BY <1>3, AbortFactTypes DEF AbortRequested
<1> HIDE DEF f
<1>5. CASE /\ s' = s \/ (s' \in ReduceLine(s, <<f>>) /\ committed' = <<f>>)
           /\ pc' = "settle" /\ job' = [job EXCEPT !.summary = "error"]
  <2>1. FitsFile(s, <<f>>) /\ NoFact("stepAttempt", <<f>>)
    BY <1>4, ShapedOne
  <2>2. Lines
    BY <1>5, <2>1, Zenon DEF Lines
  <2>3. job'.recovering = job.recovering /\ job'.auto = job.auto
    BY <1>2, <1>5 DEF Job
  <2>4. pc \notin AtExecution \cup {"idle", "prompt", "compact", "start"}
    BY <1>1 DEF AtExecution
  <2>5. pc' \notin AtExecution \cup {"idle", "prompt", "compact", "start", "recover", "down",
                                     "step", "admit"}
        /\ pc' \in AtAttempt
    BY <1>5 DEF AtExecution, AtAttempt
  <2> QED BY <1>2, <2>2, <2>3, <2>4, <2>5, OnPlaced
<1>6. CASE s' = s /\ CompactionRefused
  BY <1>2, <1>6, RefusedPlaced
<1> QED BY <1>1, <1>5, <1>6

(* The summary is appended with its usage, or the compaction fails.         *)
LEMMA SettleCompactionPlaced == ASSUME IInv, PInv, SettleCompaction PROVE Lines /\ Placed
<1> DEFINE f == UsageFact(job.op, job.attempt, 1)
           g == CompactionEntry(s.operations[job.op].result, job.op, compacted,
                                Retained(s, compacted))
           failed == StepFailed(job.op, job.step, job.attempt)
           Fails(outcome) == <<failed, Finished(outcome, None)>>
<1>1. /\ pc = "settle"
      /\ \/ /\ s' \in ReduceLine(s, Fails("aborted")) /\ committed' = Fails("aborted")
            /\ Return
         \/ /\ s' \in ReduceLine(s, <<f, g>>) /\ committed' = <<f, g>>
            /\ pc' = "finishCompaction" /\ job' = job
         \/ /\ s' \in ReduceLine(s, Fails("failed")) /\ committed' = Fails("failed")
            /\ Exit \/ (pc' = "start" /\ job' = NoJob)
         \/ s' = s /\ CompactionRefused
  BY Zenon DEF SettleCompaction, CompactionAborted, CompactionFailed, CompactionErr, CommitOr,
       Goto, Set, session
<1>2. /\ pc \in AtCompaction /\ job \in Job /\ AttemptFits(s, pc, job) /\ s \in State /\ Good(s)
      /\ RecoveryPlace(pc, job)
  BY <1>1 DEF IInv, TypeOK, AtCompaction, FileInv, PInv
<1>3. job.step \in Id /\ job.attempt \in Id
  BY <1>1, <1>2 DEF AttemptFits, AtAttempt
<1>4. /\ job.op \in Id /\ compacted \in Id /\ s.operations[job.op].result \in Id
  BY <1>2, CompactionNow
<1>5. failed \in Facts /\ failed.type = "stepFailed"
  BY <1>2, <1>3, CompactionFacts1
<1>6. ASSUME NEW outcome \in Outcome, s' \in ReduceLine(s, Fails(outcome)),
             committed' = Fails(outcome)
      PROVE  Lines /\ Idle(s')
  <2> DEFINE e == Finished(outcome, None)
  <2>1. e \in Facts /\ e.type = "operationFinished"
    BY <1>2, CompactionFacts1
  <2>2. s' \in ReduceLine(s, <<failed, e>>) /\ committed' = <<failed, e>>
    BY <1>6
  <2> HIDE DEF failed, e
  <2>3. FitsFile(s, <<failed, e>>) /\ NoFact("stepAttempt", <<failed, e>>) /\ Idle(s')
    BY <1>2, <1>5, <2>1, <2>2, FailedShape
  <2> QED BY <2>2, <2>3, Zenon DEF Lines
<1>7. "aborted" \in Outcome /\ "failed" \in Outcome
  BY DEF Outcome
<1> HIDE DEF Fails
<1>8. CASE s' \in ReduceLine(s, Fails("aborted")) /\ committed' = Fails("aborted") /\ Return
  <2>1. Lines /\ Idle(s')
    BY <1>6, <1>7, <1>8
  <2> QED BY <1>2, <1>8, <2>1, OverPlaced
<1>9. CASE /\ s' \in ReduceLine(s, Fails("failed")) /\ committed' = Fails("failed")
           /\ Exit \/ (pc' = "start" /\ job' = NoJob)
  <2>1. Lines /\ Idle(s')
    BY <1>6, <1>7, <1>9
  <2> QED BY <1>2, <1>9, <2>1, OverPlaced
<1>10. CASE /\ s' \in ReduceLine(s, <<f, g>>) /\ committed' = <<f, g>>
            /\ pc' = "finishCompaction" /\ job' = job
  <2>1. Retained(s, compacted) \in Seq(Id)
    <3>1. s.transcript \in Seq(Id)
      BY <1>2, Fields
    <3>2. /\ Through(s, compacted) \in 0..Len(s.transcript)
          /\ Through(s, s.operation.input) \in 0..Len(s.transcript)
      BY <1>2, ThroughType
    <3> QED BY <3>1, <3>2 DEF Retained
  <2>2. f \in Facts /\ g \in Facts
    BY <1>2, <1>3, <1>4, <2>1, CompactionFacts1, SummaryFactTypes
  <2>3. f.type = "usage" /\ g.type = "compaction" /\ f.op = s.operation.id /\ ~Idle(s)
    <3>1. f.type = "usage" /\ g.type = "compaction" /\ f.op = job.op
      BY DEF UsageFact, CompactionEntry
    <3> QED BY <1>2, <3>1, CompactionNow
  <2> HIDE DEF f, g
  <2>4. FitsFile(s, <<f, g>>) /\ NoFact("stepAttempt", <<f, g>>)
    BY <2>2, <2>3, ShapedTwo DEF Starts
  <2>5. Lines
    BY <1>10, <2>4, Zenon DEF Lines
  <2>6. PICK m : Reduces(s, m, f) /\ Reduces(m, s', g)
    BY <1>10, LineTwo
  <2>7. Good(m)
    BY <1>2, <2>2, <2>6, GoodNext
  <2>8. ~Attempting(s')
    BY <2>2, <2>3, <2>6, <2>7, SummaryIsCurrent DEF Unsettled, Attempting
  <2>9. pc \notin AtExecution \cup {"idle", "prompt", "compact", "start"}
    BY <1>1 DEF AtExecution
  <2>10. pc' \notin AtExecution \cup {"idle", "prompt", "compact", "start", "recover", "down",
                                      "step", "admit"}
    BY <1>10 DEF AtExecution
  <2>11. job' = job
    BY <1>10
  <2> QED BY <1>2, <2>5, <2>8, <2>9, <2>10, <2>11, OnPlaced
<1>11. CASE s' = s /\ CompactionRefused
  BY <1>2, <1>11, RefusedPlaced
<1> QED BY <1>1, <1>8, <1>9, <1>10, <1>11

(* A compaction with a summary is completed.                                *)
LEMMA FinishCompactionPlaced == ASSUME IInv, PInv, FinishCompaction PROVE Lines /\ Placed
<1> DEFINE f == Finished("completed", s.operations[job.op].result)
<1>1. /\ pc = "finishCompaction"
      /\ \/ /\ s' \in ReduceLine(s, <<f>>) /\ committed' = <<f>>
            /\ Return \/ (pc' = "start" /\ job' = NoJob)
         \/ s' = s /\ CompactionRefused
  BY Zenon DEF FinishCompaction, CompactionOk, CommitOr, Goto, Set, session
<1>2. pc \in AtCompaction /\ Good(s) /\ RecoveryPlace(pc, job)
  BY <1>1 DEF AtCompaction, IInv, FileInv, PInv
<1>3. f \in Facts /\ f.type = "operationFinished"
  BY <1>2, CompactionNow, CompactionFacts1 DEF Outcome
<1>4. ~Attempting(s)
  BY <1>1, <1>2, NoneAttempts, CompactionNow DEF AtAttempt
<1> HIDE DEF f
<1>5. CASE /\ s' \in ReduceLine(s, <<f>>) /\ committed' = <<f>>
           /\ Return \/ (pc' = "start" /\ job' = NoJob)
  <2>1. FitsFile(s, <<f>>) /\ NoFact("stepAttempt", <<f>>) /\ Idle(s')
    BY <1>2, <1>3, <1>4, <1>5, FinishedShape
  <2>2. Lines
    BY <1>5, <2>1, Zenon DEF Lines
  <2> QED BY <1>2, <1>5, <2>1, <2>2, OverPlaced
<1>6. CASE s' = s /\ CompactionRefused
  BY <1>2, <1>6, RefusedPlaced
<1> QED BY <1>1, <1>5, <1>6

(* The recovery loop goes round after a line.                               *)
LEMMA AgainPlaced ==
  ASSUME IInv, PInv, pc = "recover", s' \in ReduceLine(s, committed'), FitsFile(s, committed'),
         NoFact("stepAttempt", committed'), Again
  PROVE  Lines /\ Placed
<1>1. pc' = "recover" /\ job' = job
  BY DEF Again
<1>2. PInv'
  BY <1>1 DEF PInv, AttemptPlace, RecoveryPlace
<1> QED BY <1>1, <1>2 DEF Lines, Placed, Goes, AtExecution, AtAttempt

(* Recovery closes the attempt that was left open,                          *)
LEMMA RecoverClosePlaced == ASSUME IInv, PInv, RecoverCloseAttempt PROVE Lines /\ Placed
<1> DEFINE f == StepFailed(s.operation.id, CurrentStep, s.operation.step.attempt)
<1>1. /\ pc = "recover" /\ ~Idle(s) /\ RecoveryPlan.type = "closeAttempt"
      /\ \/ s' \in ReduceLine(s, <<f>>) /\ committed' = <<f>> /\ Again
         \/ s' = s /\ Exit
  BY Zenon DEF RecoverCloseAttempt, Recovers, Commit, CommitOr, session
<1>2. /\ s \in State /\ Sound(s) /\ PlanFits(s, now, RecoveryPlan) /\ s.operation.id \in Id
  BY <1>1, RecoveryNow
<1>3. s.operation.step # None
  BY <1>1, <1>2 DEF PlanFits
<1>4. s.operation.step.attempt \in Id /\ CurrentStep \in Id
  BY <1>1, <1>2, <1>3, CurrentTypes, StepTypes DEF CurrentStep
<1>5. f \in Facts /\ f.type = "stepFailed"
  BY <1>2, <1>4, FailureFactTypes DEF StepFailed
<1> HIDE DEF f
<1>6. CASE s' \in ReduceLine(s, <<f>>) /\ committed' = <<f>> /\ Again
  <2>1. FitsFile(s, <<f>>) /\ NoFact("stepAttempt", <<f>>)
    BY <1>5, ShapedOne
  <2>2. FitsFile(s, committed') /\ NoFact("stepAttempt", committed')
        /\ s' \in ReduceLine(s, committed')
    BY <1>6, <2>1, Zenon
  <2> QED BY <1>1, <1>6, <2>2, AgainPlaced
<1>7. CASE s' = s /\ Exit
  BY <1>7, ExitPlaced DEF Lines
<1> QED BY <1>1, <1>6, <1>7

(* or finishes the operation.                                               *)
LEMMA RecoverFinishPlaced == ASSUME IInv, PInv, RecoverFinish PROVE Lines /\ Placed
<1> DEFINE f == OperationFinished(s.operation.id, s.operation.kind, RecoveryPlan.outcome,
                                  RecoveryPlan.final)
<1>1. /\ pc = "recover" /\ ~Idle(s) /\ RecoveryPlan.type = "finish"
      /\ \/ s' \in ReduceLine(s, <<f>>) /\ committed' = <<f>> /\ Again
         \/ s' = s /\ Exit
  BY Zenon DEF RecoverFinish, Recovers, Commit, CommitOr, session
<1>2. /\ PlanFits(s, now, RecoveryPlan) /\ Good(s)
      /\ s.operation.id \in Id /\ s.operation.kind \in {"run", "compaction"}
  BY <1>1, RecoveryNow
<1>3. RecoveryPlan.outcome \in Outcome /\ RecoveryPlan.final \in Id \cup {None}
  BY <1>1, <1>2 DEF PlanFits
<1>4. f \in Facts /\ f.type = "operationFinished"
  BY <1>2, <1>3, FinishFactTypes DEF OperationFinished
<1>5. ~Attempting(s)
  BY <1>1, PlanFinishesSettled DEF RecoveryPlan
<1> HIDE DEF f
<1>6. CASE s' \in ReduceLine(s, <<f>>) /\ committed' = <<f>> /\ Again
  <2>1. FitsFile(s, <<f>>) /\ NoFact("stepAttempt", <<f>>)
    BY <1>4, <1>5, ShapedOne
  <2>2. FitsFile(s, committed') /\ NoFact("stepAttempt", committed')
        /\ s' \in ReduceLine(s, committed')
    BY <1>6, <2>1, Zenon
  <2> QED BY <1>1, <1>6, <2>2, AgainPlaced
<1>7. CASE s' = s /\ Exit
  BY <1>7, ExitPlaced DEF Lines
<1> QED BY <1>1, <1>6, <1>7

(* The results for calls that will not be executed.                         *)
LEMMA RecoverSyntheticPlaced == ASSUME IInv, PInv, RecoverSynthetic PROVE Lines /\ Placed
<1> DEFINE results == RecoveryPlan.results
           Fact(n) ==
             IF "tool" \in DOMAIN results[n]
               THEN Result(results[n].tool)
               ELSE SyntheticToolResult(New(n), CurrentStep, SettledEntry(s),
                      results[n].index, LastCalls(s)[results[n].index])
           facts == [n \in DOMAIN results |-> Fact(n)]
<1>1. /\ pc = "recover" /\ ~Idle(s) /\ RecoveryPlan.type = "appendSynthetic"
      /\ Room(Len(results))
      /\ \/ s' \in ReduceLine(s, facts) /\ committed' = facts /\ Again
         \/ s' = s /\ Exit
  BY Zenon DEF RecoverSynthetic, Recovers, Commit, CommitOr, session
<1>2. s \in State /\ Good(s) /\ PlanFits(s, now, RecoveryPlan)
  BY <1>1, RecoveryNow
<1>3. HasCalls(s) /\ ResultsFit(s, results)
  BY <1>1, <1>2 DEF PlanFits
<1>4. /\ Len(results) \in Nat /\ DOMAIN results = 1..Len(results)
      /\ \A n \in DOMAIN results : ResultFits(s, results[n])
  BY <1>3 DEF ResultsFit
<1>5. /\ s.operation.kind = "run" /\ CurrentStep \in Id /\ SettledEntry(s) \in Id
      /\ Callers(s) # {}
  BY <1>1, <1>2, <1>3, HasCallsTypes DEF CurrentStep
<1>6. LastCalls(s) \in Seq(Call) /\ DOMAIN LastCalls(s) = 1..Len(LastCalls(s))
  BY <1>2, <1>5, CallerTypes
<1>7. ASSUME NEW n \in 1..Len(results) PROVE Fact(n) \in Ending
  <2> HIDE DEF results
  <2>1. ResultFits(s, results[n]) /\ New(n) \in Id
    BY <1>1, <1>2, <1>4, Allocates
  <2>2. CASE "tool" \in DOMAIN results[n]
    <3>1. Result(results[n].tool) \in Facts
      BY <1>2, <2>1, <2>2, ResultFactTypes DEF ResultFits
    <3>2. Result(results[n].tool).type = "result"
      BY DEF Result, ToolResult
    <3> QED BY <2>2, <3>1, <3>2 DEF Closing, Ending, Starts
  <2>3. CASE "tool" \notin DOMAIN results[n]
    <3>1. results[n].index \in DOMAIN LastCalls(s)
      BY <2>1, <2>3 DEF ResultFits
    <3>2. results[n].index \in Nat /\ LastCalls(s)[results[n].index] \in Call
      BY <1>6, <3>1
    <3> DEFINE g == SyntheticToolResult(New(n), CurrentStep, SettledEntry(s),
                      results[n].index, LastCalls(s)[results[n].index])
    <3>3. g \in Facts
      BY <1>5, <2>1, <3>2, SyntheticFactTypes
    <3>4. g.type = "synthetic"
      BY DEF SyntheticToolResult
    <3> QED BY <2>3, <3>3, <3>4 DEF Closing, Ending, Starts
  <2> QED BY <2>2, <2>3
<1>8. facts \in Seq(Ending)
  <2> HIDE DEF results
  <2>1. facts = [n \in 1..Len(results) |-> Fact(n)]
    BY <1>4, Zenon
  <2> HIDE DEF Fact, facts
  <2>2. facts \in [1..Len(results) -> Ending]
    BY <1>7, <2>1
  <2> QED BY <1>4, <2>2
<1> HIDE DEF facts
<1>9. CASE s' \in ReduceLine(s, facts) /\ committed' = facts /\ Again
  <2>1. FitsFile(s, facts) /\ NoFact("stepAttempt", facts)
    BY <1>8, ShapedMany
  <2>2. FitsFile(s, committed') /\ NoFact("stepAttempt", committed')
        /\ s' \in ReduceLine(s, committed')
    BY <1>9, <2>1, Zenon
  <2> QED BY <1>1, <1>9, <2>2, AgainPlaced
<1>10. CASE s' = s /\ Exit
  BY <1>10, ExitPlaced DEF Lines
<1> QED BY <1>1, <1>9, <1>10

(* Recovery starts a call that was not started.                             *)
LEMMA RecoverStartPlaced == ASSUME IInv, PInv, RecoverStart PROVE Lines /\ Placed
<1> DEFINE k == RecoveryPlan.index
           call == LastCalls(s)[k]
           f == ToolStarted(New(1), s.operation.id, CurrentStep, SettledEntry(s), k, call,
                            now.replay[call.name], now.key[call.name], now.env, New(2))
<1>1. /\ pc = "recover" /\ ~Idle(s) /\ RecoveryPlan.type = "startTool"
      /\ RecoveryPlan.mode = "start" /\ Room(2)
      /\ \/ s' = s /\ Exit
         \/ /\ s' \in ReduceLine(s, <<f>>) /\ committed' = <<f>> /\ pc' = "execute"
            /\ job' = [Recovering EXCEPT !.tool = New(1), !.direct = TRUE]
  BY Zenon DEF RecoverStart, Recovers, Commit, CommitOr, Goto, Set, session
<1>2. /\ s \in State /\ Good(s) /\ PlanFits(s, now, RecoveryPlan)
      /\ s.operation.id \in Id /\ now \in Setups /\ job.recovering
  BY <1>1, RecoveryNow
<1>3. HasCalls(s) /\ k \in DOMAIN LastCalls(s)
  BY <1>1, <1>2 DEF PlanFits
<1>4. /\ s.operation.kind = "run" /\ CurrentStep \in Id /\ SettledEntry(s) \in Id
      /\ Callers(s) # {}
  BY <1>1, <1>2, <1>3, HasCallsTypes DEF CurrentStep
<1>5. k \in Nat /\ call \in Call
  BY <1>2, <1>3, <1>4, CallerTypes
<1>6. New(1) \in Id /\ New(2) \in Id
  <2>1. s \in State /\ Room(2)
    BY <1>1, <1>2
  <2> QED BY <2>1, Allocates
<1>7. f \in Facts
  BY <1>2, <1>4, <1>5, <1>6, ToolFactTypes
<1>8. f.type = "toolStarted"
  BY DEF ToolStarted
<1>9. ~Attempting(s)
  BY <1>1, PlanStartsSettled DEF RecoveryPlan
<1>10. RecoveryPlace(pc, job) /\ ~job.auto
  BY <1>2 DEF PInv, RecoveryPlace
<1> HIDE DEF f
<1>11. CASE /\ s' \in ReduceLine(s, <<f>>) /\ committed' = <<f>> /\ pc' = "execute"
            /\ job' = [Recovering EXCEPT !.tool = New(1), !.direct = TRUE]
  <2>1. FitsFile(s, <<f>>) /\ NoFact("stepAttempt", <<f>>)
    BY <1>7, <1>8, ShapedOne
  <2>2. Lines
    BY <1>11, <2>1, Zenon DEF Lines
  <2>3. StepKept(s, s')
    <3>1. Reduces(s, s', f)
      BY <1>11, LineOne
    <3>2. Sound(s) /\ Ledger(s) /\ FactDoes(s, s', f)
      BY <1>2, <1>7, <3>1, FactCases DEF Good, Sound
    <3> QED BY <1>7, <1>8, <3>2, FactStep DEF Steady
  <2>4. ~Attempting(s')
    BY <1>1, <1>9, <2>3, NoneAttemptsStays
  <2>5. job'.recovering /\ ~job'.auto
    BY <1>11 DEF Recovering, NoJob
  <2>6. pc \notin AtExecution \cup {"idle", "prompt", "compact", "start"}
    BY <1>1 DEF AtExecution
  <2>7. pc' \notin AtExecution \cup {"idle", "prompt", "compact", "start", "recover", "down",
                                     "step", "admit"}
    BY <1>11 DEF AtExecution
  <2>8. job'.recovering = job.recovering /\ job'.auto = job.auto
    <3>1. job'.recovering = TRUE /\ job'.auto = FALSE
      BY <1>11 DEF Recovering, NoJob
    <3>2. job.recovering \in BOOLEAN /\ job.auto \in BOOLEAN
      BY DEF IInv, Job
    <3> QED BY <1>2, <1>10, <3>1, <3>2
  <2> QED BY <1>10, <2>2, <2>4, <2>6, <2>7, <2>8, OnPlaced
<1>12. CASE s' = s /\ Exit
  BY <1>12, ExitPlaced DEF Lines
<1> QED BY <1>1, <1>11, <1>12

(* The terminal thread asks for an abort.                                   *)
LEMMA RequestPlaced == ASSUME IInv, PInv, Request PROVE Lines /\ Placed
<1> DEFINE f == AbortRequested(s.operation.id, s.operation.kind, Phase, RequestedCall)
<1>1. /\ user = "request" /\ pc' = pc /\ job' = job
      /\ \/ s' = s
         \/ ~Idle(s) /\ s' \in ReduceLine(s, <<f>>) /\ committed' = <<f>>
  BY DEF Request, session
<1>2. UserFits(pc, job, user) /\ s \in State /\ FileInv(s) /\ Good(s)
  BY DEF IInv, TypeOK, FileInv
<1>3. ~job.recovering /\ pc # "down" /\ pc # "recover"
  BY <1>1, <1>2 DEF UserFits
<1>4. CASE s' = s
  <2>1. PInv'
    BY <1>1, <1>4 DEF PInv, AttemptPlace, RecoveryPlace, Idle, Attempting
  <2> QED BY <1>1, <1>3, <1>4, <2>1 DEF Lines, Placed, Goes, AtExecution
<1>5. CASE ~Idle(s) /\ s' \in ReduceLine(s, <<f>>) /\ committed' = <<f>>
  <2>1. s.operation.id \in Id /\ s.operation.kind \in {"run", "compaction"}
    BY <1>2, <1>5, CurrentTypes DEF Good, Sound
  <2>2. Phase \in {"model", "tool", "compact"} /\ RequestedCall \in CallId \cup {None}
    BY <1>2, RequestedCallType DEF Phase
  <2>3. f \in Facts
    BY <2>1, <2>2, AbortFactTypes
  <2>4. f.type = "abortRequested"
    BY DEF AbortRequested
  <2> HIDE DEF f
  <2>5. FitsFile(s, <<f>>) /\ NoFact("stepAttempt", <<f>>)
    BY <2>3, <2>4, ShapedOne
  <2>6. Lines
    BY <1>5, <2>5, Zenon DEF Lines
  <2>7. FileStep(s, s') /\ Keeps(s, s', {f})
    BY <1>2, <1>5, <2>3, <2>4, PlainOne
  <2>8. StepKept(s, s') /\ s'.tools = s.tools
    BY <2>4, <2>7, OneKeeps DEF Steady, Keeps
  <2>9. ~Idle(s') /\ Attempting(s') => ~Idle(s) /\ Attempting(s)
    BY <1>5, <2>8, NoneAttemptsStays
  <2>10. PInv'
    BY <1>1, <2>9, Zenon DEF PInv, AttemptPlace, RecoveryPlace
  <2>11. Goes
    BY <1>1, <1>3, <2>8 DEF Goes
  <2> QED BY <2>6, <2>10, <2>11 DEF Placed
<1> QED BY <1>1, <1>4, <1>5

(* A new process recovers.                                                  *)
LEMMA RestartPlaced == ASSUME Restart PROVE Lines /\ Placed
<1>1. s' = s /\ pc = "down" /\ pc' = "recover" /\ job' = [NoJob EXCEPT !.recovering = TRUE]
  BY DEF Restart, Goto, Set, file, session
<1>2. job'.recovering /\ ~job'.auto
  BY <1>1 DEF NoJob
<1>3. PInv'
  BY <1>1, <1>2 DEF PInv, AttemptPlace, RecoveryPlace
<1> QED BY <1>1, <1>2, <1>3 DEF Lines, Placed, Goes, AtExecution, AtAttempt

(* Every step appends a line that fits the file, and goes on as the         *)
(* observers need it to.                                                    *)
LEMMA NextPlaced == ASSUME IInv, PInv, Next PROVE Lines /\ Placed
<1>1. CASE Run
  BY <1>1, AutoCompactPlaced, StartRunPlaced, AdmitStepPlaced, CallModelPlaced,
     ModelErrorPlaced, AbortClosePlaced, SettleStepPlaced, FinishRunPlaced DEF Run
<1>2. CASE Tools
  BY <1>2, NextStepPlaced, PreExecutionPlaced, StartToolPlaced, CheckStartedPlaced,
     ExecutePlaced, ToolReturnsPlaced, ToolAbortPlaced, AppendResultPlaced, ToolAbortedPlaced
     DEF Tools
<1>3. CASE Compact
  BY <1>3, StartCompactionPlaced, AdmitCompactionPlaced, SummarizePlaced, SummaryErrorPlaced,
     SettleCompactionPlaced, FinishCompactionPlaced DEF Compact
<1>4. CASE Recover
  BY <1>4, RecoveryDonePlaced, LeavesPlaced, RecoverClosePlaced, RecoverSyntheticPlaced,
     RecoverReplayPlaced, RecoverStartPlaced, RecoverStepPlaced, RecoverFinishPlaced
     DEF Recover
<1>5. CASE TakePrompt \/ Esc \/ Terminal \/ Crash \/ Quit \/ Restart
  BY <1>5, TakePromptPlaced, UserPlaced, RequestPlaced, LeavesPlaced, RestartPlaced
     DEF Terminal
<1> QED BY <1>1, <1>2, <1>3, <1>4, <1>5 DEF Next, Worker

-----------------------------------------------------------------------------
(* The life of a process *)

LeftInv == left \in [prompts: Nat, escs: Nat, crashes: Nat]

(* Only a prompt, Esc and a crash use up a bound.                           *)
LEMMA WorkerLeaves == ASSUME Worker \/ Terminal \/ Quit \/ Restart PROVE left' = left
<1>1. CASE Run
  BY <1>1, Zenon DEF Run, AutoCompact, StartRun, AdmitStep, CallModel, ModelError, AbortClose,
     SettleStep, FinishRun
<1>2. CASE Tools
  BY <1>2, Zenon DEF Tools, NextStep, PreExecutionResult, StartTool, CheckStarted, Execute,
     ToolReturns, ToolAbort, AppendResult, ToolAborted
<1>3. CASE Compact
  BY <1>3, Zenon DEF Compact, StartCompaction, AdmitCompaction, Summarize, SummaryError,
     SettleCompaction, FinishCompaction
<1>4. CASE Recover
  BY <1>4, Zenon DEF Recover, RecoveryDone, RecoveryBlocked, RecoverCloseAttempt,
     RecoverSynthetic, RecoverReplay, RecoverStart, RecoverStep, RecoverFinish
<1>5. CASE Terminal \/ Quit \/ Restart
  BY <1>5, Zenon DEF Terminal, Request, Cancel, Quit, Restart
<1> QED BY <1>1, <1>2, <1>3, <1>4, <1>5 DEF Worker

(* A process that has crashed left the file as it was.                      *)
LEMMA LeftStays ==
  ASSUME LeftInv, Next
  PROVE  LeftInv' /\ (Died => s' = s /\ pc' = "down")
<1>1. CASE Worker \/ Terminal \/ Quit \/ Restart
  BY <1>1, WorkerLeaves DEF LeftInv, Died
<1>2. CASE TakePrompt \/ Esc
  <2>1. \/ left' = [left EXCEPT !.prompts = @ - 1] /\ left.prompts > 0
        \/ left' = [left EXCEPT !.escs = @ - 1] /\ left.escs > 0
    BY <1>2 DEF TakePrompt, Esc
  <2> QED BY <2>1 DEF LeftInv, Died
<1>3. CASE Crash
  <2>1. left' = [left EXCEPT !.crashes = @ - 1] /\ left.crashes > 0 /\ s' = s /\ pc' = "down"
    BY <1>3 DEF Crash, Exit, file, session
  <2> QED BY <2>1 DEF LeftInv
<1> QED BY <1>1, <1>2, <1>3 DEF Next

(* Without a process there is nothing but the start of one.                 *)
LEMMA DownStarts ==
  ASSUME IInv, Next, pc = "down"
  PROVE  s' = s /\ pc' = "recover" /\ job' = [NoJob EXCEPT !.recovering = TRUE]
<1>1. ~Run
  BY Zenon DEF Run, AutoCompact, StartRun, AdmitStep, CallModel, ModelError, AbortClose,
     SettleStep, FinishRun
<1>2. ~Tools
  BY Zenon DEF Tools, NextStep, PreExecutionResult, StartTool, CheckStarted, Execute,
     ToolReturns, ToolAbort, AppendResult, ToolAborted
<1>3. ~Compact
  BY Zenon DEF Compact, StartCompaction, AdmitCompaction, Summarize, SummaryError,
     SettleCompaction, FinishCompaction
<1>4. ~Recover
  BY Zenon DEF Recover, RecoveryDone, RecoveryBlocked, RecoverCloseAttempt, Recovers,
     RecoverSynthetic, RecoverReplay, RecoverStart, RecoverStep, RecoverFinish
<1>5. ~Terminal
  <2>1. user = "idle"
    BY DEF IInv, UserFits
  <2> QED BY <2>1 DEF Terminal, Request, Cancel
<1>6. ~TakePrompt /\ ~Esc /\ ~Crash /\ ~Quit
  BY DEF TakePrompt, Esc, Crash, Quit
<1>7. Restart
  BY <1>1, <1>2, <1>3, <1>4, <1>5, <1>6 DEF Next, Worker
<1> QED BY <1>7 DEF Restart, Goto, Set, file, session

-----------------------------------------------------------------------------
(* The end of a process *)

(* The end of a model or tool that is still open.                           *)
Lost == [type: {"model.completed", "tool.completed"}, id: Id, outcome: {"effect_unknown"}]

(* A finite set as a sequence.                                              *)
LEMMA ToSequence == ASSUME NEW S, IsFiniteSet(S) PROVE L!SetToSeq(S) \in Seq(S)
<1>1. Cardinality(S) \in Nat /\ ExistsBijection(1..Cardinality(S), S)
  BY FS_CardinalityType
<1>2. \E at \in [1..Cardinality(S) -> S] : IsInjective(at)
  BY <1>1, Zenon DEF ExistsBijection, Bijection, Injection
<1>3. L!SetToSeq(S) \in [1..Cardinality(S) -> S]
  BY <1>2, Zenon DEF L!SetToSeq, L!Cardinality, Cardinality, L!IsInjective, IsInjective
<1> QED BY <1>1, <1>3

(* What is still held is told of last.                                      *)
LEMMA ClosedTold ==
  ASSUME NEW l \in L!Life, NEW ev, Sequence(ev)
  PROVE  \E lost \in Seq(Lost) : L!Closed(Told(l, ev)).events = ev \o lost
<1> DEFINE Unknown(type, held) ==
             {[type |-> type, id |-> i, outcome |-> "effect_unknown"] :
                i \in {k \in Id : held[k] # None}}
           A == Unknown("model.completed", l.models)
           B == Unknown("tool.completed", l.tools)
<1>1. IsFiniteSet(A) /\ IsFiniteSet(B)
  <2>1. ASSUME NEW type, NEW held PROVE IsFiniteSet(Unknown(type, held))
    <3> DEFINE H == {k \in Id : held[k] # None}
               told == [i \in H |-> [type |-> type, id |-> i, outcome |-> "effect_unknown"]]
    <3>1. IsFiniteSet(H)
      BY BoundsAssumption, FS_Subset
    <3>2. Unknown(type, held) = {told[i] : i \in H}
      OBVIOUS
    <3> HIDE DEF H
    <3>3. told \in Surjection(H, {told[i] : i \in H})
      BY Zenon DEF Surjection
    <3> HIDE DEF told, Unknown
    <3> QED BY <3>1, <3>2, <3>3, FS_Surjection
  <2> HIDE DEF Unknown
  <2> QED BY <2>1
<1>2. A \subseteq Lost /\ B \subseteq Lost
  BY DEF Lost
<1>3. L!Closed(Told(l, ev)).events = ev \o L!SetToSeq(A) \o L!SetToSeq(B)
  BY Zenon DEF L!Closed, Told
<1> HIDE DEF A, B
<1>4. L!SetToSeq(A) \in Seq(Lost) /\ L!SetToSeq(B) \in Seq(Lost)
  BY <1>1, <1>2, ToSequence
<1> DEFINE a == L!SetToSeq(A)
           b == L!SetToSeq(B)
<1> HIDE DEF a, b
<1>5. PICK S : ev \in Seq(S)
  BY DEF Sequence
<1>6. a \o b \in Seq(Lost) /\ ev \o a \o b = ev \o (a \o b)
  <2> DEFINE U == S \cup Lost
  <2>1. ev \in Seq(U) /\ a \in Seq(U) /\ b \in Seq(U) /\ a \in Seq(Lost) /\ b \in Seq(Lost)
    BY <1>4, <1>5 DEF a, b
  <2> HIDE DEF U
  <2> QED BY <2>1
<1>7. L!Closed(Told(l, ev)).events = ev \o (a \o b)
  BY <1>3, <1>6 DEF a, b
<1> QED BY <1>6, <1>7

(* The spans that were not open stay as they were.                          *)
CutOff(sp, sp1) ==
  \A kind \in {"models", "tools"} : \A i \in Id :
    \/ sp1[kind][i] = sp[kind][i]
    \/ /\ L!IsOpen(sp[kind][i])
       /\ sp1[kind][i] # None /\ sp1[kind][i].end = "effect_unknown"

(* One end,                                                                 *)
LEMMA LostRecorded ==
  ASSUME NEW sp \in L!Spans, NEW e \in Lost, NEW sp1, sp1 = L!Record(sp, e)
  PROVE  sp1 \in L!Spans /\ CutOff(sp, sp1)
<1>1. PICK kind \in {"models", "tools"} : sp1 = L!End(kind, sp, e)
  BY DEF Lost, L!Record
<1>2. e.id \in Id /\ e.outcome = "effect_unknown" /\ "effect_unknown" \in L!Ends
  BY DEF Lost, L!Ends
<1>3. CASE ~L!IsOpen(sp[kind][e.id])
  <2>1. sp1 = sp
    BY <1>1, <1>3 DEF L!End
  <2> QED BY <2>1 DEF CutOff
<1>4. CASE L!IsOpen(sp[kind][e.id])
  <2>1. /\ sp1 \in L!Spans /\ OneSpan(kind, sp, sp1, e.id)
        /\ sp1[kind][e.id] # None /\ sp1[kind][e.id].end = e.outcome
    BY <1>1, <1>2, <1>4, OpenEndRecorded
  <2> QED BY <1>2, <1>4, <2>1 DEF CutOff, OneSpan
<1> QED BY <1>3, <1>4

(* and all of them.                                                         *)
LEMMA LostAll ==
  ASSUME NEW sp, NEW ev, Sequence(ev), L!RecordAll(sp, ev) \in L!Spans, NEW lost \in Seq(Lost)
  PROVE  /\ L!RecordAll(sp, ev \o lost) \in L!Spans
         /\ CutOff(L!RecordAll(sp, ev), L!RecordAll(sp, ev \o lost))
<1>1. PICK S : ev \in Seq(S)
  BY DEF Sequence
<1> DEFINE U == S \cup Lost
           after == ev \o lost
           k == Len(ev)
           m == Len(lost)
           sp1 == L!RecordAll(sp, ev)
<1>2. /\ ev \in Seq(U) /\ k \in Nat /\ m \in Nat /\ after \in Seq(U) /\ Len(after) = k + m
      /\ \A n \in 1..k : after[n] = ev[n]
      /\ \A n \in 1..m : after[k + n] = lost[n] /\ lost[n] \in Lost
  <2>1. ev \in Seq(U) /\ lost \in Seq(U)
    BY <1>1
  <2> HIDE DEF U
  <2> QED BY <2>1
<1> HIDE DEF U, after, k, m
<1>3. PICK h : RecordTrace(sp, sp1, ev, h)
  BY <1>2, RecordFold DEF k
<1>4. PICK g : RecordTrace(sp, L!RecordAll(sp, after), after, g)
  <2>1. Len(after) \in Nat
    BY <1>2
  <2> QED BY <2>1, RecordFold
<1>5. RecordTrace(sp, g[k], ev, g)
  <2>1. \A n \in 1..k : g[n] = L!Record(g[n - 1], ev[n])
    <3> TAKE n \in 1..k
    <3>1. n \in 1..Len(after) /\ after[n] = ev[n]
      BY <1>2
    <3>2. g[n] = L!Record(g[n - 1], after[n])
      BY <1>4, <3>1, Zenon DEF RecordTrace
    <3> QED BY <3>1, <3>2
  <2>2. g[0] = sp
    BY <1>4 DEF RecordTrace
  <2> QED BY <2>1, <2>2, Zenon DEF RecordTrace, k
<1>6. g[k] = sp1
  BY <1>2, <1>3, <1>5, RecordUnique DEF k
<1> HIDE DEF sp1
<1>7. sp1 \in L!Spans
  BY DEF sp1
<1> DEFINE T == {n \in Nat : n <= m => g[k + n] \in L!Spans /\ CutOff(sp1, g[k + n])}
<1>8. 0 \in T
  <2>1. k + 0 = k
    BY <1>2
  <2> QED BY <1>6, <1>7, <2>1 DEF CutOff
<1>9. ASSUME NEW n \in T PROVE n + 1 \in T
  <2> SUFFICES ASSUME n + 1 <= m
               PROVE  g[k + (n + 1)] \in L!Spans /\ CutOff(sp1, g[k + (n + 1)])
    OBVIOUS
  <2>1. /\ k + (n + 1) \in 1..Len(after) /\ (k + (n + 1)) - 1 = k + n /\ n + 1 \in 1..m
        /\ g[k + n] \in L!Spans /\ CutOff(sp1, g[k + n])
    BY <1>2
  <2>2. g[k + (n + 1)] = L!Record(g[(k + (n + 1)) - 1], after[k + (n + 1)])
    BY <1>4, <2>1, Zenon DEF RecordTrace
  <2>3. after[k + (n + 1)] \in Lost
    BY <1>2, <2>1
  <2> DEFINE x == g[k + n]
             y == g[k + (n + 1)]
             e == after[k + (n + 1)]
  <2>4. y = L!Record(x, e) /\ e \in Lost /\ x \in L!Spans /\ CutOff(sp1, x)
    BY <2>1, <2>2, <2>3
  <2> HIDE DEF x, y, e
  <2>5. y \in L!Spans /\ CutOff(x, y)
    BY <2>4, LostRecorded
  <2>6. CutOff(sp1, y)
    <3>1. "effect_unknown" # None
      BY ObserversAssumption DEF L!Ends
    <3> QED BY <2>4, <2>5, <3>1 DEF CutOff, L!IsOpen
  <2> QED BY <2>5, <2>6 DEF y
<1>10. Nat \subseteq T
  <2> HIDE DEF T
  <2> QED BY <1>8, <1>9, SetInduction DEF T
<1>11. g[k + m] \in L!Spans /\ CutOff(sp1, g[k + m])
  <2>1. m <= m
    BY <1>2
  <2>2. m \in T
    <3> HIDE DEF T
    <3> QED BY <1>2, <1>10
  <2> QED BY <2>1, <2>2, Zenon
<1>12. g[k + m] = L!RecordAll(sp, after)
  <2>1. g[Len(after)] = L!RecordAll(sp, after)
    BY <1>4, Zenon DEF RecordTrace
  <2> QED BY <1>2, <2>1
<1> QED BY <1>11, <1>12 DEF after, sp1

(* What is left open dangles.                                               *)
LEMMA DanglingCut ==
  ASSUME NEW sp \in L!Spans
  PROVE  CutOff(sp, L!FinishDangling(sp))
<1> SUFFICES ASSUME NEW kind \in {"models", "tools"}, NEW i \in Id
             PROVE  \/ L!FinishDangling(sp)[kind][i] = sp[kind][i]
                    \/ /\ L!IsOpen(sp[kind][i])
                       /\ L!FinishDangling(sp)[kind][i] # None
                       /\ L!FinishDangling(sp)[kind][i].end = "effect_unknown"
  BY DEF CutOff
<1>1. kind \in DOMAIN sp /\ sp[kind][i] \in L!Span \cup {None}
  BY DEF L!Spans
<1>2. L!FinishDangling(sp)[kind][i] = IF L!IsOpen(sp[kind][i])
                                        THEN [sp[kind][i] EXCEPT !.end = "effect_unknown"]
                                        ELSE sp[kind][i]
  BY <1>1, Zenon DEF L!FinishDangling
<1> DEFINE span == [sp[kind][i] EXCEPT !.end = "effect_unknown"]
<1>3. L!IsOpen(sp[kind][i]) => span \in L!Span /\ span.end = "effect_unknown"
  BY <1>1 DEF L!IsOpen, L!Span, L!Ends
<1> HIDE DEF span
<1>4. L!IsOpen(sp[kind][i]) => span # None /\ span.end = "effect_unknown"
  BY <1>3, ObserversAssumption
<1> QED BY <1>2, <1>4 DEF span

(* How the spans ended, for any file.                                       *)
TrueEnds(t, sp) ==
  /\ \A a \in Id : sp.models[a] # None =>
       CASE sp.models[a].end = "succeeded" -> t.attempts[a].settled # None
         [] sp.models[a].end = "failed" ->
              t.attempts[a].closed /\ t.attempts[a].settled = None
         [] OTHER -> ~t.attempts[a].closed
  /\ \A u \in Id : sp.tools[u] # None =>
       (sp.tools[u].end = "written" <=> t.tools[u].status = "completed")

(* Spans that follow the file ended as it says,                             *)
LEMMA SeenTrue ==
  ASSUME NEW t, NEW l, NEW sp, Sees(t, l, sp)
  PROVE  TrueEnds(t, sp)
<1>1. ModelsSeen(t.attempts, l.models, sp.models) /\ ToolsSeen(t.tools, l.tools, sp.tools)
  BY DEF Sees
<1>2. None \notin {"succeeded", "failed", "written"}
  BY ObserversAssumption DEF L!Ends
<1> QED BY <1>1, <1>2 DEF TrueEnds, ModelsSeen, ToolsSeen, L!IsOpen

(* and so did those that were cut off.                                      *)
LEMMA CutTrue ==
  ASSUME NEW t, NEW l, NEW sp, NEW sp1, Sees(t, l, sp), CutOff(sp, sp1)
  PROVE  TrueEnds(t, sp1)
<1>1. ModelsSeen(t.attempts, l.models, sp.models) /\ ToolsSeen(t.tools, l.tools, sp.tools)
  BY DEF Sees
<1>2. TrueEnds(t, sp)
  BY SeenTrue
<1>3. ASSUME NEW a \in Id, sp1.models[a] # None, sp1.models[a] # sp.models[a]
      PROVE  sp1.models[a].end = "effect_unknown" /\ ~t.attempts[a].closed
  BY <1>1, <1>3 DEF CutOff, ModelsSeen
<1>4. ASSUME NEW u \in Id, sp1.tools[u] # None, sp1.tools[u] # sp.tools[u]
      PROVE  sp1.tools[u].end = "effect_unknown" /\ t.tools[u].status = "pending"
  BY <1>1, <1>4 DEF CutOff, ToolsSeen
<1> QED BY <1>2, <1>3, <1>4 DEF TrueEnds

-----------------------------------------------------------------------------
(* The start of a process and of a tool *)

(* One event.                                                               *)
LEMMA RecordOne == ASSUME NEW sp, NEW e PROVE L!RecordAll(sp, <<e>>) = L!Record(sp, e)
<1>1. Sequence(<< >>)
  <2>1. << >> \in Seq(Id)
    OBVIOUS
  <2> QED BY <2>1 DEF Sequence
<1>2. L!RecordAll(sp, Append(<< >>, e)) = L!Record(L!RecordAll(sp, << >>), e)
  BY <1>1, RecordLast
<1>3. L!RecordAll(sp, << >>) = sp
  BY RecordNone
<1>4. Append(<< >>, e) = <<e>>
  OBVIOUS
<1> QED BY <1>2, <1>3, <1>4, Zenon

(* One event is published where there was none.                             *)
LEMMA PublishOne ==
  ASSUME NEW l, NEW e
  PROVE  L!Publish(Told(l, << >>), e) = Told(l, <<e>>)
<1>1. L!Publish(Told(l, << >>), e) = Told(l, Append(<< >>, e))
  BY PublishTold
<1>2. Append(<< >>, e) = <<e>>
  OBVIOUS
<1> QED BY <1>1, <1>2, Zenon

(* A new process knows nothing,                                             *)
LEMMA NothingSeen ==
  /\ L!NoLife \in L!Life /\ L!NoSpans \in L!Spans
  /\ \A op \in Id : L!NoLife.operations[op] = None /\ L!NoSpans.operations[op] = None
  /\ \A t : ModelsSeen(t.attempts, L!NoLife.models, L!NoSpans.models)
            /\ ToolsSeen(t.tools, L!NoLife.tools, L!NoSpans.tools)
<1>1. L!NoLife \in L!Life /\ L!NoSpans \in L!Spans
  BY DEF L!NoLife, L!NoSpans, L!Life, L!Spans
<1>2. /\ \A i \in Id : /\ L!NoLife.operations[i] = None /\ L!NoSpans.operations[i] = None
                       /\ L!NoLife.models[i] = None /\ L!NoSpans.models[i] = None
                       /\ L!NoLife.tools[i] = None /\ L!NoSpans.tools[i] = None
  BY DEF L!NoLife, L!NoSpans
<1> QED BY <1>1, <1>2, Zenon DEF ModelsSeen, ToolsSeen, L!IsOpen

(* A process that holds nothing sees a file without an operation;           *)
LEMMA NoneSeen ==
  ASSUME NEW t, \A op \in Id : ~Unfinished(t, op)
  PROVE  Sees(t, L!NoLife, L!NoSpans)
BY NothingSeen, Zenon DEF Sees, OpsSeen, L!IsOpen

(* and if there is an operation then that it is recovered.                  *)
LEMMA RecoveredSeen ==
  ASSUME NEW t, NEW op \in Id, \A other \in Id : Unfinished(t, other) <=> other = op,
         NEW kind \in {"run", "compaction"}
  PROVE  LET told == L!Recovered(L!NoLife, op, kind)
         IN  /\ Sees(t, told.life, L!RecordAll(L!NoSpans, told.events))
             /\ told.life.models = L!NoLife.models /\ told.life.tools = L!NoLife.tools
             /\ told.life.operations[op].recovery /\ told.life.operationUsage[op] = 0
             /\ told.events = <<[type |-> "operation.recovered", id |-> op]>>
<1> DEFINE told == L!Recovered(L!NoLife, op, kind)
           l == L!NoLife
           sp == L!NoSpans
           live == [kind |-> kind, recovery |-> TRUE]
           l1 == [l EXCEPT !.operations[op] = live, !.operationUsage[op] = 0]
           e == [type |-> "operation.recovered", id |-> op]
           span == [op |-> op, end |-> None]
           sp1 == L!Record(sp, e)
<1>1. told = L!Publish(Told(l1, << >>), e)
  BY Zenon DEF L!Recovered, L!Quiet, Told
<1>2. told = Told(l1, <<e>>)
  BY <1>1, PublishOne, Zenon
<1>3. L!RecordAll(sp, <<e>>) = sp1
  BY RecordOne, Zenon
<1>4. live \in L!LiveOperation /\ live # None /\ live.recovery
  <2>1. live \in L!LiveOperation
    BY DEF L!LiveOperation
  <2>2. live.recovery
    OBVIOUS
  <2> HIDE DEF live
  <2> QED BY <2>1, <2>2, ObserversAssumption
<1>5. span \in L!Span /\ L!IsOpen(span) /\ span # None
  BY SpanTypes
<1>6. sp1 = [sp EXCEPT !.operations[op] = span]
  BY DEF L!Record
<1>7. l \in L!Life /\ sp \in L!Spans
  BY NothingSeen
<1> HIDE DEF told, live, e, span, l, sp
<1>8. /\ l1 \in L!Life /\ l1.operations = [l.operations EXCEPT ![op] = live]
      /\ l1.operationUsage = [l.operationUsage EXCEPT ![op] = 0]
      /\ l1.models = l.models /\ l1.tools = l.tools
  BY <1>4, <1>7 DEF L!Life
<1> HIDE DEF l1
<1>9. /\ sp1 \in L!Spans /\ sp1.operations = [sp.operations EXCEPT ![op] = span]
      /\ sp1.models = sp.models /\ sp1.tools = sp.tools
  BY <1>5, <1>6, <1>7 DEF L!Spans
<1> HIDE DEF sp1
<1>10. OpsSeen(t, l1.operations, sp1.operations)
  <2> SUFFICES ASSUME NEW other \in Id
               PROVE  /\ l1.operations[other] # None <=> other = op
                      /\ L!IsOpen(sp1.operations[other]) <=> other = op
    BY Zenon DEF OpsSeen
  <2>1. /\ l1.operations[other] = IF other = op THEN live ELSE l.operations[other]
        /\ sp1.operations[other] = IF other = op THEN span ELSE sp.operations[other]
    BY <1>7, <1>8, <1>9 DEF L!Life, L!Spans
  <2>2. l.operations[other] = None /\ sp.operations[other] = None
    BY NothingSeen, Zenon DEF l, sp
  <2> QED BY <1>4, <1>5, <2>1, <2>2, Zenon DEF L!IsOpen
<1>11. ModelsSeen(t.attempts, l.models, sp.models) /\ ToolsSeen(t.tools, l.tools, sp.tools)
  BY NothingSeen, Zenon DEF l, sp
<1>12. Sees(t, l1, sp1)
  BY <1>8, <1>9, <1>10, <1>11, Zenon DEF Sees
<1>13. told.life = l1 /\ told.events = <<e>>
  BY <1>2 DEF Told
<1>14. l1.operations[op].recovery /\ l1.operationUsage[op] = 0
  <2>1. l1.operations[op] = live /\ l1.operationUsage[op] = 0
    BY <1>7, <1>8 DEF L!Life
  <2> QED BY <1>4, <2>1
<1> QED BY <1>3, <1>8, <1>12, <1>13, <1>14, Zenon DEF told, l, sp, e

(* A tool of an open operation is being executed.                           *)
LEMMA StartingSeen ==
  ASSUME NEW t, NEW l, NEW sp, Sees(t, l, sp), NEW u \in Id, NEW op \in Id, Unfinished(t, op),
         t.tools[u] # None, t.tools[u].status = "pending"
  PROVE  LET told == L!ToolStarting(l, u, op)
         IN  /\ Sees(t, told.life, L!RecordAll(sp, told.events))
             /\ told.life.models = l.models /\ told.life.operations = l.operations
             /\ told.life.operationUsage = l.operationUsage /\ told.life.answers = l.answers
             /\ \A v \in Id : told.life.tools[v] # None <=> l.tools[v] # None \/ v = u
             /\ told.events = <<[type |-> "tool.started", id |-> u, op |-> op]>>
<1> DEFINE told == L!ToolStarting(l, u, op)
           live == [op |-> op]
           l1 == [l EXCEPT !.tools[u] = live]
           e == [type |-> "tool.started", id |-> u, op |-> op]
           sp1 == L!Begin("tools", sp, e)
<1>1. told = L!Publish(Told(l1, << >>), e)
  BY Zenon DEF L!ToolStarting, L!Quiet, Told
<1>2. told = Told(l1, <<e>>)
  BY <1>1, PublishOne, Zenon
<1>3. L!RecordAll(sp, <<e>>) = L!Record(sp, e)
  BY RecordOne, Zenon
<1>4. L!Record(sp, e) = sp1
  BY DEF L!Record
<1>5. live \in L!LiveTool /\ live # None
  <2>1. live \in L!LiveTool
    BY DEF L!LiveTool
  <2> HIDE DEF live
  <2> QED BY <2>1, ObserversAssumption
<1>6. /\ l \in L!Life /\ sp \in L!Spans /\ OpsSeen(t, l.operations, sp.operations)
      /\ ModelsSeen(t.attempts, l.models, sp.models) /\ ToolsSeen(t.tools, l.tools, sp.tools)
  BY DEF Sees
<1>7. e.id = u /\ e.op = op
  OBVIOUS
<1> HIDE DEF told, live, e
<1>8. L!IsOpen(sp.operations[op])
  BY <1>6 DEF OpsSeen
<1>9. /\ sp1 \in L!Spans /\ OneSpan("tools", sp, sp1, u)
      /\ sp1.tools[u] # None /\ sp1.tools[u].end = None /\ L!IsOpen(sp1.tools[u])
  <2>1. e.id \in Id /\ e.op \in Id /\ L!IsOpen(sp.operations[e.op]) /\ "tools" \in {"models", "tools"}
    BY <1>7, <1>8
  <2>2. /\ sp1 \in L!Spans /\ OneSpan("tools", sp, sp1, e.id)
        /\ sp1["tools"][e.id] # None /\ sp1["tools"][e.id].end = None
        /\ L!IsOpen(sp1["tools"][e.id])
    BY <1>6, <2>1, BeginRecorded
  <2> QED BY <1>7, <2>2
<1> HIDE DEF sp1
<1>10. /\ l1 \in L!Life /\ l1.tools = [l.tools EXCEPT ![u] = live]
       /\ l1.models = l.models /\ l1.operations = l.operations
       /\ l1.operationUsage = l.operationUsage /\ l1.answers = l.answers
  BY <1>5, <1>6 DEF L!Life
<1> HIDE DEF l1
<1>11. \A v \in Id : l1.tools[v] = IF v = u THEN live ELSE l.tools[v]
  BY <1>6, <1>10 DEF L!Life
<1>12. /\ sp1.operations = sp.operations /\ sp1.models = sp.models
       /\ \A v \in Id : v # u => sp1.tools[v] = sp.tools[v]
  BY <1>9 DEF OneSpan
<1>13. ToolsSeen(t.tools, l1.tools, sp1.tools)
  <2> SUFFICES ASSUME NEW v \in Id
               PROVE  /\ l1.tools[v] # None => t.tools[v] # None /\ t.tools[v].status = "pending"
                      /\ L!IsOpen(sp1.tools[v]) <=> l1.tools[v] # None
                      /\ sp1.tools[v] # None =>
                           /\ t.tools[v] # None /\ sp1.tools[v].end \in {None, "written"}
                           /\ sp1.tools[v].end = "written" <=> t.tools[v].status = "completed"
    BY Zenon DEF ToolsSeen
  <2>1. CASE v # u
    BY <1>6, <1>11, <1>12, <2>1 DEF ToolsSeen
  <2>2. CASE v = u
    <3>1. None # "written"
      BY ObserversAssumption DEF L!Ends
    <3> QED BY <1>5, <1>9, <1>11, <2>2, <3>1
  <2> QED BY <2>1, <2>2
<1>14. Sees(t, l1, sp1)
  BY <1>6, <1>9, <1>10, <1>12, <1>13, Zenon DEF Sees
<1>15. told.life = l1 /\ told.events = <<e>>
  BY <1>2 DEF Told
<1>16. \A v \in Id : l1.tools[v] # None <=> l.tools[v] # None \/ v = u
  BY <1>5, <1>11
<1> QED BY <1>3, <1>4, <1>10, <1>14, <1>15, <1>16, Zenon DEF told, e

-----------------------------------------------------------------------------
(* The observers follow the worker *)

(* Where there may be an attempt that the lifecycle holds, that it holds    *)
(* every open attempt unless an earlier process left one, and what it holds *)
(* of the tools.                                                            *)
ModelsAt == pc \notin AtAttempt \cup {"start"} => NoModels(life)
AllAt == ~job.recovering => AllHeard(s, life)
ToolsAt == \A u \in Id : life.tools[u] # None <=> pc \in AtExecution /\ u = job.tool

RunInv == Sees(s, life, spans) /\ ModelsAt /\ AllAt /\ ToolsAt

OInv ==
  /\ PInv /\ LeftInv /\ OpenFits(s)
  /\ Running => RunInv
  /\ ~Running => EndsAreTrue

(* A line that is appended fits what the lifecycle holds,                   *)
LEMMA LineSuits ==
  ASSUME RunInv, Lines, s' # s
  PROVE  /\ s' \in ReduceLine(s, committed') /\ FitsFile(s, committed')
         /\ LineFits(s, life, committed')
<1>1. /\ s' \in ReduceLine(s, committed') /\ FitsFile(s, committed')
      /\ NoFact("stepAttempt", committed') \/ pc \in {"step", "admit"}
  BY DEF Lines
<1>2. NoFact("stepAttempt", committed') \/ NoModels(life)
  <2>1. pc \in {"step", "admit"} => pc \notin AtAttempt \cup {"start"}
    BY DEF AtAttempt
  <2> QED BY <1>1, <2>1 DEF RunInv, ModelsAt
<1>3. LineFits(s, life, committed')
  <2> DEFINE facts == committed'
  <2>1. FitsFile(s, facts) /\ (NoFact("stepAttempt", facts) \/ NoModels(life))
    BY <1>1, <1>2
  <2> HIDE DEF facts
  <2>2. \A n \in 1..Len(facts) : facts[n].type = "stepAttempt" => n = 1 /\ NoModels(life)
    BY <2>1 DEF FitsFile, NoFact
  <2>3. \/ \A n \in 1..Len(facts) : facts[n].type \notin Starts
        \/ \A n \in 1..Len(facts) : facts[n].type \notin {"operationFinished", "usage"}
    BY <2>1 DEF FitsFile, NoFact, NoStarts
  <2>4. LineFits(s, life, facts)
    BY <2>1, <2>2, <2>3 DEF LineFits, FitsFile
  <2> QED BY <2>4 DEF facts
<1> QED BY <1>1, <1>3

(* and leaves it fitting.                                                   *)
LEMMA LineStep ==
  ASSUME IInv, OpenFits(s), RunInv, Lines, s' # s
  PROVE  /\ Seen(s', spans, L!Committed(life, committed')) /\ OpenFits(s')
         /\ LineTold(s, life, committed', s', L!Committed(life, committed'))
<1>1. s' \in ReduceLine(s, committed')
  BY LineSuits
<1>3. LineFits(s, life, committed')
  BY LineSuits
<1>4. Good(s) /\ Sees(s, life, spans)
  BY DEF IInv, FileInv, RunInv
<1>5. PICK T, h : HeardTrace(s, s', life, spans, committed', T, h)
  BY <1>1, <1>3, <1>4, LineHeard
<1>6. /\ Good(s') /\ OpenFits(s') /\ Seen(s', spans, L!Committed(life, committed'))
      /\ LineTold(s, life, committed', s', L!Committed(life, committed'))
  BY <1>3, <1>4, <1>5, LineResult
<1> QED BY <1>6

(* What a step makes known, before the process has ended if it ends.        *)
StepTold(told) ==
  /\ Seen(s', spans, told)
  /\ AllHeard(s, life) => AllHeard(s', told.life)
  /\ s' = s \/ NoFact("stepAttempt", committed') =>
       \A a \in Id : told.life.models[a] # None => life.models[a] # None
  /\ Reported(told.events) = {op \in Id : Unfinished(s, op) /\ ~Unfinished(s', op)}
  /\ pc' # "down" =>
       \A u \in Id : told.life.tools[u] # None <=> pc' \in AtExecution /\ u = job'.tool

(* The tool that the worker executes.                                       *)
LEMMA ToolAtHand == ASSUME IInv, pc \in AtExecution \cup {"execute"} PROVE job.tool \in Id
<1>1. ToolFits(s, pc, job, effects, now)
  BY DEF IInv
<1>2. pc \in AtTool
  BY DEF AtTool, AtExecution
<1> QED BY <1>1, <1>2 DEF ToolFits

(* A line is heard,                                                         *)
LEMMA LineToldOf ==
  ASSUME IInv, OpenFits(s), RunInv, Lines, Goes, s' # s
  PROVE  StepTold(L!Committed(life, committed')) /\ OpenFits(s')
<1> DEFINE told == L!Committed(life, committed')
<1>1. Seen(s', spans, told) /\ OpenFits(s') /\ LineTold(s, life, committed', s', told)
  BY LineStep
<1> HIDE DEF told
<1>2. ASSUME pc' # "down", NEW u \in Id
      PROVE  told.life.tools[u] # None <=> pc' \in AtExecution /\ u = job'.tool
  <2>1. /\ life.tools[u] # None <=> pc \in AtExecution /\ u = job.tool
        /\ told.life.tools[u] # None <=> life.tools[u] # None /\ s'.tools[u].status = "pending"
    BY <1>1 DEF RunInv, ToolsAt, LineTold
  <2>2. life.tools[u] # None => s.tools[u].status = "pending"
    BY DEF RunInv, Sees, ToolsSeen
  <2>3. CASE pc' \in AtExecution
    <3>1. pc \in AtExecution /\ job'.tool = job.tool /\ s'.tools = s.tools
      BY <1>2, <2>3 DEF Goes
    <3> QED BY <2>1, <2>2, <2>3, <3>1
  <2>4. CASE pc' \notin AtExecution
    BY <1>2, <2>1, <2>4 DEF Goes
  <2> QED BY <2>3, <2>4
<1>3. StepTold(told)
  BY <1>1, <1>2, Zenon DEF StepTold, LineTold
<1> QED BY <1>1, <1>3 DEF told

(* the beginning of an execution,                                           *)
LEMMA StartTold1 ==
  ASSUME IInv, RunInv, Goes, s' = s, pc = "execute", pc' = "executing"
  PROVE  StepTold(L!ToolStarting(life, job.tool, s.operation.id))
<1> DEFINE told == L!ToolStarting(life, job.tool, s.operation.id)
           e == [type |-> "tool.started", id |-> job.tool, op |-> s.operation.id]
<1>1. /\ job.tool \in Id /\ s.tools[job.tool] # None /\ s.tools[job.tool].status = "pending"
  BY DEF IInv, ToolFits, AtTool
<1>2. s.operation.id \in Id /\ Unfinished(s, s.operation.id)
  <2>1. ~Idle(s)
    BY DEF IInv, WorkerFits, OperationFits, AtRun
  <2>2. s \in State /\ OneCurrent(s)
    BY DEF IInv, FileInv, Good, Sound
  <2>3. s.operation.id \in Id
    BY <2>1, <2>2, CurrentTypes
  <2> QED BY <2>1, <2>2, <2>3, Zenon DEF OneCurrent
<1>3. Sees(s, life, spans)
  BY DEF RunInv
<1>4. /\ Sees(s, told.life, L!RecordAll(spans, told.events))
      /\ told.life.models = life.models
      /\ \A v \in Id : told.life.tools[v] # None <=> life.tools[v] # None \/ v = job.tool
      /\ told.events = <<e>>
  BY <1>1, <1>2, <1>3, StartingSeen
<1>5. told = Told(told.life, told.events)
  <2> DEFINE l1 == [life EXCEPT !.tools[job.tool] = [op |-> s.operation.id]]
  <2>1. told = L!Publish(Told(l1, << >>), e)
    BY Zenon DEF L!ToolStarting, L!Quiet, Told
  <2> HIDE DEF told, l1, e
  <2>2. told = Told(l1, <<e>>)
    BY <2>1, PublishOne, Zenon
  <2> QED BY <2>2 DEF Told
<1>6. Sequence(told.events) /\ Reported(told.events) = {}
  <2>1. <<e>> \in Seq({e}) /\ \A n \in DOMAIN <<e>> : <<e>>[n] = e
    OBVIOUS
  <2>2. e.type # "operation.completed"
    OBVIOUS
  <2> HIDE DEF e, told
  <2> QED BY <1>4, <2>1, <2>2 DEF Sequence, Reported, Completed
<1> HIDE DEF told
<1>7. Seen(s', spans, told)
  BY <1>4, <1>5, <1>6, Zenon DEF Seen
<1>8. job' = job /\ pc' \in AtExecution /\ pc \notin AtExecution
  <2>1. pc' \in AtExecution /\ pc \notin AtExecution /\ pc' # "down"
    BY DEF AtExecution
  <2> QED BY <2>1, Zenon DEF Goes
<1>9. \A u \in Id : told.life.tools[u] # None <=> u = job.tool
  BY <1>4, <1>8 DEF RunInv, ToolsAt
<1>10. Reported(told.events) = {op \in Id : Unfinished(s, op) /\ ~Unfinished(s', op)}
  BY <1>6
<1>11. AllHeard(s, life) => AllHeard(s', told.life)
  BY <1>4 DEF AllHeard
<1>12. StepTold(told)
  BY <1>4, <1>7, <1>8, <1>9, <1>10, <1>11, Zenon DEF StepTold
<1> QED BY <1>12 DEF told

(* or nothing.                                                              *)
LEMMA QuietTold ==
  ASSUME IInv, RunInv, Goes, s' = s, ~(pc = "execute" /\ pc' = "executing")
  PROVE  StepTold(L!Quiet(life))
<1> DEFINE told == L!Quiet(life)
<1>1. told = Told(life, << >>) /\ told.life = life /\ told.events = << >>
  BY DEF L!Quiet, Told
<1> HIDE DEF told
<1>2. Sequence(<< >>) /\ Reported(<< >>) = {}
  <2>1. << >> \in Seq(Id)
    OBVIOUS
  <2> QED BY <2>1 DEF Sequence, Reported, Completed
<1>3. L!RecordAll(spans, << >>) = spans
  BY RecordNone
<1>4. Sees(s, life, spans)
  BY DEF RunInv
<1>5. Seen(s', spans, told)
  BY <1>1, <1>2, <1>3, <1>4, Zenon DEF Seen
<1>6. Reported(told.events) = {op \in Id : Unfinished(s, op) /\ ~Unfinished(s', op)}
  BY <1>1, <1>2
<1>7. ASSUME pc' # "down", NEW u \in Id
      PROVE  told.life.tools[u] # None <=> pc' \in AtExecution /\ u = job'.tool
  <2>1. life.tools[u] # None <=> pc \in AtExecution /\ u = job.tool
    BY DEF RunInv, ToolsAt
  <2>2. CASE pc' \in AtExecution
    BY <1>1, <1>7, <2>1, <2>2 DEF Goes
  <2>3. CASE pc' \notin AtExecution
    <3>1. pc \notin AtExecution
      <4> SUFFICES ASSUME pc \in AtExecution PROVE FALSE
        OBVIOUS
      <4>1. s.tools[job.tool].status # "pending"
        BY <1>7, <2>3 DEF Goes
      <4>2. job.tool \in Id
        BY ToolAtHand
      <4>3. life.tools[job.tool] # None
        BY <4>2 DEF RunInv, ToolsAt
      <4> QED BY <4>1, <4>2, <4>3 DEF RunInv, Sees, ToolsSeen
    <3> QED BY <1>1, <2>1, <2>3, <3>1
  <2> QED BY <2>2, <2>3
<1>8. StepTold(told)
  BY <1>1, <1>5, <1>6, <1>7, Zenon DEF StepTold
<1> QED BY <1>8 DEF told

(* So whatever the lifecycle hears.                                         *)
LEMMA HeardTold ==
  ASSUME IInv, OInv, Lines, Goes, Running
  PROVE  StepTold(Heard) /\ OpenFits(s')
<1>1. RunInv /\ OpenFits(s)
  BY DEF OInv
<1>2. CASE s' # s
  BY <1>1, <1>2, LineToldOf DEF Heard
<1>3. CASE s' = s /\ pc = "execute" /\ pc' = "executing"
  BY <1>1, <1>3, StartTold1 DEF Heard
<1>4. CASE s' = s /\ ~(pc = "execute" /\ pc' = "executing")
  BY <1>1, <1>4, QuietTold DEF Heard
<1> QED BY <1>2, <1>3, <1>4

(* The attempts of the lifecycle, after a step.                             *)
LEMMA AttemptsPlaced ==
  ASSUME IInv', RunInv, Placed, Running, Running', OpenFits(s'), Sees(s', life', spans'),
         AllHeard(s, life) => AllHeard(s', life'),
         s' = s \/ NoFact("stepAttempt", committed') =>
           \A a \in Id : life'.models[a] # None => life.models[a] # None
  PROVE  ModelsAt' /\ AllAt'
<1>1. Good(s') /\ (pc' = "recover" => job'.recovering)
  BY DEF IInv, FileInv, UserFits
<1>2. NoneOpened(s') => NoModels(life') /\ AllHeard(s', life')
  BY DEF NoneOpened, NoModels, AllHeard, OpenAttempt, Sees, ModelsSeen
<1>3. Idle(s') \/ ~Attempting(s') => NoModels(life') /\ AllHeard(s', life')
  BY <1>1, <1>2, NotAttempting
<1>4. pc' # "down"
  BY DEF Running
<1>5. AllAt'
  BY <1>3, <1>4 DEF AllAt, RunInv, Placed, Goes
<1>6. ASSUME pc' \notin AtAttempt \cup {"start"}, ~Idle(s'), Attempting(s')
      PROVE  NoModels(life')
  <2>1. pc' \in {"recover", "step", "admit"} /\ job'.recovering
    BY <1>1, <1>4, <1>6 DEF Placed, PInv, AttemptPlace
  <2>2. pc \notin AtAttempt \cup {"start"} /\ (s' = s \/ NoFact("stepAttempt", committed'))
    BY <1>4, <1>6, <2>1 DEF Placed, Goes
  <2> QED BY <2>2 DEF RunInv, ModelsAt, NoModels
<1>7. ModelsAt'
  BY <1>3, <1>6 DEF ModelsAt
<1> QED BY <1>5, <1>7

(* EndsAreTrue is about the file and the spans.                             *)
LEMMA EndsTrue == (EndsAreTrue <=> TrueEnds(s, spans)) /\ (EndsAreTrue' <=> TrueEnds(s', spans'))
BY Zenon DEF EndsAreTrue, TrueEnds

(* While the process goes on;                                               *)
LEMMA ObserveKeeps ==
  ASSUME IInv, IInv', OInv, Lines, Placed, LeftInv', Observe, Running, Running'
  PROVE  OInv'
<1>1. life' = Heard.life /\ spans' = L!RecordAll(spans, Heard.events)
  BY DEF Observe, Hears
<1>2. StepTold(Heard) /\ OpenFits(s') /\ RunInv
  BY HeardTold DEF Placed, OInv
<1> HIDE DEF Heard
<1>3. Sees(s', life', spans')
  BY <1>1, <1>2, Zenon DEF StepTold, Seen
<1>4. /\ AllHeard(s, life) => AllHeard(s', life')
      /\ s' = s \/ NoFact("stepAttempt", committed') =>
           \A a \in Id : life'.models[a] # None => life.models[a] # None
      /\ ToolsAt'
  BY <1>1, <1>2, Zenon DEF StepTold, ToolsAt, Running
<1>5. ModelsAt' /\ AllAt'
  BY <1>2, <1>3, <1>4, AttemptsPlaced
<1>6. RunInv'
  BY <1>3, <1>4, <1>5 DEF RunInv
<1> QED BY <1>2, <1>6, Zenon DEF OInv, Placed

(* when it ends,                                                            *)
LEMMA CutTwice ==
  ASSUME NEW sp, NEW sp1, NEW sp2, CutOff(sp, sp1), CutOff(sp1, sp2)
  PROVE  CutOff(sp, sp2)
<1>1. "effect_unknown" # None
  BY ObserversAssumption DEF L!Ends
<1> QED BY <1>1 DEF CutOff, L!IsOpen

(* What is open is cut off, and no end of an operation is reported by that. *)
LEMMA EndTold ==
  ASSUME IInv, OInv, Lines, Goes, Running, ObserveEnd
  PROVE  /\ TrueEnds(s', spans') /\ OpenFits(s') /\ StepTold(Heard) /\ Sequence(Heard.events)
         /\ \E lost \in Seq(Lost) : published' = Heard.events \o lost
<1> DEFINE ev == Heard.events
           sp == L!RecordAll(spans, ev)
           told == L!Closed(Heard)
<1>1. /\ spans' = L!FinishDangling(L!RecordAll(spans, told.events))
      /\ published' = told.events
  BY Zenon DEF ObserveEnd
<1>2. StepTold(Heard) /\ OpenFits(s')
  BY HeardTold
<1>3. Heard = Told(Heard.life, ev) /\ Sequence(ev) /\ Sees(s', Heard.life, sp)
  BY <1>2, Zenon DEF StepTold, Seen
<1>4. Heard.life \in L!Life /\ sp \in L!Spans
  BY <1>3 DEF Sees
<1>5. PICK lost \in Seq(Lost) : told.events = ev \o lost
  <2> DEFINE l == Heard.life
  <2>1. told = L!Closed(Told(l, ev))
    BY <1>3, Zenon
  <2> HIDE DEF told, l, ev
  <2>2. l \in L!Life
    BY <1>4 DEF l
  <2> QED BY <1>3, <2>1, <2>2, ClosedTold
<1> HIDE DEF ev, sp, told, Heard
<1>6. /\ L!RecordAll(spans, told.events) \in L!Spans
      /\ CutOff(sp, L!RecordAll(spans, told.events))
  <2>1. L!RecordAll(spans, ev) \in L!Spans
    BY <1>4 DEF sp
  <2>2. /\ L!RecordAll(spans, ev \o lost) \in L!Spans
        /\ CutOff(L!RecordAll(spans, ev), L!RecordAll(spans, ev \o lost))
    BY <1>3, <2>1, LostAll
  <2> QED BY <1>5, <2>2, Zenon DEF sp
<1>7. CutOff(sp, spans')
  BY <1>1, <1>6, DanglingCut, CutTwice
<1>8. TrueEnds(s', spans')
  BY <1>3, <1>7, CutTrue
<1>9. published' = ev \o lost
  BY <1>1, <1>5
<1> QED BY <1>2, <1>3, <1>8, <1>9 DEF ev

(* The invariant holds of the file that is left.                            *)
LEMMA ObserveEndKeeps ==
  ASSUME IInv, OInv, Lines, Placed, LeftInv', heard, ObserveEnd
  PROVE  OInv'
<1>1. Running /\ ~Running'
  BY DEF ObserveEnd, Ended, Running
<1>2. TrueEnds(s', spans') /\ OpenFits(s')
  BY <1>1, EndTold DEF Placed
<1>3. EndsAreTrue'
  BY <1>2, EndsTrue
<1> QED BY <1>1, <1>2, <1>3, Zenon DEF OInv, Placed

(* dies,                                                                    *)
LEMMA ObserveDeathKeeps ==
  ASSUME OInv, Placed, LeftInv', Died => s' = s /\ pc' = "down", ObserveDeath
  PROVE  OInv'
<1>1. s' = s /\ pc' = "down" /\ spans' = L!NoSpans
  BY DEF ObserveDeath, Gone
<1>2. \A i \in Id : L!NoSpans.models[i] = None /\ L!NoSpans.tools[i] = None
  BY DEF L!NoSpans
<1>3. EndsAreTrue'
  BY <1>1, <1>2 DEF EndsAreTrue
<1>4. OpenFits(s')
  BY <1>1 DEF OInv
<1> QED BY <1>1, <1>3, <1>4, Zenon DEF OInv, Placed, Running

(* or is to die before they hear of the line,                               *)
LEMMA UnheardKeeps ==
  ASSUME IInv, OInv, Lines, Placed, LeftInv', Running, Unheard, ~heard'
  PROVE  OInv'
<1>1. spans' = L!NoSpans
  BY DEF Unheard, Gone
<1>2. \A i \in Id : L!NoSpans.models[i] = None /\ L!NoSpans.tools[i] = None
  BY DEF L!NoSpans
<1>3. EndsAreTrue'
  BY <1>1, <1>2 DEF EndsAreTrue
<1>4. OpenFits(s')
  BY HeardTold DEF Placed
<1> QED BY <1>3, <1>4, Zenon DEF OInv, Placed, Running

(* and starts.                                                              *)
LEMMA ObserveStartKeeps ==
  ASSUME IInv, OInv, Placed, LeftInv', s' = s, pc' = "recover", job'.recovering,
         ObserveStart, heard'
  PROVE  OInv'
<1>1. Good(s) /\ OneCurrent(s) /\ s \in State
  BY DEF IInv, FileInv, Good, Sound
<1>2. Sees(s', life', spans') /\ life'.models = L!NoLife.models /\ life'.tools = L!NoLife.tools
  <2>1. CASE Idle(s)
    <3>1. \A op \in Id : ~Unfinished(s, op)
      BY <1>1, <2>1, Zenon DEF OneCurrent
    <3>2. Sees(s, L!NoLife, L!NoSpans)
      BY <3>1, NoneSeen
    <3>3. life' = L!NoLife /\ spans' = L!NoSpans
      BY <2>1, Zenon DEF ObserveStart, Gone
    <3> QED BY <3>2, <3>3
  <2>2. CASE ~Idle(s)
    <3>1. s.operation.id \in Id /\ s.operation.kind \in {"run", "compaction"}
      BY <1>1, <2>2, CurrentTypes
    <3>2. \A other \in Id : Unfinished(s, other) <=> other = s.operation.id
      BY <1>1, <2>2, Zenon DEF OneCurrent
    <3> DEFINE told == L!Recovered(L!NoLife, s.operation.id, s.operation.kind)
    <3>3. /\ Sees(s, told.life, L!RecordAll(L!NoSpans, told.events))
          /\ told.life.models = L!NoLife.models /\ told.life.tools = L!NoLife.tools
      BY <3>1, <3>2, RecoveredSeen
    <3>4. life' = told.life /\ spans' = L!RecordAll(L!NoSpans, told.events)
      BY <2>2, Zenon DEF ObserveStart
    <3> HIDE DEF told
    <3> QED BY <3>3, <3>4
  <2> QED BY <2>1, <2>2
<1>3. NoModels(life') /\ \A u \in Id : life'.tools[u] = None
  BY <1>2 DEF NoModels, L!NoLife
<1>4. ModelsAt' /\ AllAt' /\ ToolsAt'
  BY <1>3 DEF ModelsAt, AllAt, ToolsAt, AtExecution
<1>5. RunInv'
  BY <1>2, <1>4 DEF RunInv
<1>6. OpenFits(s') /\ Running'
  BY DEF OInv, Running
<1> QED BY <1>5, <1>6, Zenon DEF OInv, Placed

-----------------------------------------------------------------------------
(* The invariant *)

(* It holds of a new session,                                               *)
LEMMA ObservedInitKeeps == ASSUME ObservedInit PROVE OInv
<1>1. /\ s = InitialState /\ pc = "idle" /\ job = NoJob
      /\ left = [prompts |-> Prompts, escs |-> Escs, crashes |-> Crashes]
      /\ life = L!NoLife /\ spans = L!NoSpans /\ heard
  BY DEF ObservedInit, Init
<1>2. /\ \A op \in Id : ~Unfinished(s, op)
      /\ \A a \in Id : s.attempts[a] = None
      /\ Idle(s)
  BY <1>1 DEF InitialState, Unfinished, Idle
<1>3. Sees(s, life, spans)
  BY <1>1, <1>2, NoneSeen
<1>4. NoModels(life) /\ \A u \in Id : life.tools[u] = None
  BY <1>1 DEF NoModels, L!NoLife
<1>5. ModelsAt /\ AllAt /\ ToolsAt /\ OpenFits(s)
  BY <1>1, <1>2, <1>4 DEF ModelsAt, AllAt, ToolsAt, AtExecution, OpenFits, OpenAttempt, AllHeard
<1>6. LeftInv
  BY <1>1, BoundsAssumption DEF LeftInv
<1>7. PInv
  BY <1>1, <1>2 DEF PInv, AttemptPlace, RecoveryPlace, NoJob
<1>8. Running
  BY <1>1 DEF Running
<1> QED BY <1>3, <1>5, <1>6, <1>7, <1>8 DEF OInv, RunInv

(* of every step,                                                           *)
LEMMA ObservedNextKeeps == ASSUME IInv, OInv, ObservedNext PROVE OInv'
<1>1. Next /\ IInv'
  BY NextInvariant DEF ObservedNext
<1>2. Lines /\ Placed /\ LeftInv' /\ (Died => s' = s /\ pc' = "down")
  BY <1>1, NextPlaced, LeftStays DEF OInv
<1>3. pc = "down" => s' = s /\ pc' = "recover" /\ job' = [NoJob EXCEPT !.recovering = TRUE]
  BY <1>1, DownStarts
<1>4. CASE heard /\ heard' = TRUE /\ Observe
  <2>1. Running /\ Running'
    BY <1>3, <1>4 DEF Observe, Started, Ended, Running
  <2> QED BY <1>1, <1>2, <1>4, <2>1, ObserveKeeps
<1>5. CASE heard /\ ObserveEnd
  BY <1>2, <1>5, ObserveEndKeeps
<1>6. CASE ObserveDeath
  BY <1>2, <1>6, ObserveDeathKeeps
<1>7. CASE heard' = TRUE /\ ObserveStart
  <2>1. s' = s /\ pc' = "recover" /\ job' = [NoJob EXCEPT !.recovering = TRUE]
    BY <1>3, <1>7 DEF ObserveStart, Started
  <2>2. job'.recovering
    BY <2>1 DEF NoJob
  <2> QED BY <1>2, <1>7, <2>1, <2>2, ObserveStartKeeps
<1>8. CASE heard /\ heard' = FALSE /\ Unheard
  <2>1. Running
    BY <1>3, <1>8 DEF Unheard, Running
  <2> QED BY <1>2, <1>8, <2>1, UnheardKeeps
<1> QED BY <1>4, <1>5, <1>6, <1>7, <1>8, Zenon DEF ObservedNext

(* and of a step that changes nothing.                                      *)
LEMMA ObservedStutterKeeps == ASSUME OInv, UNCHANGED <<vars, observers>> PROVE OInv'
<1>1. /\ s' = s /\ pc' = pc /\ job' = job /\ left' = left
      /\ life' = life /\ spans' = spans /\ heard' = heard
  BY DEF vars, file, session, observers
<1>2. PInv' /\ LeftInv' /\ OpenFits(s')
  BY <1>1, Zenon DEF OInv, PInv, LeftInv
<1>3. RunInv => RunInv'
  BY <1>1, Zenon DEF RunInv, ModelsAt, AllAt, ToolsAt
<1>4. EndsAreTrue => EndsAreTrue'
  BY <1>1, Zenon DEF EndsAreTrue
<1> QED BY <1>1, <1>2, <1>3, <1>4, Zenon DEF OInv, Running

(* An observed session is a session.                                        *)
LEMMA ObservedSession == ObservedSpec => Spec
<1>1. ObservedInit => Init
  BY DEF ObservedInit
<1>2. [ObservedNext]_<<vars, observers>> => [Next]_vars
  BY DEF ObservedNext
<1> QED BY <1>1, <1>2, PTL DEF ObservedSpec, Spec

(* The lifecycle and the spans follow the file, whatever the worker, the    *)
(* terminal thread and crashes do.                                          *)
THEOREM ObservedInvariance == ObservedSpec => [](IInv /\ OInv)
<1>1. ObservedInit => OInv
  BY ObservedInitKeeps
<1>2. IInv /\ OInv /\ [ObservedNext]_<<vars, observers>> => OInv'
  BY ObservedNextKeeps, ObservedStutterKeeps
<1>3. ObservedSpec => []IInv
  BY ObservedSession, Invariance, PTL
<1> QED BY <1>1, <1>2, <1>3, PTL DEF ObservedSpec

-----------------------------------------------------------------------------
(* The tools that are open *)

(* A started tool is one of the operation whose answer called it.           *)
AnswerInv == ToolsAnswer(s)

(* ToolsAnswer holds throughout an observed session.                        *)
LEMMA ToolsAlwaysAnswer == ObservedSpec => []AnswerInv
<1>1. ObservedInit => AnswerInv
  <2>1. ObservedInit => s = InitialState
    BY DEF ObservedInit, Init
  <2>2. \A u \in Id : InitialState.tools[u] = None
    BY DEF InitialState
  <2> QED BY <2>1, <2>2 DEF ToolsAnswer, AnswerInv
<1>2. ASSUME IInv, OInv, AnswerInv, s' # s, Next PROVE ToolsAnswer(s')
  <2>1. s' \in ReduceLine(s, committed') /\ FitsFile(s, committed')
    BY <1>2, NextPlaced DEF OInv, Lines
  <2> DEFINE facts == committed'
  <2>2. s' \in ReduceLine(s, facts) /\ FitsFile(s, facts)
    BY <2>1
  <2>3. Good(s) /\ ToolsAnswer(s)
    BY <1>2 DEF IInv, FileInv, AnswerInv
  <2> HIDE DEF facts
  <2>4. Len(facts) \in Nat /\ \A n \in 1..Len(facts) : facts[n] \in Facts
    BY <2>2 DEF FitsFile
  <2> QED BY <2>2, <2>3, <2>4, LineToolsAnswer
<1>3. IInv /\ OInv /\ AnswerInv /\ [ObservedNext]_<<vars, observers>> => AnswerInv'
  <2> SUFFICES ASSUME IInv, OInv, AnswerInv, [ObservedNext]_<<vars, observers>>
               PROVE  AnswerInv'
    OBVIOUS
  <2>1. CASE s' = s
    BY <2>1, Zenon DEF AnswerInv
  <2>2. CASE s' # s
    <3>1. ~UNCHANGED <<vars, observers>>
      BY <2>2 DEF vars, session, file
    <3>2. Next
      BY <3>1 DEF ObservedNext
    <3> QED BY <1>2, <2>2, <3>2, Zenon DEF AnswerInv
  <2> QED BY <2>1, <2>2
<1> QED BY <1>1, <1>3, ObservedInvariance, PTL DEF ObservedSpec

(* And a tool without a result is one of the current operation.             *)
LEMMA PendingCurrent ==
  ASSUME NEW t, Good(t), OpenSide(t), ToolsAnswer(t), NEW u \in Id, t.tools[u] # None,
         t.tools[u].status = "pending"
  PROVE  t.tools[u].op = t.operation.id
<1> DEFINE i == t.tools[u].assistant
           a == t.operation.step.attempt
<1>1. OpenCall(t, i, t.tools[u].index)
  BY DEF Good, CallSide, ToolsNameCalls, OpenCall
<1>2. ~Idle(t) /\ t.operation.step # None /\ t.attempts[a].settled = i
  BY <1>1, Zenon DEF OpenSide, OpenCurrent
<1>3. t.attempts[a] # None /\ t.attempts[a].op = t.operation.id
  BY <1>2, Zenon DEF Good, Sound, Linked
<1>4. i \in Id /\ t.entries[i] # None /\ t.entries[i].op = t.tools[u].op
  BY Zenon DEF Good, CallSide, ToolsNameCalls, ToolsAnswer
<1>5. a \in Id
  BY <1>2, CurrentTypes DEF Good, Sound
<1>6. t.entries[i].attempt = a
  BY <1>2, <1>3, <1>4, <1>5, NoneAssumption DEF Good, SettledSide
<1>7. t.entries[i].op = t.operation.id
  BY <1>3, <1>4, <1>5, <1>6, NoneAssumption DEF Good, Ledger, AnswerSide, AnswerOwned
<1> QED BY <1>4, <1>7

(* While a process runs, the operation, the attempts and the tools that its *)
(* lifecycle and its spans hold open are those of the file.                 *)
THEOREM SpansAlwaysFollow == ObservedSpec => []SpansFollowFile
<1>1. IInv /\ JInv /\ OInv /\ AnswerInv => SpansFollowFile
  <2> SUFFICES ASSUME IInv, JInv, OInv, AnswerInv, Running
               PROVE  OpenIsUnfinished /\ ModelSpans /\ ToolSpans
    BY DEF SpansFollowFile
  <2>1. RunInv /\ OpenFits(s) /\ Good(s)
    BY DEF IInv, FileInv, OInv
  <2>2. /\ OpsSeen(s, life.operations, spans.operations)
        /\ ModelsSeen(s.attempts, life.models, spans.models)
        /\ ToolsSeen(s.tools, life.tools, spans.tools)
    BY <2>1 DEF RunInv, Sees
  <2>3. OpenIsUnfinished
    BY <2>2, Zenon DEF OpenIsUnfinished, OpsSeen
  <2>4. ModelSpans
    <3> SUFFICES ASSUME NEW a \in Id
                 PROVE  /\ L!IsOpen(spans.models[a]) <=> life.models[a] # None
                        /\ life.models[a] # None =>
                             ~s.attempts[a].closed /\ L!IsOpen(spans.operations[s.attempts[a].op])
                        /\ s.attempts[a] # None /\ ~s.attempts[a].closed /\ life.models[a] = None
                             => job.recovering
      BY Zenon DEF ModelSpans
    <3>1. /\ L!IsOpen(spans.models[a]) <=> life.models[a] # None
          /\ life.models[a] # None => s.attempts[a] # None /\ ~s.attempts[a].closed
      BY <2>2 DEF ModelsSeen
    <3>2. life.models[a] # None => L!IsOpen(spans.operations[s.attempts[a].op])
      <4> SUFFICES ASSUME life.models[a] # None
                   PROVE  L!IsOpen(spans.operations[s.attempts[a].op])
        OBVIOUS
      <4>1. OpenAttempt(s, a)
        BY <3>1 DEF OpenAttempt
      <4>2. Unfinished(s, s.attempts[a].op) /\ s.attempts[a].op \in Id
        BY <2>1, <4>1, AttemptOps DEF OpenFits, OpenAttempt
      <4> QED BY <2>2, <4>2, Zenon DEF OpsSeen
    <3>3. s.attempts[a] # None /\ ~s.attempts[a].closed /\ life.models[a] = None => job.recovering
      BY <2>1 DEF RunInv, AllAt, AllHeard, OpenAttempt
    <3> QED BY <3>1, <3>2, <3>3
  <2>5. ToolSpans
    <3> SUFFICES ASSUME NEW u \in Id
                 PROVE  L!IsOpen(spans.tools[u]) <=>
                          pc \in AtExecution /\ job.tool = u /\ u \in PendingTools(s)
      BY DEF ToolSpans, AtExecution
    <3>1. /\ L!IsOpen(spans.tools[u]) <=> life.tools[u] # None
          /\ life.tools[u] # None => s.tools[u] # None /\ s.tools[u].status = "pending"
          /\ life.tools[u] # None <=> pc \in AtExecution /\ u = job.tool
      BY <2>1, <2>2 DEF ToolsSeen, RunInv, ToolsAt
    <3>2. life.tools[u] # None => s.tools[u].op = s.operation.id
      BY <2>1, <3>1, PendingCurrent DEF JInv, AnswerInv
    <3> QED BY <3>1, <3>2 DEF PendingTools, ToolsOf
  <2> QED BY <2>3, <2>4, <2>5
<1>2. ObservedSpec => []JInv
  BY ObservedSession, CallInvariance, PTL
<1> QED BY <1>1, <1>2, ObservedInvariance, ToolsAlwaysAnswer, PTL

(* How a span ended is what the file says, also when the process has ended  *)
(* or died.                                                                 *)
THEOREM EndsAlwaysTrue == ObservedSpec => []EndsAreTrue
<1>1. IInv /\ OInv => EndsAreTrue
  <2>1. OInv /\ Running => EndsAreTrue
    BY SeenTrue, EndsTrue DEF OInv, RunInv
  <2>2. OInv /\ ~Running => EndsAreTrue
    BY DEF OInv
  <2> QED BY <2>1, <2>2
<1> QED BY <1>1, ObservedInvariance, PTL

-----------------------------------------------------------------------------
(* The end of an operation is published *)

(* The operations that the last step reported as completed.                 *)
LEMMA PublishedReported ==
  (\A op \in Id : op \in Reported(published') <=>
     \E n \in Published("operation.completed") : published'[n].id = op)
BY Zenon DEF Reported, Completed, Published

(* What is lost when the process ends is the end of no operation.           *)
LEMMA LostCompleted ==
  ASSUME NEW ev, Sequence(ev), NEW lost \in Seq(Lost)
  PROVE  Completed(ev \o lost) = Completed(ev)
<1>1. PICK S : ev \in Seq(S)
  BY DEF Sequence
<1> DEFINE all == ev \o lost
<1>2. /\ DOMAIN ev = 1..Len(ev) /\ DOMAIN lost = 1..Len(lost)
      /\ DOMAIN all = 1..(Len(ev) + Len(lost)) /\ Len(ev) \in Nat /\ Len(lost) \in Nat
      /\ \A n \in 1..Len(ev) : all[n] = ev[n]
      /\ \A n \in (Len(ev) + 1)..(Len(ev) + Len(lost)) : all[n] = lost[n - Len(ev)]
  <2> DEFINE U == S \cup Lost
  <2>1. ev \in Seq(U) /\ lost \in Seq(U)
    BY <1>1
  <2> HIDE DEF U
  <2>2. Len(ev) \in Nat /\ Len(lost) \in Nat /\ Len(all) = Len(ev) + Len(lost)
        /\ all \in Seq(U)
    BY <2>1
  <2>3. \A n \in 1..Len(ev) : all[n] = ev[n]
    BY <2>1
  <2>4. \A n \in (Len(ev) + 1)..(Len(ev) + Len(lost)) : all[n] = lost[n - Len(ev)]
    BY <2>1
  <2>5. DOMAIN ev = 1..Len(ev) /\ DOMAIN lost = 1..Len(lost) /\ DOMAIN all = 1..Len(all)
    BY <2>1, <2>2
  <2> HIDE DEF all
  <2>6. DOMAIN all = 1..(Len(ev) + Len(lost))
    BY <2>2, <2>5, Zenon
  <2> QED BY <2>2, <2>3, <2>4, <2>5, <2>6, Zenon
<1>3. \A n \in 1..Len(lost) : lost[n].type # "operation.completed"
  <2>1. \A n \in 1..Len(lost) : lost[n] \in Lost
    OBVIOUS
  <2>2. \A e \in Lost : e.type # "operation.completed"
    BY DEF Lost
  <2> QED BY <2>1, <2>2
<1> HIDE DEF all
<1>4. \A n \in DOMAIN all : all[n].type = "operation.completed" =>
        n \in DOMAIN ev /\ all[n] = ev[n]
  <2> SUFFICES ASSUME NEW n \in DOMAIN all, all[n].type = "operation.completed"
               PROVE  n \in DOMAIN ev /\ all[n] = ev[n]
    OBVIOUS
  <2>1. CASE n \in 1..Len(ev)
    BY <1>2, <2>1
  <2>2. CASE n \notin 1..Len(ev)
    <3>1. n \in (Len(ev) + 1)..(Len(ev) + Len(lost)) /\ n - Len(ev) \in 1..Len(lost)
      BY <1>2, <2>2
    <3> QED BY <1>2, <1>3, <3>1
  <2> QED BY <2>1, <2>2
<1>5. \A n \in DOMAIN ev : n \in DOMAIN all /\ all[n] = ev[n]
  BY <1>2
<1>6. Completed(all) = Completed(ev)
  BY <1>4, <1>5 DEF Completed
<1> QED BY <1>6 DEF all

(* Where a process starts nothing is reported.                              *)
LEMMA StartReported ==
  ASSUME IInv, ObserveStart
  PROVE  Reported(published') = {}
<1>1. CASE Idle(s)
  <2>1. published' = << >>
    BY <1>1 DEF ObserveStart, Gone
  <2> QED BY <2>1 DEF Reported, Completed
<1>2. CASE ~Idle(s)
  <2>1. Good(s) /\ OneCurrent(s) /\ s \in State
    BY DEF IInv, FileInv, Good, Sound
  <2>2. s.operation.id \in Id /\ s.operation.kind \in {"run", "compaction"}
    BY <1>2, <2>1, CurrentTypes
  <2>3. \A other \in Id : Unfinished(s, other) <=> other = s.operation.id
    BY <1>2, <2>1, Zenon DEF OneCurrent
  <2> DEFINE told == L!Recovered(L!NoLife, s.operation.id, s.operation.kind)
  <2>4. told.events = <<[type |-> "operation.recovered", id |-> s.operation.id]>>
    BY <2>2, <2>3, RecoveredSeen
  <2>5. published' = told.events
    BY <1>2, Zenon DEF ObserveStart
  <2> HIDE DEF told
  <2> QED BY <2>4, <2>5 DEF Reported, Completed
<1> QED BY <1>1, <1>2

(* A step reports the operations whose end it appends.                      *)
LEMMA NextReported ==
  ASSUME IInv, OInv, ObservedNext
  PROVE  Reported(published') =
            {op \in Id : Unfinished(s, op) /\ ~Unfinished(s', op) /\ heard'}
<1>1. Next
  BY DEF ObservedNext
<1>2. Lines /\ Placed /\ Goes /\ (Died => s' = s /\ pc' = "down")
  BY <1>1, NextPlaced, LeftStays DEF OInv, Placed
<1>3. pc = "down" => s' = s /\ pc' = "recover"
  BY <1>1, DownStarts
<1>4. s' = s \/ ~heard' =>
        {op \in Id : Unfinished(s, op) /\ ~Unfinished(s', op) /\ heard'} = {}
  <2>1. s' = s => \A op \in Id : Unfinished(s', op) <=> Unfinished(s, op)
    BY Zenon
  <2> QED BY <2>1, Zenon
<1>5. CASE heard /\ heard' = TRUE /\ Observe
  <2>1. Running /\ Running'
    BY <1>3, <1>5 DEF Observe, Started, Ended, Running
  <2>2. StepTold(Heard)
    BY <1>2, <2>1, HeardTold
  <2>3. published' = Heard.events
    BY <1>5, Zenon DEF Observe, Hears
  <2> QED BY <1>5, <2>2, <2>3, Zenon DEF StepTold
<1>6. CASE heard /\ heard' = TRUE /\ ObserveEnd
  <2>1. Running
    BY <1>6 DEF ObserveEnd, Ended, Running
  <2>2. /\ StepTold(Heard) /\ Sequence(Heard.events)
        /\ \E lost \in Seq(Lost) : published' = Heard.events \o lost
    BY <1>2, <1>6, <2>1, EndTold
  <2>3. Reported(published') = Reported(Heard.events)
    <3> DEFINE ev == Heard.events
    <3>1. Sequence(ev) /\ \E lost \in Seq(Lost) : published' = ev \o lost
      BY <2>2, Zenon
    <3> HIDE DEF ev
    <3>2. Completed(published') = Completed(ev)
      BY <3>1, LostCompleted
    <3> QED BY <3>2, Zenon DEF ev, Reported
  <2> QED BY <1>6, <2>2, <2>3, Zenon DEF StepTold
<1>7. CASE ObserveDeath
  <2>1. s' = s /\ published' = << >>
    BY <1>2, <1>7 DEF ObserveDeath, Gone
  <2>2. Reported(published') = {}
    BY <2>1 DEF Reported, Completed
  <2> QED BY <1>4, <2>1, <2>2
<1>8. CASE ObserveStart
  <2>1. s' = s
    BY <1>3, <1>8 DEF ObserveStart, Started
  <2> QED BY <1>4, <1>8, <2>1, StartReported
<1>9. CASE heard' = FALSE /\ Unheard
  <2>1. published' = << >>
    BY <1>9 DEF Unheard, Gone
  <2>2. Reported(published') = {}
    BY <2>1 DEF Reported, Completed
  <2> QED BY <1>4, <1>9, <2>2
<1> QED BY <1>5, <1>6, <1>7, <1>8, <1>9, Zenon DEF ObservedNext

(* The end of an operation is published only when the fact is in the file,  *)
(* once, and by the process that appends it if that process lives to tell   *)
(* it (README.md:132, lifecycle.rs, `committed`).                           *)
THEOREM EndAlwaysPublished == ObservedSpec => EndIsPublished
<1> DEFINE A == \A op \in Id :
                  Unfinished(s, op) /\ ~Unfinished(s', op) /\ heard' <=>
                    \E n \in Published("operation.completed") : published'[n].id = op
<1>1. IInv /\ OInv /\ [ObservedNext]_<<vars, observers>> => [A]_<<vars, observers>>
  <2> SUFFICES ASSUME IInv, OInv, ObservedNext PROVE A
    OBVIOUS
  <2>1. Reported(published') =
          {op \in Id : Unfinished(s, op) /\ ~Unfinished(s', op) /\ heard'}
    BY NextReported
  <2> QED BY <2>1, PublishedReported, Zenon
<1> QED BY <1>1, ObservedInvariance, PTL DEF ObservedSpec, EndIsPublished

-----------------------------------------------------------------------------
(* What is known of an operation when it ends *)

(* Of an operation that this process started it has heard of every attempt  *)
(* that is open and of every answer, but for those to a compaction.         *)
Own(t, l, op) == Unfinished(t, op) /\ ~l.operations[op].recovery

Answer(t, a) ==
  t.attempts[a] # None /\ t.attempts[a].kind = "run" /\ t.attempts[a].settled # None

Knows(t, l) ==
  /\ \A op \in Id : Own(t, l, op) => AllHeard(t, l)
  /\ \A a \in Id : Answer(t, a) /\ Own(t, l, t.attempts[a].op) =>
       l.answers[t.attempts[a].settled] # None

(* What was reported of the operations that have completed: a run that this *)
(* process started and that succeeded has its answer.                       *)
AnswersTold(t, ev) ==
  \A e \in Completed(ev) :
    /\ e.id \in Id /\ t.operations[e.id] # None
    /\ e.outcome = "succeeded" /\ ~e.recovery /\ t.operations[e.id].kind = "run" => e.answer

(* An answer to a run that is there after a fact was there before, or is    *)
(* the fact, and answers an attempt that was open.                          *)
LEMMA AnswerBefore ==
  ASSUME NEW t, NEW t1, Good(t), OpenFits(t), NEW f \in Facts, Reduces(t, t1, f),
         Follows(t, t1, f), NEW a \in Id, Answer(t1, a)
  PROVE  /\ t.attempts[a] # None /\ t1.attempts[a].op = t.attempts[a].op
         /\ \/ Answer(t, a) /\ t1.attempts[a].settled = t.attempts[a].settled
            \/ /\ f.type = "assistant" /\ a = f.attempt /\ OpenAttempt(t, a)
               /\ t1.attempts[a].settled = f.id
<1>1. CASE f.type = "stepAttempt"
  <2>1. Opens(t, t1, f)
    BY <1>1 DEF Follows
  <2>2. a # f.attempt
    BY <2>1 DEF Opens, Answer
  <2> QED BY <2>1, <2>2 DEF Opens, AttemptStays, Answer
<1>2. CASE f.type = "assistant"
  <2>1. Closes(t, t1, f.attempt, f.id)
    BY <1>2 DEF Follows
  <2> QED BY <1>2, <2>1 DEF Closes, Answer, OpenAttempt
<1>3. CASE f.type = "stepFailed"
  <2>1. Closes(t, t1, f.attempt, t.attempts[f.attempt].settled)
    BY <1>3 DEF Follows
  <2> QED BY <2>1 DEF Closes, Answer, OpenAttempt
<1>4. CASE f.type = "compaction"
  <2>1. /\ Closes(t, t1, t.operation.step.attempt, f.id)
        /\ t.attempts[t.operation.step.attempt].kind = "compaction"
    BY <1>4, SummarisesOne DEF Follows
  <2> QED BY <2>1 DEF Closes, Answer, OpenAttempt
<1>5. CASE f.type \notin {"stepAttempt", "assistant", "stepFailed", "compaction"}
  <2>1. t1.attempts = t.attempts
    BY <1>5 DEF Follows
  <2> QED BY <2>1 DEF Answer
<1> QED BY <1>1, <1>2, <1>3, <1>4, <1>5

(* An operation that is unfinished after a fact, and not begun by it, is    *)
(* held as it was.                                                          *)
LEMMA OwnBefore ==
  ASSUME NEW t, NEW t1, Good(t1), NEW f, Follows(t, t1, f),
         NEW told, NEW told1, Hears1(t, t1, told, told1, f),
         NEW op \in Id, Unfinished(t1, op), f.type \notin Starts
  PROVE  /\ f.type # "operationFinished" /\ Unfinished(t, op)
         /\ told1.life.operations = told.life.operations
         /\ told1.life.operationUsage = told.life.operationUsage
<1>1. f.type # "operationFinished"
  <2>1. f.type = "operationFinished" => OpEnds(t, t1, f.op)
    BY DEF Follows
  <2> QED BY <2>1, OneAtOnce
<1>2. Unfinished(t, op)
  BY <1>1 DEF Follows, SameOperations1, Starts
<1>3. f.type \notin Starts \cup {"operationFinished"}
  BY <1>1
<1> QED BY <1>1, <1>2, <1>3 DEF Hears1

(* A fact leaves known what there is to know,                               *)
LEMMA KnowsNext ==
  ASSUME NEW t, NEW t1, Good(t), Good(t1), OpenFits(t), NEW f \in Facts, Reduces(t, t1, f),
         Follows(t, t1, f), NEW told, NEW told1, Hears1(t, t1, told, told1, f),
         NEW sp0, Seen(t, sp0, told), Knows(t, told.life)
  PROVE  Knows(t1, told1.life)
<1>1. CASE f.type \in Starts
  <2>1. OpBegins(t, t1, f.op) /\ t1.attempts = t.attempts
    BY <1>1 DEF Follows, Starts
  <2>2. f.op \in Id /\ t.operations[f.op] = None
    BY <2>1 DEF OpBegins
  <2>3. \A op \in Id : Unfinished(t1, op) => op = f.op
    BY <2>1, OneAtOnce
  <2>4. \A a \in Id : t.attempts[a] # None =>
          t.attempts[a].op \in Id /\ t.attempts[a].op # f.op
    BY <2>2, AttemptOps DEF Good, Ledger, AttemptSide, AttemptOwned
  <2>5. \A a \in Id : ~OpenAttempt(t1, a)
    <3> SUFFICES ASSUME NEW a \in Id, OpenAttempt(t, a) PROVE FALSE
      BY <2>1 DEF OpenAttempt
    <3>1. Unfinished(t, t.attempts[a].op) /\ t.attempts[a].op \in Id
      BY <2>4 DEF OpenFits, OpenAttempt
    <3>2. Unfinished(t1, t.attempts[a].op)
      BY <2>1, <3>1, Zenon DEF OpBegins
    <3> QED BY <2>3, <2>4, <3>1, <3>2 DEF OpenAttempt
  <2>6. AllHeard(t1, told1.life)
    BY <2>5 DEF AllHeard
  <2>7. \A a \in Id : Answer(t1, a) => ~Unfinished(t1, t1.attempts[a].op)
    BY <2>1, <2>3, <2>4 DEF Answer
  <2> QED BY <2>6, <2>7 DEF Knows, Own
<1>2. CASE f.type \notin Starts
  <2>1. ASSUME NEW op \in Id, Own(t1, told1.life, op)
        PROVE  /\ Own(t, told.life, op) /\ f.type # "operationFinished"
               /\ AllHeard(t, told.life) /\ AllHeard(t1, told1.life)
    <3>1. /\ f.type # "operationFinished" /\ Unfinished(t, op)
          /\ told1.life.operations = told.life.operations
      BY <1>2, <2>1, OwnBefore DEF Own
    <3>2. Own(t, told.life, op)
      BY <2>1, <3>1 DEF Own
    <3>3. AllHeard(t, told.life)
      BY <3>2 DEF Knows
    <3> QED BY <3>1, <3>2, <3>3 DEF Hears1
  <2>2. ASSUME NEW a \in Id, Answer(t1, a), Own(t1, told1.life, t1.attempts[a].op)
        PROVE  told1.life.answers[t1.attempts[a].settled] # None
    <3>1. /\ t.attempts[a] # None /\ t1.attempts[a].op = t.attempts[a].op
          /\ \/ Answer(t, a) /\ t1.attempts[a].settled = t.attempts[a].settled
             \/ /\ f.type = "assistant" /\ a = f.attempt /\ OpenAttempt(t, a)
                /\ t1.attempts[a].settled = f.id
      BY <2>2, AnswerBefore
    <3>2. t.attempts[a].op \in Id
      BY <3>1, AttemptOps
    <3>3. Own(t, told.life, t.attempts[a].op) /\ f.type # "operationFinished"
          /\ AllHeard(t, told.life)
      BY <2>1, <2>2, <3>1, <3>2
    <3>4. told.life \in L!Life
      BY DEF Seen, Sees
    <3>5. f.type = "assistant" => f.id \in Id /\ f.attempt \in Id
      BY DEF Facts, UserFacts, AssistantFacts, SyntheticFacts, ResultFacts, SummaryFacts, RunFacts,
         CompactionFacts, AttemptFacts, FailureFacts, ToolFacts, AbortFacts, FinishFacts, UsageFacts
    <3>6. f.type = "assistant" /\ told.life.models[f.attempt] # None =>
            told.life.models[f.attempt].op # None
      BY <3>4, <3>5, NoneAssumption DEF L!Life, L!LiveModel
    <3>7. told.life.answers \in [Id -> Id \cup {None}]
      BY <3>4 DEF L!Life
    <3>8. CASE Answer(t, a) /\ t1.attempts[a].settled = t.attempts[a].settled
      <4>1. told.life.answers[t.attempts[a].settled] # None
        BY <3>3, <3>8 DEF Knows
      <4>2. t.attempts[a].settled \in Id
        BY <3>8 DEF Answer, Good, SettledSide
      <4>3. CASE f.type = "assistant"
        <5>1. AnswerTold(told, told1, f)
          BY <4>3 DEF Hears1
        <5> QED BY <3>5, <3>6, <3>7, <3>8, <4>1, <4>2, <4>3, <5>1 DEF AnswerTold
      <4>4. CASE f.type # "assistant"
        <5>1. told1.life.answers = told.life.answers
          BY <3>3, <4>4 DEF Hears1
        <5> QED BY <3>8, <4>1, <5>1
      <4> QED BY <4>3, <4>4
    <3>9. CASE /\ f.type = "assistant" /\ a = f.attempt /\ OpenAttempt(t, a)
               /\ t1.attempts[a].settled = f.id
      <4>1. told.life.models[f.attempt] # None
        BY <3>3, <3>9 DEF AllHeard
      <4>2. AnswerTold(told, told1, f)
        BY <3>9 DEF Hears1
      <4> QED BY <3>5, <3>6, <3>7, <3>9, <4>1, <4>2 DEF AnswerTold
    <3> QED BY <3>1, <3>8, <3>9
  <2>3. \A op \in Id : Own(t1, told1.life, op) => AllHeard(t1, told1.life)
    BY <2>1
  <2> QED BY <2>2, <2>3, Zenon DEF Knows
<1> QED BY <1>1, <1>2

(* and what was reported is so.                                             *)
LEMMA AnswersToldNext ==
  ASSUME NEW t, NEW t1, Good(t), NEW f \in Facts, Reduces(t, t1, f),
         NEW told, NEW told1, Hears1(t, t1, told, told1, f), Knows(t, told.life),
         Follows(t, t1, f), AnswersTold(t, told.events)
  PROVE  AnswersTold(t1, told1.events)
<1>1. OperationsPersist(t, t1)
  BY OperationsStay
<1>2. \A e \in Completed(told.events) :
        /\ e.id \in Id /\ t1.operations[e.id] # None
        /\ e.outcome = "succeeded" /\ ~e.recovery /\ t1.operations[e.id].kind = "run" => e.answer
  BY <1>1 DEF AnswersTold, OperationsPersist
<1>3. CASE f.type # "operationFinished"
  <2>1. Completed(told1.events) = Completed(told.events)
    BY <1>3 DEF Hears1
  <2> QED BY <1>2, <2>1 DEF AnswersTold
<1>4. CASE f.type = "operationFinished"
  <2> DEFINE e == Completion(told, f)
  <2>1. Completed(told1.events) = Completed(told.events) \cup {e}
    BY <1>4 DEF Hears1
  <2>2. f.op \in Id /\ Unfinished(t, f.op)
    BY <1>4 DEF Follows, OpEnds
  <2>3. t1.operations[f.op] # None /\ t1.operations[f.op].kind = t.operations[f.op].kind
    BY <1>1, <2>2 DEF OperationsPersist, Unfinished
  <2>4. /\ e.id = f.op /\ e.outcome = L!Outcome(f.outcome)
        /\ e.recovery = told.life.operations[f.op].recovery
        /\ e.answer = (f.final # None /\ told.life.answers[f.final] # None)
    BY DEF Completion
  <2> HIDE DEF e
  <2>5. ASSUME e.outcome = "succeeded", ~e.recovery, t.operations[f.op].kind = "run"
        PROVE  e.answer
    <3>1. f.outcome = "completed"
      BY <2>4, <2>5 DEF L!Outcome
    <3>2. PICK a \in Id : /\ t.attempts[a] # None /\ t.attempts[a].op = f.op
                          /\ t.attempts[a].kind = t.operations[f.op].kind
                          /\ t.attempts[a].settled = f.final
      BY <1>4, <3>1, CompletedBy
    <3>3. f.final # None
      BY <1>4, <3>1, CompletedBy
    <3>4. Answer(t, a) /\ Own(t, told.life, t.attempts[a].op)
      BY <2>2, <2>4, <2>5, <3>2, <3>3 DEF Answer, Own
    <3>5. told.life.answers[f.final] # None
      BY <3>2, <3>4 DEF Knows
    <3> QED BY <2>4, <3>3, <3>5
  <2> QED BY <1>2, <2>1, <2>2, <2>3, <2>4, <2>5 DEF AnswersTold
<1> QED BY <1>3, <1>4

(* A line that answers one operation charges it for its answers,            *)
LEMMA SpentMore ==
  ASSUME NEW t, NEW t1, Charged(t), Charged(t1), SettledStay(t, t1), NEW op,
         \A a \in SettledAttempts(t1) : a \in SettledAttempts(t) \/ t1.attempts[a].op = op
  PROVE  Spent(t1, op) = Spent(t, op) + (t1.usage - t.usage)
<1> DEFINE S == SettledAttempts(t)
           S1 == SettledAttempts(t1)
           A == AnswersTo(t, op)
           A1 == AnswersTo(t1, op)
<1>1. S \subseteq S1 /\ A \subseteq A1 /\ A1 \ A = S1 \ S /\ A \subseteq S /\ A1 \subseteq S1
  BY DEF SettledStay, AnswersTo, SettledAttempts
<1>2. S1 \in SUBSET Id
  BY DEF SettledAttempts
<1> HIDE DEF S, S1, A, A1
<1>3. IsFiniteSet(S1)
  BY <1>2, BoundsAssumption, FS_Subset
<1>4. IsFiniteSet(A1)
  BY <1>1, <1>3, FS_Subset
<1>5. IsFiniteSet(S) /\ IsFiniteSet(A)
  BY <1>1, <1>3, <1>4, FS_Subset
<1>6. S1 \cap S = S /\ A1 \cap A = A
  BY <1>1
<1>7. Cardinality(S1 \ S) = Cardinality(S1) - Cardinality(S)
  BY <1>3, <1>6, FS_Difference
<1>8. Cardinality(A1 \ A) = Cardinality(A1) - Cardinality(A)
  BY <1>4, <1>6, FS_Difference
<1>9. Cardinality(S) \in Nat /\ Cardinality(S1) \in Nat /\ Cardinality(A) \in Nat
      /\ Cardinality(A1) \in Nat
  BY <1>3, <1>4, <1>5, FS_CardinalityType
<1>10. t.usage = Cardinality(S) /\ t1.usage = Cardinality(S1)
  BY DEF Charged, S, S1
<1>11. Cardinality(A1) - Cardinality(A) = Cardinality(S1) - Cardinality(S)
  BY <1>1, <1>7, <1>8, Zenon
<1>12. Cardinality(A1) = Cardinality(A) + (Cardinality(S1) - Cardinality(S))
  BY <1>9, <1>11
<1> QED BY <1>10, <1>12 DEF Spent, A, A1

(* and one that charges nothing answers nothing.                            *)
LEMMA SpentSame ==
  ASSUME NEW t, NEW t1, Charged(t), Charged(t1), SettledStay(t, t1), t1.usage = t.usage
  PROVE  \A op : AnswersTo(t1, op) = AnswersTo(t, op)
<1>1. SettledAttempts(t1) \in SUBSET Id /\ SettledAttempts(t) \in SUBSET SettledAttempts(t1)
  BY DEF SettledAttempts, SettledStay
<1>2. IsFiniteSet(SettledAttempts(t1))
  BY <1>1, BoundsAssumption, FS_Subset
<1>3. SettledAttempts(t) = SettledAttempts(t1)
  BY <1>1, <1>2, FS_Subset DEF Charged
<1> QED BY <1>3 DEF AnswersTo, SettledAttempts, SettledStay

(* What a line adds to the usage of the current operation is what it        *)
(* charges the session.                                                     *)
LEMMA ChargeOf ==
  ASSUME NEW t, NEW t1, NEW l \in L!Life, NEW facts, FitsFile(t, facts), ~Idle(t),
         NEW T, Trace(t, t1, facts, T), \A n \in 0..Len(facts) : T[n] \in State
  PROVE  L!Charged(l, facts).operationUsage[t.operation.id]
           = l.operationUsage[t.operation.id] + (t1.usage - t.usage)
<1> DEFINE K == Len(facts)
           l1 == L!Charged(l, facts)
           op == t.operation.id
<1>1. K \in Nat /\ \A n \in 1..K : facts[n] \in Facts /\ (facts[n].type = "usage" => facts[n].op = op)
  BY DEF FitsFile
<1>2. PICK h : ChargeTrace(l, l1, facts, h)
  BY <1>1, ChargeFold
<1>3. T[0] = t /\ T[K] = t1 /\ \A n \in 1..K : Reduces(T[n - 1], T[n], facts[n])
  BY DEF Trace
<1>4. h[0] = l.operationUsage /\ l1 = [l EXCEPT !.operationUsage = h[K]]
  BY <1>2, Zenon DEF ChargeTrace
<1>5. l1.operationUsage = h[K]
  BY <1>4 DEF L!Life
<1>6. t \in State /\ t1 \in State /\ op \in Id
  <2>1. 0 \in 0..K /\ K \in 0..K
    BY <1>1
  <2>2. t \in State /\ t1 \in State
    BY <1>3, <2>1
  <2> QED BY <2>2, CurrentTypes
<1>7. \A n \in 0..K : T[n].usage \in Nat
  BY DEF State
<1> HIDE DEF l1, op
<1> DEFINE R == {n \in Nat : n <= K =>
                   h[n] \in [Id -> Nat] /\ h[n][op] = l.operationUsage[op] + (T[n].usage - t.usage)}
<1>8. 0 \in R
  <2>1. h[0] \in [Id -> Nat] /\ t.usage \in Nat
    BY <1>4, <1>6 DEF L!Life, State
  <2> QED BY <1>3, <1>4, <1>6, <2>1
<1>9. ASSUME NEW n \in R PROVE n + 1 \in R
  <2> SUFFICES ASSUME n + 1 <= K
               PROVE  /\ h[n + 1] \in [Id -> Nat]
                      /\ h[n + 1][op] = l.operationUsage[op] + (T[n + 1].usage - t.usage)
    OBVIOUS
  <2> DEFINE m == n + 1
             f == facts[m]
  <2>1. /\ m \in 1..K /\ m - 1 = n /\ n \in 0..K /\ m \in 0..K
        /\ h[n] \in [Id -> Nat] /\ h[n][op] = l.operationUsage[op] + (T[n].usage - t.usage)
    OBVIOUS
  <2>2. /\ h[m] = IF f.type = "usage" THEN [h[m - 1] EXCEPT ![f.op] = @ + f.amount] ELSE h[m - 1]
        /\ Reduces(T[m - 1], T[m], f)
    BY <1>2, <1>3, <2>1, Zenon DEF ChargeTrace
  <2>3. f \in Facts /\ (f.type = "usage" => f.op = op)
    BY <1>1, <2>1
  <2>4. T[n].usage \in Nat /\ T[m].usage \in Nat /\ t.usage \in Nat /\ T[n] \in State
    BY <1>6, <1>7, <2>1 DEF State
  <2> HIDE DEF f, m
  <2>5. f.type = "usage" => f.amount \in Nat
    BY <2>3 DEF Facts, UserFacts, AssistantFacts, SyntheticFacts, ResultFacts, SummaryFacts, RunFacts,
         CompactionFacts, AttemptFacts, FailureFacts, ToolFacts, AbortFacts, FinishFacts, UsageFacts
  <2>6. /\ f.type # "usage" => T[m].usage = T[n].usage
        /\ f.type = "usage" => T[m].usage = T[n].usage + f.amount
    BY <2>1, <2>2, <2>3, <2>4, FactCharge
  <2>7. l.operationUsage[op] \in Nat
    BY <1>6 DEF L!Life
  <2>8. h[m] \in [Id -> Nat] /\ h[m][op] = l.operationUsage[op] + (T[m].usage - t.usage)
    <3>1. CASE f.type = "usage"
      <4>1. h[m] = [h[n] EXCEPT ![op] = @ + f.amount]
        BY <2>1, <2>2, <2>3, <3>1
      <4>2. h[m] \in [Id -> Nat] /\ h[m][op] = h[n][op] + f.amount
        BY <1>6, <2>1, <2>5, <3>1, <4>1
      <4> QED BY <2>1, <2>4, <2>5, <2>6, <2>7, <3>1, <4>2
    <3>2. CASE f.type # "usage"
      BY <2>1, <2>2, <2>6, <3>2
    <3> QED BY <3>1, <3>2
  <2> QED BY <2>8 DEF m
<1>10. Nat \subseteq R
  <2> HIDE DEF R
  <2> QED BY <1>8, <1>9, SetInduction DEF R
<1>11. h[K][op] = l.operationUsage[op] + (T[K].usage - t.usage)
  BY <1>1, <1>10
<1> QED BY <1>3, <1>5, <1>11 DEF l1, op

-----------------------------------------------------------------------------
(* What a line makes known of an operation *)

(* What the first facts of a line have made known: of the operations that   *)
(* are unfinished only one begun by the line was not there, and what is     *)
(* charged is that of the whole line; so is what was reported.              *)
UsageSoFar(t, l, charge, facts, tn, told) ==
  /\ SettledStay(t, tn)
  /\ \A op \in Id : t.operations[op] # None => tn.operations[op] # None
  /\ \A op \in Id : Unfinished(tn, op) =>
       \/ /\ Unfinished(t, op) /\ told.life.operations[op] = l.operations[op]
          /\ told.life.operationUsage[op] = charge[op]
       \/ t.operations[op] = None /\ told.life.operationUsage[op] = 0
  /\ \A e \in Completed(told.events) :
       /\ e.id \in Id /\ Unfinished(t, e.id) /\ e.usage = charge[e.id]
       /\ e.recovery = l.operations[e.id].recovery
  /\ NoStarts(facts) => \A a \in SettledAttempts(tn) :
       a \in SettledAttempts(t) \/ Unfinished(t, tn.attempts[a].op)

(* One more fact.                                                           *)
LEMMA UsageOneMore ==
  ASSUME NEW t, NEW l, NEW charge, NEW facts, NEW tn, NEW told, NEW n \in 1..Len(facts),
         NEW tn1, NEW told1, ToldSoFar(t, l, facts, tn, told),
         UsageSoFar(t, l, charge, facts, tn, told),
         NoStarts(facts) \/ NoFact("operationFinished", facts),
         Good(tn), OpenFits(tn), Good(tn1), facts[n] \in Facts, Reduces(tn, tn1, facts[n]),
         Follows(tn, tn1, facts[n]), Hears1(tn, tn1, told, told1, facts[n]),
         NEW sp0, Seen(tn, sp0, told)
  PROVE  UsageSoFar(t, l, charge, facts, tn1, told1)
<1> DEFINE f == facts[n]
<1>1. f.type = "operationFinished" => NoStarts(facts)
  BY DEF NoFact
<1>2. /\ NoStarts(facts) => f.type \notin Starts
      /\ f \in Facts /\ Reduces(tn, tn1, f) /\ Follows(tn, tn1, f)
      /\ Hears1(tn, tn1, told, told1, f)
  BY DEF NoStarts
<1> HIDE DEF f
<1>3. /\ SettledStay(tn, tn1)
      /\ \A a \in SettledAttempts(tn1) :
           /\ tn.attempts[a] # None /\ tn1.attempts[a].op = tn.attempts[a].op
           /\ a \in SettledAttempts(tn) \/ Unfinished(tn, tn.attempts[a].op)
  BY <1>2, SettledNext
<1>4. SettledStay(t, tn1)
  BY <1>3 DEF UsageSoFar, SettledStay
<1>5. \A op \in Id : t.operations[op] # None => tn1.operations[op] # None
  <2>1. OperationsPersist(tn, tn1)
    BY <1>2, OperationsStay
  <2> QED BY <2>1 DEF UsageSoFar, OperationsPersist
<1>6. NoStarts(facts) => \A op \in Id : Unfinished(tn, op) => Unfinished(t, op)
  BY DEF ToldSoFar
<1>7. NoStarts(facts) => \A a \in SettledAttempts(tn1) :
        a \in SettledAttempts(t) \/ Unfinished(t, tn1.attempts[a].op)
  <2> SUFFICES ASSUME NoStarts(facts), NEW a \in SettledAttempts(tn1)
               PROVE  a \in SettledAttempts(t) \/ Unfinished(t, tn1.attempts[a].op)
    OBVIOUS
  <2>1. a \in Id /\ tn.attempts[a] # None /\ tn1.attempts[a].op = tn.attempts[a].op
    BY <1>3 DEF SettledAttempts
  <2>2. tn.attempts[a].op \in Id
    BY <2>1, AttemptOps
  <2>3. a \in SettledAttempts(tn) => a \in SettledAttempts(t) \/ Unfinished(t, tn.attempts[a].op)
    BY DEF UsageSoFar
  <2> QED BY <1>3, <1>6, <2>1, <2>2, <2>3
<1>8. told.life.operationUsage \in [Id -> Nat]
  BY DEF Seen, Sees, L!Life
<1>9. ASSUME NEW op \in Id, Unfinished(tn1, op)
      PROVE  \/ /\ Unfinished(t, op) /\ told1.life.operations[op] = l.operations[op]
                /\ told1.life.operationUsage[op] = charge[op]
             \/ t.operations[op] = None /\ told1.life.operationUsage[op] = 0
  <2>1. CASE f.type \in Starts
    <3>1. OpBegins(tn, tn1, f.op)
      BY <1>2, <2>1 DEF Follows, Starts
    <3>2. op = f.op
      BY <1>9, <3>1, OneAtOnce
    <3>3. told1.life.operationUsage = [told.life.operationUsage EXCEPT ![f.op] = 0]
      BY <1>2, <2>1 DEF Hears1, StartTold
    <3>4. tn.operations[op] = None
      BY <3>1, <3>2 DEF OpBegins
    <3> QED BY <1>8, <3>2, <3>3, <3>4 DEF UsageSoFar
  <2>2. CASE f.type \notin Starts
    <3>1. /\ Unfinished(tn, op) /\ told1.life.operations = told.life.operations
          /\ told1.life.operationUsage = told.life.operationUsage
      BY <1>2, <1>9, <2>2, OwnBefore
    <3> QED BY <3>1 DEF UsageSoFar
  <2> QED BY <2>1, <2>2
<1>10. ASSUME NEW e \in Completed(told1.events)
       PROVE  /\ e.id \in Id /\ Unfinished(t, e.id) /\ e.usage = charge[e.id]
              /\ e.recovery = l.operations[e.id].recovery
  <2>1. CASE e \in Completed(told.events)
    BY <2>1 DEF UsageSoFar
  <2>2. CASE e \notin Completed(told.events)
    <3>1. f.type = "operationFinished" /\ e = Completion(told, f)
      BY <1>2, <1>10, <2>2 DEF Hears1
    <3>2. /\ e.id = f.op /\ e.usage = told.life.operationUsage[f.op]
          /\ e.recovery = told.life.operations[f.op].recovery
      BY <3>1 DEF Completion
    <3>3. f.op \in Id /\ Unfinished(tn, f.op)
      BY <1>2, <3>1 DEF Follows, OpEnds
    <3>4. Unfinished(t, f.op)
      BY <1>1, <1>6, <3>1, <3>3
    <3>5. t.operations[f.op] # None
      BY <3>4 DEF Unfinished
    <3>6. /\ told.life.operations[f.op] = l.operations[f.op]
          /\ told.life.operationUsage[f.op] = charge[f.op]
      BY <3>3, <3>5 DEF UsageSoFar
    <3> QED BY <3>2, <3>3, <3>4, <3>6
  <2> QED BY <2>1, <2>2
<1> QED BY <1>4, <1>5, <1>7, <1>9, <1>10 DEF UsageSoFar

(* Any number of facts.                                                     *)
LEMMA LineCounted ==
  ASSUME NEW t, NEW t1, NEW l, NEW sp0, NEW facts, Sees(t, l, sp0), LineFits(t, l, facts),
         NEW T, NEW h, HeardTrace(t, t1, l, sp0, facts, T, h), Knows(t, l)
  PROVE  LET told == L!Committed(l, facts)
             charge == L!Charged(l, facts).operationUsage
         IN  /\ UsageSoFar(t, l, charge, facts, t1, told)
             /\ Knows(t1, told.life) /\ AnswersTold(t1, told.events)
<1> DEFINE K == Len(facts)
           l0 == L!Charged(l, facts)
           charge == l0.operationUsage
           told == L!Committed(l, facts)
<1>1. K \in Nat /\ \A n \in 1..K : facts[n] \in Facts
  BY DEF LineFits
<1>2. T[0] = t /\ T[K] = t1 /\ \A n \in 1..K : Reduces(T[n - 1], T[n], facts[n])
  BY DEF HeardTrace, Trace
<1>3. h[0] = L!Quiet(l0) /\ h[K] = told
  BY DEF HeardTrace, CommitTrace
<1>4. /\ \A n \in 0..K : Good(T[n]) /\ OpenFits(T[n]) /\ Seen(T[n], sp0, h[n])
      /\ \A n \in 1..K : /\ Follows(T[n - 1], T[n], facts[n])
                         /\ Hears1(T[n - 1], T[n], h[n - 1], h[n], facts[n])
  BY DEF HeardTrace
<1>5. l0.operations = l.operations /\ l0.models = l.models /\ l0.answers = l.answers
  <2>1. l \in L!Life
    BY DEF Sees
  <2> QED BY <1>1, <2>1, ChargedLife
<1>6. \A n \in 0..K : ToldSoFar(t, l, facts, T[n], h[n])
  BY LineResult
<1>7. NoStarts(facts) \/ NoFact("operationFinished", facts)
  BY DEF LineFits, NoStarts, NoFact
<1> HIDE DEF l0, charge, told
<1> DEFINE P(n) == /\ UsageSoFar(t, l, charge, facts, T[n], h[n])
                   /\ Knows(T[n], h[n].life) /\ AnswersTold(T[n], h[n].events)
           R == {n \in Nat : n <= K => P(n)}
<1>8. 0 \in R
  <2>1. h[0].life = l0 /\ h[0].events = << >>
    BY <1>3 DEF L!Quiet
  <2>2. Completed(<< >>) = {}
    BY DEF Completed
  <2>3. Knows(t, l0)
    BY <1>5 DEF Knows, Own, AllHeard
  <2>4. UsageSoFar(t, l, charge, facts, t, h[0])
    BY <1>5, <2>1, <2>2 DEF UsageSoFar, SettledStay, charge
  <2>5. AnswersTold(t, << >>)
    BY <2>2 DEF AnswersTold
  <2> QED BY <1>2, <2>1, <2>3, <2>4, <2>5
<1>9. ASSUME NEW n \in R PROVE n + 1 \in R
  <2> SUFFICES ASSUME n + 1 <= K PROVE P(n + 1)
    OBVIOUS
  <2>1. n + 1 \in 1..K /\ (n + 1) - 1 = n /\ n \in 0..K /\ n + 1 \in 0..K /\ P(n)
    BY <1>1
  <2>2. /\ Follows(T[(n + 1) - 1], T[n + 1], facts[n + 1])
        /\ Hears1(T[(n + 1) - 1], T[n + 1], h[(n + 1) - 1], h[n + 1], facts[n + 1])
        /\ Reduces(T[(n + 1) - 1], T[n + 1], facts[n + 1]) /\ facts[n + 1] \in Facts
    BY <1>1, <1>2, <1>4, <2>1, Zenon
  <2>3. /\ Good(T[n]) /\ OpenFits(T[n]) /\ Seen(T[n], sp0, h[n]) /\ Good(T[n + 1])
        /\ ToldSoFar(t, l, facts, T[n], h[n])
    BY <1>4, <1>6, <2>1
  <2> DEFINE tn == T[n]
             tn1 == T[n + 1]
             x == h[n]
             x1 == h[n + 1]
             f == facts[n + 1]
  <2>4. /\ Follows(tn, tn1, f) /\ Hears1(tn, tn1, x, x1, f) /\ Reduces(tn, tn1, f) /\ f \in Facts
        /\ Good(tn) /\ OpenFits(tn) /\ Seen(tn, sp0, x) /\ Good(tn1)
        /\ ToldSoFar(t, l, facts, tn, x) /\ UsageSoFar(t, l, charge, facts, tn, x)
        /\ Knows(tn, x.life) /\ AnswersTold(tn, x.events)
    BY <2>1, <2>2, <2>3
  <2>5. UsageSoFar(t, l, charge, facts, tn1, x1)
    BY <1>7, <2>1, <2>4, UsageOneMore
  <2> HIDE DEF tn, tn1, x, x1, f
  <2>6. Knows(tn1, x1.life)
    BY <2>4, KnowsNext
  <2>7. AnswersTold(tn1, x1.events)
    BY <2>4, AnswersToldNext
  <2> QED BY <2>5, <2>6, <2>7 DEF tn1, x1
<1>10. P(K)
  <2>1. R \in SUBSET Nat
    OBVIOUS
  <2> HIDE DEF R
  <2>2. Nat \subseteq R
    BY <1>8, <1>9, <2>1, SetInduction
  <2>3. K \in R /\ K <= K
    BY <1>1, <2>2
  <2> USE DEF R
  <2> QED BY <2>3
<1> QED BY <1>2, <1>3, <1>10 DEF told, charge, l0

(* What an operation was charged is no more than its answers, and all of    *)
(* them if this process started it; so is what is reported at its end.      *)
UsageFits(t, op, amount, recovery) ==
  amount <= Spent(t, op) /\ (~recovery => amount = Spent(t, op))

UsageKnown(t, l) ==
  \A op \in Id : Unfinished(t, op) =>
    UsageFits(t, op, l.operationUsage[op], l.operations[op].recovery)

UsageTold(t, ev) ==
  \A e \in Completed(ev) : UsageFits(t, e.id, e.usage, e.recovery)

(* The answers to an operation can be counted.                              *)
LEMMA SpentNat == ASSUME NEW t, NEW op PROVE Spent(t, op) \in Nat
<1>1. AnswersTo(t, op) \in SUBSET Id
  BY DEF AnswersTo
<1>2. IsFiniteSet(AnswersTo(t, op))
  BY <1>1, BoundsAssumption, FS_Subset
<1> QED BY <1>2, FS_CardinalityType DEF Spent

(* A line charges the operation that it answers.                            *)
LEMMA LineUsed ==
  ASSUME NEW t, NEW t1, NEW l, NEW sp0, NEW facts, Good(t), OpenFits(t), Sees(t, l, sp0),
         LineFits(t, l, facts), FitsFile(t, facts), t1 \in ReduceLine(t, facts),
         Knows(t, l), UsageKnown(t, l), Charged(t), Charged(t1)
  PROVE  LET told == L!Committed(l, facts)
         IN  /\ Knows(t1, told.life) /\ UsageKnown(t1, told.life)
             /\ AnswersTold(t1, told.events) /\ UsageTold(t1, told.events)
<1> DEFINE K == Len(facts)
           charge == L!Charged(l, facts).operationUsage
           told == L!Committed(l, facts)
<1>1. PICK T, h : HeardTrace(t, t1, l, sp0, facts, T, h)
  BY LineHeard
<1>2. /\ UsageSoFar(t, l, charge, facts, t1, told)
      /\ Knows(t1, told.life) /\ AnswersTold(t1, told.events)
  BY <1>1, LineCounted
<1>3. /\ \A n \in 0..K : T[n] \in State /\ Good(T[n]) /\ ToldSoFar(t, l, facts, T[n], h[n])
      /\ Trace(t, t1, facts, T) /\ T[K] = t1 /\ h[K] = told
  BY <1>1, LineResult DEF HeardTrace, Trace, CommitTrace, Good, Sound
<1>4. /\ K \in Nat /\ l \in L!Life /\ t \in State /\ OneCurrent(t)
      /\ \A n \in 1..K : facts[n] \in Facts
  BY DEF LineFits, Sees, Good, Sound
<1>5. t1 \in State /\ Good(t1) /\ ToldSoFar(t, l, facts, t1, told)
  <2>1. K \in 0..K
    BY <1>4
  <2> QED BY <1>3, <2>1
<1>6. NoStarts(facts) \/ (NoFact("operationFinished", facts) /\ NoFact("usage", facts))
  BY DEF FitsFile
<1>7. NoFact("usage", facts) => t1.usage = t.usage /\ charge = l.operationUsage
  <2> SUFFICES ASSUME NoFact("usage", facts) PROVE t1.usage = t.usage /\ charge = l.operationUsage
    OBVIOUS
  <2>1. Without(Members(facts), {"usage"})
    BY DEF NoFact, Without, Members
  <2>2. t1.usage = t.usage
    BY <1>4, <2>1, LineKept DEF Keeps, KeepsCharges
  <2>3. charge = l.operationUsage
    BY <1>4, ChargedLife DEF NoFact
  <2> QED BY <2>2, <2>3
<1>8. ~Idle(t) => charge[t.operation.id] = l.operationUsage[t.operation.id] + (t1.usage - t.usage)
  <2> SUFFICES ASSUME ~Idle(t)
               PROVE  charge[t.operation.id] = l.operationUsage[t.operation.id] + (t1.usage - t.usage)
    OBVIOUS
  <2> QED BY <1>3, <1>4, ChargeOf
<1> HIDE DEF charge, told
<1>9. ASSUME NEW op \in Id, Unfinished(t, op)
      PROVE  UsageFits(t1, op, charge[op], l.operations[op].recovery)
  <2>1. UsageFits(t, op, l.operationUsage[op], l.operations[op].recovery)
    BY <1>9 DEF UsageKnown
  <2>2. ~Idle(t) /\ op = t.operation.id
    BY <1>4, <1>9, Zenon DEF OneCurrent
  <2>3. SettledStay(t, t1)
    BY <1>2 DEF UsageSoFar
  <2>4. CASE NoStarts(facts)
    <3>1. \A a \in SettledAttempts(t1) : a \in SettledAttempts(t) \/ t1.attempts[a].op = op
      <4> SUFFICES ASSUME NEW a \in SettledAttempts(t1), a \notin SettledAttempts(t)
                   PROVE  t1.attempts[a].op = op
        OBVIOUS
      <4>1. Unfinished(t, t1.attempts[a].op)
        BY <1>2, <2>4 DEF UsageSoFar
      <4>2. t1.attempts[a].op \in Id
        BY <1>5, AttemptOps DEF SettledAttempts
      <4> QED BY <1>4, <2>2, <4>1, <4>2, Zenon DEF OneCurrent
    <3>2. Spent(t1, op) = Spent(t, op) + (t1.usage - t.usage)
      BY <2>3, <3>1, SpentMore
    <3>3. charge[op] = l.operationUsage[op] + (t1.usage - t.usage)
      BY <1>8, <2>2
    <3>4. /\ Spent(t, op) \in Nat /\ l.operationUsage[op] \in Nat
          /\ t.usage \in Nat /\ t1.usage \in Nat
      BY <1>4, <1>5, SpentNat DEF L!Life, State
    <3> QED BY <2>1, <3>2, <3>3, <3>4 DEF UsageFits
  <2>5. CASE NoFact("usage", facts)
    <3>1. AnswersTo(t1, op) = AnswersTo(t, op)
      BY <1>7, <2>3, <2>5, SpentSame
    <3> QED BY <1>7, <2>1, <2>5, <3>1 DEF UsageFits, Spent
  <2> QED BY <1>6, <2>4, <2>5
<1>10. ASSUME NEW op \in Id, t.operations[op] = None, Unfinished(t1, op)
       PROVE  Spent(t1, op) = 0
  <2>1. ~Unfinished(t, op)
    BY <1>10 DEF Unfinished
  <2>2. NoFact("usage", facts)
    BY <1>5, <1>6, <1>10, <2>1 DEF ToldSoFar
  <2>3. AnswersTo(t1, op) = AnswersTo(t, op)
    BY <1>2, <1>7, <2>2, SpentSame DEF UsageSoFar
  <2>4. AnswersTo(t, op) = {}
    BY <1>10 DEF AnswersTo, Good, Ledger, AttemptSide, AttemptOwned
  <2> QED BY <2>3, <2>4, FS_EmptySet DEF Spent
<1>11. UsageKnown(t1, told.life)
  <2> SUFFICES ASSUME NEW op \in Id, Unfinished(t1, op)
               PROVE  UsageFits(t1, op, told.life.operationUsage[op], told.life.operations[op].recovery)
    BY DEF UsageKnown
  <2>1. CASE /\ Unfinished(t, op) /\ told.life.operations[op] = l.operations[op]
             /\ told.life.operationUsage[op] = charge[op]
    BY <1>9, <2>1
  <2>2. CASE t.operations[op] = None /\ told.life.operationUsage[op] = 0
    <3>1. Spent(t1, op) = 0
      BY <1>10, <2>2
    <3> QED BY <2>2, <3>1 DEF UsageFits
  <2> QED BY <1>2, <2>1, <2>2 DEF UsageSoFar
<1>12. UsageTold(t1, told.events)
  <2> SUFFICES ASSUME NEW e \in Completed(told.events)
               PROVE  UsageFits(t1, e.id, e.usage, e.recovery)
    BY DEF UsageTold
  <2>1. /\ e.id \in Id /\ Unfinished(t, e.id) /\ e.usage = charge[e.id]
        /\ e.recovery = l.operations[e.id].recovery
    BY <1>2 DEF UsageSoFar
  <2>2. UsageFits(t1, e.id, charge[e.id], l.operations[e.id].recovery)
    BY <1>9, <2>1
  <2> QED BY <2>1, <2>2
<1> QED BY <1>2, <1>11, <1>12 DEF told

-----------------------------------------------------------------------------
(* What the end of an operation reports *)

RInv == Running => Knows(s, life) /\ UsageKnown(s, life)

(* What is heard in a step.                                                 *)
StepUsed(told) ==
  /\ Knows(s', told.life) /\ UsageKnown(s', told.life)
  /\ AnswersTold(s', told.events) /\ UsageTold(s', told.events)

(* Nothing is known of operations but what was, and no end was reported.    *)
LEMMA SameUsed ==
  ASSUME RInv, Running, s' = s, NEW told, Completed(told.events) = {},
         told.life.operations = life.operations, told.life.models = life.models,
         told.life.operationUsage = life.operationUsage, told.life.answers = life.answers
  PROVE  StepUsed(told)
<1>1. Knows(s, told.life)
  BY DEF RInv, Knows, Own, AllHeard
<1>2. UsageKnown(s, told.life)
  BY DEF RInv, UsageKnown
<1>3. AnswersTold(s, told.events) /\ UsageTold(s, told.events)
  BY DEF AnswersTold, UsageTold
<1> QED BY <1>1, <1>2, <1>3, Zenon DEF StepUsed

(* A line, an execution that begins, or nothing.                            *)
LEMMA HeardUsed ==
  ASSUME IInv, IInv', OInv, RInv, Lines, Goes, Running
  PROVE  StepUsed(Heard)
<1>1. RunInv /\ OpenFits(s) /\ Good(s) /\ Charged(s) /\ Charged(s') /\ Sees(s, life, spans)
  BY DEF OInv, IInv, FileInv, RunInv
<1>2. CASE s' # s
  <2> DEFINE facts == committed'
             told == L!Committed(life, facts)
  <2>1. s' \in ReduceLine(s, facts) /\ FitsFile(s, facts) /\ LineFits(s, life, facts)
    BY <1>1, <1>2, LineSuits
  <2>2. Knows(s, life) /\ UsageKnown(s, life)
    BY DEF RInv
  <2> HIDE DEF facts
  <2>3. StepUsed(told)
    BY <1>1, <2>1, <2>2, LineUsed DEF StepUsed
  <2>4. Heard = told
    BY <1>2, Zenon DEF Heard, facts
  <2> HIDE DEF told
  <2> QED BY <2>3, <2>4
<1>3. CASE s' = s /\ pc = "execute" /\ pc' = "executing"
  <2> DEFINE told == L!ToolStarting(life, job.tool, s.operation.id)
             e == [type |-> "tool.started", id |-> job.tool, op |-> s.operation.id]
  <2>1. /\ job.tool \in Id /\ s.tools[job.tool] # None /\ s.tools[job.tool].status = "pending"
    BY <1>3 DEF IInv, ToolFits, AtTool
  <2>2. s.operation.id \in Id /\ Unfinished(s, s.operation.id)
    <3>1. ~Idle(s)
      BY <1>3 DEF IInv, WorkerFits, OperationFits, AtRun
    <3>2. s \in State /\ OneCurrent(s)
      BY DEF IInv, FileInv, Good, Sound
    <3>3. s.operation.id \in Id
      BY <3>1, <3>2, CurrentTypes
    <3> QED BY <3>1, <3>2, <3>3, Zenon DEF OneCurrent
  <2>3. /\ told.life.models = life.models /\ told.life.operations = life.operations
        /\ told.life.operationUsage = life.operationUsage /\ told.life.answers = life.answers
        /\ told.events = <<e>>
    BY <1>1, <2>1, <2>2, StartingSeen
  <2>4. Completed(<<e>>) = {}
    <3>1. DOMAIN <<e>> = {1} /\ <<e>>[1].type # "operation.completed"
      OBVIOUS
    <3> HIDE DEF e
    <3> QED BY <3>1 DEF Completed
  <2>5. Heard = told
    BY <1>3, Zenon DEF Heard
  <2> HIDE DEF told, e
  <2>6. StepUsed(told)
    BY <1>3, <2>3, <2>4, SameUsed
  <2> QED BY <2>5, <2>6
<1>4. CASE s' = s /\ ~(pc = "execute" /\ pc' = "executing")
  <2> DEFINE told == L!Quiet(life)
  <2>1. Heard = told
    BY <1>4, Zenon DEF Heard
  <2>2. told.life = life /\ told.events = << >>
    BY DEF L!Quiet
  <2>3. Completed(<< >>) = {}
    BY DEF Completed
  <2> HIDE DEF told
  <2>4. StepUsed(told)
    BY <1>4, <2>2, <2>3, SameUsed
  <2> QED BY <2>1, <2>4
<1> QED BY <1>2, <1>3, <1>4

(* Where a process starts it knows that it recovers what it finds.          *)
LEMMA StartUsed ==
  ASSUME IInv, s' = s, ObserveStart
  PROVE  /\ Knows(s', life') /\ UsageKnown(s', life')
         /\ AnswersTold(s', published') /\ UsageTold(s', published')
<1>1. Good(s) /\ OneCurrent(s) /\ s \in State
  BY DEF IInv, FileInv, Good, Sound
<1>2. Completed(published') = {}
  <2>1. Reported(published') = {}
    BY StartReported
  <2> QED BY <2>1 DEF Reported
<1>3. AnswersTold(s', published') /\ UsageTold(s', published')
  BY <1>2 DEF AnswersTold, UsageTold
<1>4. ASSUME NEW op \in Id, Unfinished(s, op)
      PROVE  life'.operations[op].recovery /\ life'.operationUsage[op] = 0
  <2>1. ~Idle(s) /\ op = s.operation.id
    BY <1>1, <1>4, Zenon DEF OneCurrent
  <2>2. s.operation.kind \in {"run", "compaction"}
    BY <1>1, <2>1, CurrentTypes
  <2>3. \A other \in Id : Unfinished(s, other) <=> other = op
    BY <1>1, <2>1, Zenon DEF OneCurrent
  <2> DEFINE told == L!Recovered(L!NoLife, op, s.operation.kind)
  <2>4. told.life.operations[op].recovery /\ told.life.operationUsage[op] = 0
    BY <2>2, <2>3, RecoveredSeen
  <2>5. life' = told.life
    BY <2>1, Zenon DEF ObserveStart
  <2> HIDE DEF told
  <2> QED BY <2>4, <2>5
<1>5. \A op \in Id : ~Own(s, life', op)
  BY <1>4 DEF Own
<1>6. Knows(s, life')
  <2>1. \A a \in Id : Answer(s, a) => s.attempts[a].op \in Id
    BY <1>1, AttemptOps DEF Answer
  <2> QED BY <1>5, <2>1 DEF Knows
<1>7. UsageKnown(s, life')
  <2> SUFFICES ASSUME NEW op \in Id, Unfinished(s, op)
               PROVE  UsageFits(s, op, life'.operationUsage[op], life'.operations[op].recovery)
    BY DEF UsageKnown
  <2>1. life'.operations[op].recovery /\ life'.operationUsage[op] = 0
    BY <1>4
  <2>2. Spent(s, op) \in Nat
    BY SpentNat
  <2> QED BY <2>1, <2>2 DEF UsageFits
<1> QED BY <1>3, <1>6, <1>7, Zenon

(* Every step,                                                              *)
LEMMA NextUsed ==
  ASSUME IInv, OInv, RInv, ObservedNext
  PROVE  RInv' /\ AnswersTold(s', published') /\ UsageTold(s', published')
<1>1. Next /\ IInv'
  BY NextInvariant DEF ObservedNext
<1>2. Lines /\ Placed /\ Goes /\ (Died => s' = s /\ pc' = "down")
  BY <1>1, NextPlaced, LeftStays DEF OInv, Placed
<1>3. pc = "down" => s' = s /\ pc' = "recover"
  BY <1>1, DownStarts
<1>4. CASE heard /\ heard' = TRUE /\ Observe
  <2>1. Running /\ Running'
    BY <1>3, <1>4 DEF Observe, Started, Ended, Running
  <2>2. StepUsed(Heard)
    BY <1>1, <1>2, <2>1, HeardUsed
  <2>3. life' = Heard.life /\ published' = Heard.events
    BY <1>4, Zenon DEF Observe, Hears
  <2> QED BY <2>2, <2>3, Zenon DEF StepUsed, RInv
<1>5. CASE heard /\ ObserveEnd
  <2>1. Running /\ ~Running'
    BY <1>5 DEF ObserveEnd, Ended, Running
  <2>2. StepUsed(Heard)
    BY <1>1, <1>2, <2>1, HeardUsed
  <2>3. /\ Sequence(Heard.events)
        /\ \E lost \in Seq(Lost) : published' = Heard.events \o lost
    BY <1>2, <1>5, <2>1, EndTold
  <2> DEFINE ev == Heard.events
  <2>4. Sequence(ev) /\ \E lost \in Seq(Lost) : published' = ev \o lost
    BY <2>3, Zenon
  <2>5. AnswersTold(s', ev) /\ UsageTold(s', ev)
    BY <2>2, Zenon DEF StepUsed
  <2> HIDE DEF ev
  <2>6. Completed(published') = Completed(ev)
    BY <2>4, LostCompleted
  <2> QED BY <2>1, <2>5, <2>6, Zenon DEF AnswersTold, UsageTold, RInv
<1>6. CASE ObserveDeath
  <2>1. published' = << >> /\ ~Running'
    BY <1>2, <1>6 DEF ObserveDeath, Gone, Running
  <2>2. Completed(published') = {}
    BY <2>1 DEF Completed
  <2> QED BY <2>1, <2>2 DEF AnswersTold, UsageTold, RInv
<1>7. CASE ObserveStart
  <2>1. s' = s
    BY <1>3, <1>7 DEF ObserveStart, Started
  <2> QED BY <1>7, <2>1, StartUsed DEF RInv
<1>8. CASE heard' = FALSE /\ Unheard
  <2>1. published' = << >> /\ ~Running'
    BY <1>8 DEF Unheard, Gone, Running
  <2>2. Completed(published') = {}
    BY <2>1 DEF Completed
  <2> QED BY <2>1, <2>2 DEF AnswersTold, UsageTold, RInv
<1> QED BY <1>4, <1>5, <1>6, <1>7, <1>8, Zenon DEF ObservedNext

(* of a new session on.                                                     *)
LEMMA UsageInvariance == ObservedSpec => []RInv
<1>1. ObservedInit => RInv
  <2> SUFFICES ASSUME ObservedInit PROVE RInv
    OBVIOUS
  <2>1. s = InitialState
    BY DEF ObservedInit, Init
  <2>2. \A op \in Id : ~Unfinished(s, op) /\ s.attempts[op] = None
    BY <2>1 DEF InitialState, Unfinished
  <2> QED BY <2>2 DEF RInv, Knows, UsageKnown, Own, Answer
<1>2. IInv /\ OInv /\ RInv /\ [ObservedNext]_<<vars, observers>> => RInv'
  <2> SUFFICES ASSUME IInv, OInv, RInv, [ObservedNext]_<<vars, observers>> PROVE RInv'
    OBVIOUS
  <2>1. CASE ObservedNext
    BY <2>1, NextUsed
  <2>2. CASE UNCHANGED <<vars, observers>>
    <3>1. s' = s /\ pc' = pc /\ life' = life /\ heard' = heard
      BY <2>2 DEF vars, file, session, observers
    <3> QED BY <3>1, Zenon DEF RInv, Running
  <2> QED BY <2>1, <2>2
<1> QED BY <1>1, <1>2, ObservedInvariance, PTL DEF ObservedSpec

(* An end that a step publishes is one of those it reports.                 *)
LEMMA PublishedCompleted ==
  \A n \in Published("operation.completed") : published'[n] \in Completed(published')
BY Zenon DEF Published, Completed

(* The usage reported at the end of an operation never exceeds what its     *)
(* answers were charged in the file, and is all of it when the process that *)
(* reports it started the operation (lifecycle.rs, `operation_usage`).      *)
THEOREM UsageAlwaysReported == ObservedSpec => UsageReported
<1> DEFINE A == \A n \in Published("operation.completed") :
                  LET event == published'[n]
                      charged == Cardinality({a \in Id : s'.attempts[a] # None
                                   /\ s'.attempts[a].op = event.id
                                   /\ s'.attempts[a].settled # None})
                  IN  /\ event.usage <= charged
                      /\ ~event.recovery => event.usage = charged
<1>1. IInv /\ OInv /\ RInv /\ [ObservedNext]_<<vars, observers>> => [A]_<<vars, observers>>
  <2> SUFFICES ASSUME IInv, OInv, RInv, ObservedNext PROVE A
    OBVIOUS
  <2>1. UsageTold(s', published')
    BY NextUsed
  <2>2. \A n \in Published("operation.completed") :
          LET event == published'[n]
          IN  UsageFits(s', event.id, event.usage, event.recovery)
    BY <2>1, PublishedCompleted, Zenon DEF UsageTold
  <2> QED BY <2>2, Zenon DEF UsageFits, Spent, AnswersTo
<1> QED BY <1>1, ObservedInvariance, UsageInvariance, PTL DEF ObservedSpec, UsageReported

(* A run that succeeds in the process that started it reports its answer    *)
(* (lifecycle.rs, `answers`).                                               *)
THEOREM AnswerAlwaysReported == ObservedSpec => AnswerReported
<1> DEFINE A == \A n \in Published("operation.completed") :
                  LET event == published'[n]
                  IN  event.outcome = "succeeded" /\ ~event.recovery
                        /\ s'.operations[event.id].kind = "run"
                      => event.answer
<1>1. IInv /\ OInv /\ RInv /\ [ObservedNext]_<<vars, observers>> => [A]_<<vars, observers>>
  <2> SUFFICES ASSUME IInv, OInv, RInv, ObservedNext PROVE A
    OBVIOUS
  <2>1. AnswersTold(s', published')
    BY NextUsed
  <2> QED BY <2>1, PublishedCompleted, Zenon DEF AnswersTold
<1> QED BY <1>1, ObservedInvariance, UsageInvariance, PTL DEF ObservedSpec, AnswerReported


===============================================================================
