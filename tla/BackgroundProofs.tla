-------------------------- MODULE BackgroundProofs --------------------------
(***************************************************************************)
(* Proofs about BackgroundProcesses, for any number of agents, of process  *)
(* numbers and of lives.                                                   *)
(***************************************************************************)
EXTENDS BackgroundProcesses, TLAPS

-----------------------------------------------------------------------------
(* The inductive invariant                                                  *)

(* A call is made by an agent that is up, about one number and its metadata. *)
Busy ==
  \A a \in Agent : op[a].at # "idle" =>
    /\ Up(a) /\ op[a].pid \in Pid /\ op[a].meta \in Metadata
    /\ op[a].at = "spawned" => agent[a] = "running"

(* The calls, whatever `ps` says.                                           *)
Spawns(a, p) == \E known \in BOOLEAN : Spawn(a, p, known)
Looks(a) == \E answers \in BOOLEAN : Look(a, answers)
Tells(a) == \E answers \in BOOLEAN : Tell(a, answers)

Alive(p, life) == os[p].life = life /\ os[p].leader = "running"

(* Metadata about number p: no other number has had that life, and what it  *)
(* calls ended has ended.                                                   *)
Own(p, m) ==
  /\ m.life <= lives
  /\ \A q \in Pid \ {p} : os[q].life # m.life
  /\ m.status # "running" => ~Alive(p, m.life)

TrueReport(r) ==
  r.life <= lives /\ (r.status # "running" /\ ~r.blind => ~Runs(r.life))

Files ==
  /\ \A p \in Pid : os[p].life <= lives
  /\ \A p \in Pid : meta[p] # None => Own(p, meta[p])
  /\ \A a \in Agent : op[a].at # "idle" => Own(op[a].pid, op[a].meta)
  /\ \A a \in Agent : op[a].at = "write" => ~Alive(op[a].pid, op[a].meta.life)
  /\ \A a \in Agent : report[a] # None => TrueReport(report[a])

(* Until an agent that is up reaps its child, the number stays taken.       *)
Held(a, p) == Up(a) /\ os[p].parent = a /\ os[p].leader # "none"

HeldLife(a, p, life) == Held(a, p) /\ os[p].life = life

HoldsOf(a) ==
  /\ \A p \in children[a] : Held(a, p)
  /\ op[a].at = "spawned" =>
       /\ HeldLife(a, op[a].pid, op[a].meta.life)
       /\ op[a].pid \notin children[a]
  /\ op[a].at = "signal" /\ op[a].pid \in children[a] =>
       HeldLife(a, op[a].pid, op[a].meta.life)
  /\ op[a].at = "kill" =>
       /\ op[a].pid \notin children[a]
       /\ op[a].child => HeldLife(a, op[a].pid, op[a].meta.life)

Holds == \A a \in Agent : HoldsOf(a)

(* The running commands of an agent that their metadata names, with the     *)
(* start time.                                                              *)
Filed(a, p) ==
  /\ os[p].parent = a /\ os[p].leader = "running"
  /\ meta[p] # None /\ meta[p].life = os[p].life /\ meta[p].known

TableOf(a) ==
  \A p \in Pid : Filed(a, p) =>
    p \in children[a] \/ (op[a].at = "kill" /\ op[a].pid = p)

Stopping(a, p) ==
  /\ op[a].at \in {"look", "signal", "kill"} /\ op[a].action = "stop"
  /\ op[a].pid = p /\ op[a].meta.life = os[p].life /\ op[a].meta.known

ClosingOf(a) ==
  agent[a] = "closing" =>
    \A p \in Pid : Filed(a, p) => p \in unclosed[a] \/ p \in unseen[a] \/ Stopping(a, p)

BgInv ==
  /\ TypeOK /\ Busy /\ Files /\ Holds
  /\ \A a \in Agent : TableOf(a) /\ ClosingOf(a)
  /\ ~misfired

-----------------------------------------------------------------------------
(* Processes and agents                                                     *)

(* What the end of a process, its reaping and SIGKILL make of it.           *)
LEMMA Ends ==
  ASSUME NEW q \in Process
  PROVE  /\ Ended(q) \in Process /\ Ended(q).life = q.life
         /\ Ended(q).parent = q.parent /\ Ended(q).leader \in {"zombie", "none"}
         /\ q.parent # None /\ Up(q.parent) => Ended(q).leader = "zombie"
BY DEF Process, Ended

LEMMA Reaps ==
  ASSUME NEW q \in Process
  PROVE  /\ Reaped(q) \in Process /\ Reaped(q).life = q.life
         /\ Reaped(q).parent = q.parent /\ Reaped(q).leader = "none"
BY DEF Process, Reaped

LEMMA Kills ==
  ASSUME NEW q \in Process
  PROVE  /\ Killed(q) \in Process /\ Killed(q).life = q.life
         /\ Killed(q).parent = q.parent /\ Killed(q).leader \in {"zombie", "none"}
         /\ q.leader # "none" /\ q.parent # None /\ Up(q.parent)
              => Killed(q).leader = "zombie"
<1>1. Ended(q).leader \in {"zombie", "none"}
      /\ (q.parent # None /\ Up(q.parent) => Ended(q).leader = "zombie")
  BY Ends
<1> DEFINE l == Ended(q).leader
           k == IF q.leader = "running" THEN l ELSE q.leader
<1>2. Killed(q) = [q EXCEPT !.leader = k, !.rest = FALSE]
  BY DEF Killed
<1>3. k \in {"zombie", "none"} /\ (q.leader = "running" => k = l)
      /\ (q.leader # "running" => k = q.leader)
  BY <1>1 DEF Process
<1> HIDE DEF l, k
<1>4. /\ Killed(q) \in Process /\ Killed(q).life = q.life
      /\ Killed(q).parent = q.parent /\ Killed(q).leader = k
  BY <1>2, <1>3 DEF Process
<1> QED BY <1>1, <1>3, <1>4 DEF l, Process

(* A process whose parent ends.                                             *)
Orphan(q) ==
  [q EXCEPT !.parent = None, !.leader = IF @ = "zombie" THEN "none" ELSE @]

LEMMA Orphans ==
  ASSUME NEW q \in Process
  PROVE  /\ Orphan(q) \in Process /\ Orphan(q).life = q.life
         /\ Orphan(q).parent = None
         /\ Orphan(q).leader = "running" => q.leader = "running"
BY DEF Process, Orphan

(* What a step does to one process.                                         *)
Keeps(p) ==
  /\ os'[p].life = os[p].life
  /\ os'[p].leader = "running" => os[p].leader = "running"
  /\ os'[p].parent \in {os[p].parent, None}

Starts(p) ==
  /\ os[p].leader = "none" /\ lives' = lives + 1
  /\ os'[p].life = lives + 1

(* Each action names the process it changes, if any.                        *)
LEMMA OneProcess ==
  ASSUME TypeOK, NEW p \in Pid, NEW x \in Process, os' = [os EXCEPT ![p] = x]
  PROVE  /\ os' \in [Pid -> Process]
         /\ os'[p] = x /\ \A q \in Pid \ {p} : os'[q] = os[q]
BY DEF TypeOK

LEMMA OsStep ==
  ASSUME TypeOK, Busy, [Next]_vars
  PROVE  /\ os' \in [Pid -> Process] /\ lives' \in 0..MaxLife /\ lives <= lives'
         /\ \A p \in Pid : Keeps(p) \/ Starts(p)
<1>0. os \in [Pid -> Process] /\ lives \in 0..MaxLife /\ lives \in Nat
      /\ MaxLife \in Nat
  BY MaxLifeAssumption DEF TypeOK
<1>1. ASSUME UNCHANGED os, UNCHANGED lives
      PROVE  /\ os' \in [Pid -> Process] /\ lives' \in 0..MaxLife /\ lives <= lives'
             /\ \A p \in Pid : Keeps(p) \/ Starts(p)
  BY <1>0, <1>1 DEF Keeps
<1>2. ASSUME NEW p \in Pid, NEW x \in Process, os' = [os EXCEPT ![p] = x],
             UNCHANGED lives, x.life = os[p].life,
             x.leader = "running" => os[p].leader = "running",
             x.parent = os[p].parent
      PROVE  /\ os' \in [Pid -> Process] /\ lives' \in 0..MaxLife /\ lives <= lives'
             /\ \A q \in Pid : Keeps(q) \/ Starts(q)
  BY <1>0, <1>2, OneProcess DEF Keeps
<1>3. ASSUME NEW p \in Pid, NEW x \in Process, os' = [os EXCEPT ![p] = x],
             lives < MaxLife, lives' = lives + 1, x.life = lives + 1,
             os[p].leader = "none"
      PROVE  /\ os' \in [Pid -> Process] /\ lives' \in 0..MaxLife /\ lives <= lives'
             /\ \A q \in Pid : Keeps(q) \/ Starts(q)
  <2>1. os'[p] = x /\ \A q \in Pid \ {p} : os'[q] = os[q]
    BY <1>3, OneProcess
  <2>2. Starts(p)
    BY <1>3, <2>1 DEF Starts
  <2>3. \A q \in Pid \ {p} : Keeps(q)
    BY <2>1 DEF Keeps
  <2>4. os' \in [Pid -> Process]
    BY <1>3, OneProcess
  <2> QED BY <1>0, <1>3, <2>2, <2>3, <2>4
<1>4. ASSUME NEW p \in Pid, LeaderEnds(p) \/ GroupChanges(p) \/ Foreign(p)
      PROVE  /\ os' \in [Pid -> Process] /\ lives' \in 0..MaxLife /\ lives <= lives'
             /\ \A q \in Pid : Keeps(q) \/ Starts(q)
  <2>1. CASE LeaderEnds(p)
    <3>1. os' = [os EXCEPT ![p] = Ended(os[p])] /\ UNCHANGED lives
      BY <2>1 DEF LeaderEnds
    <3> QED BY <1>0, <1>2, <3>1, Ends
  <2>2. CASE GroupChanges(p)
    <3> DEFINE x == [os[p] EXCEPT !.rest = ~os[p].rest]
    <3>1. os' = [os EXCEPT ![p] = x] /\ UNCHANGED lives
      BY <2>2, <1>0 DEF GroupChanges
    <3>2. x \in Process /\ x.life = os[p].life /\ x.leader = os[p].leader
          /\ x.parent = os[p].parent
      BY <1>0 DEF Process
    <3> HIDE DEF x
    <3> QED BY <1>2, <3>1, <3>2
  <2>3. CASE Foreign(p)
    <3> DEFINE x == [life |-> lives + 1, leader |-> "running", rest |-> FALSE,
                     parent |-> None, bg |-> FALSE]
    <3>1. os' = [os EXCEPT ![p] = x] /\ lives' = lives + 1 /\ lives < MaxLife
          /\ os[p].leader = "none"
      BY <2>3 DEF Foreign, FreeNumber
    <3>2. x \in Process /\ x.life = lives + 1
      BY <1>0, <3>1 DEF Process
    <3> HIDE DEF x
    <3> QED BY <1>3, <3>1, <3>2
  <2> QED BY <1>4, <2>1, <2>2, <2>3
<1>5. ASSUME NEW a \in Agent, Orphaned(a), UNCHANGED lives
      PROVE  /\ os' \in [Pid -> Process] /\ lives' \in 0..MaxLife /\ lives <= lives'
             /\ \A q \in Pid : Keeps(q) \/ Starts(q)
  <2>1. os' = [p \in Pid |-> IF os[p].parent = a THEN Orphan(os[p]) ELSE os[p]]
    BY <1>5 DEF Orphaned, Orphan
  <2>2. \A p \in Pid : os'[p] \in {Orphan(os[p]), os[p]}
    BY <2>1
  <2>3. \A p \in Pid : Keeps(p)
    BY <1>0, <2>2, Orphans DEF Keeps
  <2>4. os' \in [Pid -> Process]
    BY <1>0, <2>1, Orphans
  <2> QED BY <1>0, <1>5, <2>3, <2>4
<1>6. ASSUME NEW a \in Agent, NEW p \in Pid, Spawns(a, p)
      PROVE  /\ os' \in [Pid -> Process] /\ lives' \in 0..MaxLife /\ lives <= lives'
             /\ \A q \in Pid : Keeps(q) \/ Starts(q)
  <2> DEFINE x == [life |-> lives + 1, leader |-> "running", rest |-> FALSE,
                   parent |-> a, bg |-> TRUE]
  <2>1. os' = [os EXCEPT ![p] = x] /\ lives' = lives + 1 /\ lives < MaxLife
        /\ os[p].leader = "none"
    BY <1>6 DEF Spawns, Spawn, FreeNumber
  <2>2. x \in Process /\ x.life = lives + 1
    BY <1>0, <2>1 DEF Process
  <2> HIDE DEF x
  <2> QED BY <1>3, <2>1, <2>2
<1>7. ASSUME NEW a \in Agent, Refresh(a)
      PROVE  /\ os' \in [Pid -> Process] /\ lives' \in 0..MaxLife /\ lives <= lives'
             /\ \A q \in Pid : Keeps(q) \/ Starts(q)
  <2>1. op[a].pid \in Pid /\ UNCHANGED lives
    BY <1>7 DEF Refresh, Busy
  <2>2. os' = os \/ os' = [os EXCEPT ![op[a].pid] = Reaped(os[op[a].pid])]
    BY <1>7 DEF Refresh
  <2> QED BY <1>0, <1>1, <1>2, <2>1, <2>2, Reaps
<1>8. ASSUME NEW a \in Agent, Kill(a)
      PROVE  /\ os' \in [Pid -> Process] /\ lives' \in 0..MaxLife /\ lives <= lives'
             /\ \A q \in Pid : Keeps(q) \/ Starts(q)
  <2>1. op[a].pid \in Pid /\ UNCHANGED lives
    BY <1>8 DEF Kill, Busy
  <2> DEFINE q == os[op[a].pid]
  <2>2. \/ os' = os
        \/ os' = [os EXCEPT ![op[a].pid] = Reaped(q)]
        \/ os' = [os EXCEPT ![op[a].pid] = Reaped(Killed(q))]
        \/ os' = [os EXCEPT ![op[a].pid] = Killed(q)]
    BY <1>8 DEF Kill
  <2>3. q \in Process /\ Killed(q) \in Process /\ Killed(q).life = q.life
        /\ Killed(q).parent = q.parent /\ Killed(q).leader # "running"
    BY <1>0, <2>1, Kills
  <2>4. /\ Reaped(q) \in Process /\ Reaped(q).life = q.life
        /\ Reaped(q).parent = q.parent /\ Reaped(q).leader = "none"
        /\ Reaped(Killed(q)) \in Process /\ Reaped(Killed(q)).life = q.life
        /\ Reaped(Killed(q)).parent = q.parent /\ Reaped(Killed(q)).leader = "none"
    BY <2>3, Reaps
  <2> QED BY <1>1, <1>2, <2>1, <2>2, <2>3, <2>4
<1>9. ASSUME NEW a \in Agent,
             \/ Crash(a) \/ Exit(a) \/ Close(a) \/ \E p \in Pid : CloseNext(a, p)
             \/ \E p \in Pid, action \in {"status", "stop"} : ReadMeta(a, p, action)
             \/ WriteMeta(a) \/ WriteMetaFails(a) \/ Looks(a) \/ Tells(a) \/ Signal(a) \/ WriteStopped(a)
      PROVE  /\ os' \in [Pid -> Process] /\ lives' \in 0..MaxLife /\ lives <= lives'
             /\ \A q \in Pid : Keeps(q) \/ Starts(q)
  <2>1. CASE Crash(a) \/ Exit(a)
    BY <1>5, <2>1 DEF Crash, Exit
  <2>2. CASE ~(Crash(a) \/ Exit(a))
    <3>1. UNCHANGED os /\ UNCHANGED lives
      BY <1>9, <2>2 DEF Close, CloseNext, ReadMeta, WriteMeta, WriteMetaFails, Looks, Look, Tells, Tell,
                        Signal, WriteStopped, system
    <3> QED BY <1>1, <3>1
  <2> QED BY <2>1, <2>2
<1>10. CASE UNCHANGED vars
  BY <1>1, <1>10 DEF vars
<1> QED BY <1>4, <1>6, <1>7, <1>8, <1>9, <1>10 DEF Next, System, Call, Leave, Spawns, Looks, Tells

-----------------------------------------------------------------------------
(* Types *)

(* A step by one agent leaves the others alone.                             *)
Still(b) ==
  /\ op'[b] = op[b] /\ agent'[b] = agent[b] /\ children'[b] = children[b]
  /\ unclosed'[b] = unclosed[b] /\ report'[b] = report[b]
  /\ unseen'[b] = unseen[b]

LEMMA OneAgent ==
  ASSUME TypeOK, NEW a \in Agent, Call(a) \/ Leave(a)
  PROVE  \A b \in Agent \ {a} : Still(b)
<1>1. ASSUME NEW p \in Pid, Spawns(a, p) \/ CloseNext(a, p)
      PROVE  \A b \in Agent \ {a} : Still(b)
  BY <1>1 DEF TypeOK, Spawns, Spawn, CloseNext, Still
<1>2. ASSUME NEW p \in Pid, NEW action \in {"status", "stop"}, ReadMeta(a, p, action)
      PROVE  \A b \in Agent \ {a} : Still(b)
  BY <1>2 DEF TypeOK, ReadMeta, Still
<1>3. CASE WriteMeta(a) \/ WriteMetaFails(a) \/ Refresh(a) \/ Looks(a) \/ Tells(a)
  BY <1>3 DEF TypeOK, WriteMeta, WriteMetaFails, Refresh, Looks, Look, Tells, Tell, Still
<1>4. CASE Signal(a) \/ Kill(a) \/ WriteStopped(a)
  BY <1>4 DEF TypeOK, Signal, Kill, WriteStopped, Still
<1>5. CASE Crash(a) \/ Close(a) \/ Exit(a)
  BY <1>5 DEF TypeOK, Crash, Close, Exit, Still
<1> QED BY <1>1, <1>2, <1>3, <1>4, <1>5 DEF Call, Leave, Spawns, Looks, Tells

(* The call of an agent after a step of it.                                 *)
At(x, at) == [x EXCEPT !.at = at]

With(x, at, m) == [x EXCEPT !.at = at, !.meta = m]

Holding(x, at, c) == [x EXCEPT !.at = at, !.child = c]

LEMMA NoOpType == NoOp \in OpState /\ NoOp.at = "idle"
BY DEF NoOp, OpState

(* What each action makes of the call of its agent.                         *)
LEMMA OpStep ==
  ASSUME TypeOK, Busy, NEW a \in Agent
  PROVE  LET x == op[a] IN
    /\ \A p \in Pid : Spawns(a, p) =>
         \E m \in Metadata :
           /\ m.life = lives + 1 /\ m.status = "running"
           /\ op'[a] = [at |-> "spawned", action |-> "start", pid |-> p,
                        child |-> FALSE, meta |-> m]
    /\ \A p \in Pid, action \in {"status", "stop"} : ReadMeta(a, p, action) =>
         op'[a] = [at |-> "refresh", action |-> action, pid |-> p,
                   child |-> FALSE, meta |-> meta[p]]
    /\ WriteMeta(a) => op'[a] = At(x, "refresh")
    /\ WriteMetaFails(a) \/ WriteStopped(a) \/ Crash(a) => op'[a] = NoOp
    /\ Refresh(a) =>
         \E at \in {"look", "tell"} :
           \/ op'[a] = At(x, at)
           \/ op'[a] = With(x, at, [x.meta EXCEPT !.status = "exited"])
    /\ Looks(a) => op'[a] \in {At(x, "signal"), At(x, "tell")}
    /\ Tells(a) => op'[a] = NoOp
    /\ Signal(a) => op'[a] = Holding(x, "kill", x.pid \in children[a])
    /\ Kill(a) => op'[a] = At(x, "write")
    /\ Close(a) \/ Exit(a) => op'[a] = x
    /\ \A p \in Pid : CloseNext(a, p) =>
         op'[a] = IF meta[p] = None THEN x
                  ELSE [at |-> "look", action |-> "stop", pid |-> p,
                        child |-> FALSE, meta |-> meta[p]]
<1> USE DEF TypeOK
<1>1. \A p \in Pid : Spawns(a, p) =>
        \E m \in Metadata :
          /\ m.life = lives + 1 /\ m.status = "running"
          /\ op'[a] = [at |-> "spawned", action |-> "start", pid |-> p,
                       child |-> FALSE, meta |-> m]
  <2>1. ASSUME NEW p \in Pid, NEW known \in BOOLEAN, Spawn(a, p, known)
        PROVE  LET m == [life |-> lives + 1, status |-> "running", known |-> known]
               IN  /\ m \in Metadata /\ m.life = lives + 1 /\ m.status = "running"
                   /\ op'[a] = [at |-> "spawned", action |-> "start", pid |-> p,
                                child |-> FALSE, meta |-> m]
    BY <2>1, MaxLifeAssumption DEF Spawn, Metadata
  <2> QED BY <2>1 DEF Spawns
<1>2. \A p \in Pid, action \in {"status", "stop"} : ReadMeta(a, p, action) =>
        op'[a] = [at |-> "refresh", action |-> action, pid |-> p,
                  child |-> FALSE, meta |-> meta[p]]
  BY DEF ReadMeta
<1>3. WriteMeta(a) => op'[a] = At(op[a], "refresh")
  BY DEF WriteMeta, At
<1>4. WriteMetaFails(a) \/ WriteStopped(a) \/ Crash(a) => op'[a] = NoOp
  BY DEF WriteMetaFails, WriteStopped, Crash
<1>5. Refresh(a) =>
        \E at \in {"look", "tell"} :
          \/ op'[a] = At(op[a], at)
          \/ op'[a] = With(op[a], at, [op[a].meta EXCEPT !.status = "exited"])
  BY DEF Refresh, At, With
<1>6. /\ Looks(a) => op'[a] \in {At(op[a], "signal"), At(op[a], "tell")}
      /\ Tells(a) => op'[a] = NoOp
  BY DEF Looks, Look, Tells, Tell, At
<1>7. Signal(a) => op'[a] = Holding(op[a], "kill", op[a].pid \in children[a])
  BY DEF Signal, Holding
<1>8. Kill(a) => op'[a] = At(op[a], "write")
  BY DEF Kill, At
<1>9. Close(a) \/ Exit(a) => op'[a] = op[a]
  BY DEF Close, Exit
<1>10. \A p \in Pid : CloseNext(a, p) =>
         op'[a] = IF meta[p] = None THEN op[a]
                  ELSE [at |-> "look", action |-> "stop", pid |-> p,
                        child |-> FALSE, meta |-> meta[p]]
  BY DEF CloseNext
<1> QED BY <1>1, <1>2, <1>3, <1>4, <1>5, <1>6, <1>7, <1>8, <1>9, <1>10

LEMMA BusyStep ==
  ASSUME TypeOK, Busy, [Next]_vars
  PROVE  /\ op' \in [Agent -> OpState] /\ Busy'
<1>1. ASSUME NEW a \in Agent, Call(a) \/ Leave(a)
      PROVE  /\ op'[a] \in OpState
             /\ op'[a].at # "idle" =>
                  /\ agent'[a] \in {"running", "closing"}
                  /\ op'[a].pid \in Pid /\ op'[a].meta \in Metadata
                  /\ op'[a].at = "spawned" => agent'[a] = "running"
  <2> DEFINE Good(x) ==
        /\ x \in OpState
        /\ x.at # "idle" => /\ agent'[a] \in {"running", "closing"}
                            /\ x.pid \in Pid /\ x.meta \in Metadata
                            /\ x.at = "spawned" => agent'[a] = "running"
  <2>0. op[a] \in OpState
        /\ (op[a].at # "idle" => /\ agent[a] \in {"running", "closing"}
                                 /\ op[a].pid \in Pid /\ op[a].meta \in Metadata
                                 /\ op[a].at = "spawned" => agent[a] = "running")
    BY DEF TypeOK, Busy, Up
  <2>1. ASSUME NEW p \in Pid, Spawns(a, p) PROVE Good(op'[a])
    <3>1. PICK m \in Metadata :
            /\ m.life = lives + 1 /\ m.status = "running"
            /\ op'[a] = [at |-> "spawned", action |-> "start", pid |-> p,
                         child |-> FALSE, meta |-> m]
      BY <2>1, OpStep
    <3>2. agent'[a] = "running"
      BY <2>1 DEF Spawns, Spawn
    <3> QED BY <3>1, <3>2 DEF OpState
  <2>2. ASSUME NEW p \in Pid, NEW action \in {"status", "stop"}, ReadMeta(a, p, action)
        PROVE  Good(op'[a])
    <3>1. op'[a] = [at |-> "refresh", action |-> action, pid |-> p,
                    child |-> FALSE, meta |-> meta[p]]
      BY <2>2, OpStep
    <3>2. agent'[a] = "running" /\ meta[p] \in Metadata
      BY <2>2 DEF ReadMeta, TypeOK
    <3> QED BY <3>1, <3>2 DEF OpState
  <2>3. CASE WriteMeta(a)
    <3>1. op'[a] = At(op[a], "refresh") /\ op[a].at = "spawned" /\ agent'[a] = agent[a]
      BY <2>3, OpStep DEF WriteMeta
    <3>2. At(op[a], "refresh") \in OpState /\ At(op[a], "refresh").at = "refresh"
          /\ At(op[a], "refresh").pid = op[a].pid /\ At(op[a], "refresh").meta = op[a].meta
      BY <2>0 DEF At, OpState
    <3> QED BY <2>0, <3>1, <3>2
  <2>4. CASE WriteMetaFails(a) \/ WriteStopped(a) \/ Crash(a) \/ Tells(a)
    BY <2>4, OpStep, NoOpType
  <2>5. CASE Refresh(a)
    <3>1. agent'[a] = agent[a] /\ op[a].at = "refresh"
      BY <2>5 DEF Refresh
    <3>2. [op[a].meta EXCEPT !.status = "exited"] \in Metadata
      BY <2>0, <3>1 DEF Metadata
    <3> DEFINE n == [op[a].meta EXCEPT !.status = "exited"]
    <3>3. PICK at \in {"look", "tell"} : op'[a] = At(op[a], at) \/ op'[a] = With(op[a], at, n)
      BY <2>5, OpStep
    <3> HIDE DEF n
    <3>4. n \in Metadata
      BY <3>2 DEF n
    <3>5. /\ At(op[a], at) \in OpState /\ With(op[a], at, n) \in OpState
          /\ At(op[a], at).at = at /\ With(op[a], at, n).at = at
          /\ At(op[a], at).pid = op[a].pid /\ With(op[a], at, n).pid = op[a].pid
          /\ At(op[a], at).meta = op[a].meta /\ With(op[a], at, n).meta = n
      BY <2>0, <3>4 DEF At, With, OpState
    <3> QED BY <2>0, <3>1, <3>3, <3>4, <3>5
  <2>6. CASE Looks(a)
    <3>1. agent'[a] = agent[a] /\ op[a].at = "look"
      BY <2>6 DEF Looks, Look
    <3>2. PICK at \in {"signal", "tell"} : op'[a] = At(op[a], at)
      BY <2>6, OpStep
    <3>3. At(op[a], at) \in OpState /\ At(op[a], at).at = at
          /\ At(op[a], at).pid = op[a].pid /\ At(op[a], at).meta = op[a].meta
      BY <2>0 DEF At, OpState
    <3> QED BY <2>0, <3>1, <3>2, <3>3
  <2>7. CASE Signal(a)
    <3>1. agent'[a] = agent[a] /\ op[a].at = "signal"
          /\ op'[a] = Holding(op[a], "kill", op[a].pid \in children[a])
      BY <2>7, OpStep DEF Signal
    <3> DEFINE c == op[a].pid \in children[a]
    <3>2. c \in BOOLEAN
      OBVIOUS
    <3> HIDE DEF c
    <3>3. Holding(op[a], "kill", c) \in OpState /\ Holding(op[a], "kill", c).at = "kill"
          /\ Holding(op[a], "kill", c).pid = op[a].pid
          /\ Holding(op[a], "kill", c).meta = op[a].meta
      BY <2>0, <3>2 DEF Holding, OpState
    <3> QED BY <2>0, <3>1, <3>3 DEF c
  <2>8. CASE Kill(a)
    <3>1. agent'[a] = agent[a] /\ op[a].at = "kill" /\ op'[a] = At(op[a], "write")
      BY <2>8, OpStep DEF Kill
    <3>2. At(op[a], "write") \in OpState /\ At(op[a], "write").at = "write"
          /\ At(op[a], "write").pid = op[a].pid /\ At(op[a], "write").meta = op[a].meta
      BY <2>0 DEF At, OpState
    <3> QED BY <2>0, <3>1, <3>2
  <2>9. CASE Close(a) \/ Exit(a)
    <3>1. op'[a] = op[a] /\ op[a].at = "idle"
      BY <2>9, OpStep DEF Close, Exit
    <3> QED BY <2>0, <3>1
  <2>10. ASSUME NEW p \in Pid, CloseNext(a, p) PROVE Good(op'[a])
    <3>1. agent'[a] = "closing" /\ op[a].at = "idle" /\ meta[p] \in Metadata \cup {None}
          /\ op'[a] = IF meta[p] = None THEN op[a]
                      ELSE [at |-> "look", action |-> "stop", pid |-> p,
                            child |-> FALSE, meta |-> meta[p]]
      BY <2>10, OpStep DEF CloseNext, TypeOK
    <3> QED BY <2>0, <3>1 DEF OpState
  <2> QED BY <1>1, <2>1, <2>2, <2>3, <2>4, <2>5, <2>6, <2>7, <2>8, <2>9, <2>10
          DEF Call, Leave, Spawns, Looks, Tells
<1>2. ASSUME NEW a \in Agent, Call(a) \/ Leave(a)
      PROVE  op' \in [Agent -> OpState] /\ Busy'
  <2>1. DOMAIN op' = Agent /\ op' = [b \in Agent |-> op'[b]]
    BY <1>2 DEF TypeOK, Call, Leave, Spawns, Spawn, ReadMeta, WriteMeta, WriteMetaFails, Refresh,
                Looks, Look, Tells, Tell, Signal, Kill, WriteStopped, Crash, Close, CloseNext, Exit
  <2>2. \A b \in Agent \ {a} : op'[b] = op[b] /\ agent'[b] = agent[b]
    BY <1>2, OneAgent DEF Still
  <2>3. \A b \in Agent : op'[b] \in OpState
    BY <1>1, <1>2, <2>2 DEF TypeOK
  <2>4. Busy'
    BY <1>1, <1>2, <2>2 DEF Busy, Up
  <2> QED BY <2>1, <2>3, <2>4
<1>3. CASE System \/ UNCHANGED vars
  BY <1>3 DEF System, LeaderEnds, GroupChanges, Foreign, vars, TypeOK, Busy, Up
<1> QED BY <1>2, <1>3 DEF Next

(* What a call writes to a metadata file and tells.                         *)
LEMMA MetaStep ==
  ASSUME TypeOK, Busy, [Next]_vars
  PROVE  /\ meta' \in [Pid -> Metadata \cup {None}]
         /\ report' \in [Agent -> Told \cup {None}]
<1>1. ASSUME NEW p \in Pid, NEW m \in Metadata, meta' = [meta EXCEPT ![p] = m]
      PROVE  meta' \in [Pid -> Metadata \cup {None}]
  BY <1>1 DEF TypeOK
<1>2. ASSUME NEW a \in Agent, NEW r \in Told \cup {None}, report' = [report EXCEPT ![a] = r]
      PROVE  report' \in [Agent -> Told \cup {None}]
  BY <1>2 DEF TypeOK
<1>3. ASSUME UNCHANGED meta PROVE meta' \in [Pid -> Metadata \cup {None}]
  BY <1>3 DEF TypeOK
<1>4. ASSUME UNCHANGED report PROVE report' \in [Agent -> Told \cup {None}]
  BY <1>4 DEF TypeOK
<1>5. ASSUME NEW a \in Agent, WriteMeta(a)
      PROVE  /\ meta' \in [Pid -> Metadata \cup {None}]
             /\ report' \in [Agent -> Told \cup {None}]
  <2>1. op[a].pid \in Pid /\ op[a].meta \in Metadata
    BY <1>5 DEF WriteMeta, Busy
  <2>2. meta' = [meta EXCEPT ![op[a].pid] = op[a].meta] /\ UNCHANGED report
    BY <1>5 DEF WriteMeta
  <2> QED BY <1>1, <1>4, <2>1, <2>2
<1>6. ASSUME NEW a \in Agent, Refresh(a)
      PROVE  /\ meta' \in [Pid -> Metadata \cup {None}]
             /\ report' \in [Agent -> Told \cup {None}]
  <2> DEFINE m == [op[a].meta EXCEPT !.status = "exited"]
  <2>1. op[a].pid \in Pid /\ m \in Metadata
    BY <1>6 DEF Refresh, Busy, Metadata
  <2>2. (meta' = meta \/ meta' = [meta EXCEPT ![op[a].pid] = m]) /\ UNCHANGED report
    BY <1>6 DEF Refresh
  <2> HIDE DEF m
  <2> QED BY <1>1, <1>3, <1>4, <2>1, <2>2
<1>7. ASSUME NEW a \in Agent, Tells(a)
      PROVE  /\ meta' \in [Pid -> Metadata \cup {None}]
             /\ report' \in [Agent -> Told \cup {None}]
  <2>0. PICK answers \in BOOLEAN : Tell(a, answers)
    BY <1>7 DEF Tells
  <2> DEFINE s == Status(op[a].meta, op[a].pid, answers)
             b == Blind(op[a].meta, op[a].pid, answers)
             r == [life |-> op[a].meta.life, status |-> s, blind |-> b]
  <2>1. op[a].meta \in Metadata /\ b \in BOOLEAN
    BY <2>0 DEF Tell, Busy, Blind
  <2>2. s \in {"running", "exited", "stopped", "stale"}
    BY <2>1 DEF Status, Metadata
  <2>3. r \in Told
    <3> HIDE DEF s, b
    <3> QED BY <2>1, <2>2 DEF Metadata, Told
  <2>4. report' = [report EXCEPT ![a] = r] /\ UNCHANGED meta
    BY <2>0 DEF Tell
  <2> HIDE DEF r
  <2> QED BY <1>2, <1>3, <2>3, <2>4
<1>8. ASSUME NEW a \in Agent, WriteStopped(a)
      PROVE  /\ meta' \in [Pid -> Metadata \cup {None}]
             /\ report' \in [Agent -> Told \cup {None}]
  <2> DEFINE m == [op[a].meta EXCEPT !.status = "stopped"]
             t == [life |-> op[a].meta.life, status |-> "stopped", blind |-> FALSE]
  <2>1. op[a].pid \in Pid /\ m \in Metadata /\ t \in Told
    BY <1>8 DEF WriteStopped, Busy, Metadata, Told
  <2>2. meta' = [meta EXCEPT ![op[a].pid] = m] /\ report' = [report EXCEPT ![a] = t]
    BY <1>8 DEF WriteStopped
  <2> HIDE DEF m, t
  <2> QED BY <1>1, <1>2, <2>1, <2>2
<1>9. ASSUME NEW a \in Agent,
             \/ Crash(a) \/ Exit(a) \/ Close(a) \/ \E p \in Pid : CloseNext(a, p)
             \/ \E p \in Pid, action \in {"status", "stop"} : ReadMeta(a, p, action)
             \/ (\E p \in Pid : Spawns(a, p)) \/ WriteMetaFails(a) \/ Looks(a) \/ Signal(a) \/ Kill(a)
      PROVE  /\ meta' \in [Pid -> Metadata \cup {None}]
             /\ report' \in [Agent -> Told \cup {None}]
  <2>1. UNCHANGED meta /\ (UNCHANGED report \/ report' = [report EXCEPT ![a] = None])
    BY <1>9 DEF Crash, Exit, Close, CloseNext, ReadMeta, Spawns, Spawn, WriteMetaFails,
                Looks, Look, Signal, Kill
  <2> QED BY <1>2, <1>3, <1>4, <2>1
<1>10. CASE System \/ UNCHANGED vars
  BY <1>3, <1>4, <1>10 DEF System, LeaderEnds, GroupChanges, Foreign, vars
<1> QED BY <1>5, <1>6, <1>7, <1>8, <1>9, <1>10 DEF Next, Call, Leave, Spawns, Looks, Tells

LEMMA AgentStep ==
  ASSUME TypeOK, Busy, [Next]_vars
  PROVE  /\ agent' \in [Agent -> {"running", "closing", "closed", "crashed"}]
         /\ children' \in [Agent -> SUBSET Pid]
         /\ unclosed' \in [Agent -> SUBSET Pid]
         /\ unseen' \in [Agent -> SUBSET Pid]
         /\ misfired' \in BOOLEAN
<1> DEFINE Ok == /\ agent' \in [Agent -> {"running", "closing", "closed", "crashed"}]
                 /\ children' \in [Agent -> SUBSET Pid]
                 /\ unclosed' \in [Agent -> SUBSET Pid]
                 /\ unseen' \in [Agent -> SUBSET Pid]
                 /\ misfired' \in BOOLEAN
<1>1. ASSUME NEW a \in Agent, NEW p \in Pid, Spawns(a, p) \/ CloseNext(a, p) PROVE Ok
  BY <1>1 DEF TypeOK, Spawns, Spawn, CloseNext
<1>2. ASSUME NEW a \in Agent, NEW p \in Pid, NEW action \in {"status", "stop"},
             ReadMeta(a, p, action)
      PROVE  Ok
  BY <1>2 DEF TypeOK, ReadMeta
<1>3. ASSUME NEW a \in Agent, WriteMeta(a) \/ WriteMetaFails(a) \/ Refresh(a) \/ Looks(a) \/ Tells(a)
      PROVE  Ok
  <2>1. op[a].at # "idle"
    BY <1>3 DEF WriteMeta, WriteMetaFails, Refresh, Looks, Look, Tells, Tell
  <2>2. op[a].pid \in Pid
    BY <2>1 DEF Busy
  <2>3. UNCHANGED agent /\ UNCHANGED unclosed /\ UNCHANGED misfired
        /\ \/ UNCHANGED children
           \/ children' = [children EXCEPT ![a] = children[a] \cup {op[a].pid}]
           \/ children' = [children EXCEPT ![a] = children[a] \ {op[a].pid}]
        /\ \/ UNCHANGED unseen
           \/ unseen' = [unseen EXCEPT ![a] = unseen[a] \cup {op[a].pid}]
    BY <1>3 DEF WriteMeta, WriteMetaFails, Refresh, Looks, Look, Tells, Tell, TypeOK
  <2> QED BY <2>2, <2>3 DEF TypeOK
<1>4. ASSUME NEW a \in Agent, Signal(a) \/ Kill(a) \/ WriteStopped(a) PROVE Ok
  <2>1. UNCHANGED agent /\ UNCHANGED unclosed /\ UNCHANGED unseen
        /\ \/ UNCHANGED children
           \/ children' = [children EXCEPT ![a] = children[a] \ {op[a].pid}]
    BY <1>4 DEF Signal, Kill, WriteStopped
  <2>2. misfired' \in BOOLEAN
    BY <1>4 DEF Signal, Kill, WriteStopped, Misfires, TypeOK
  <2> QED BY <2>1, <2>2 DEF TypeOK
<1>5. ASSUME NEW a \in Agent, Crash(a) \/ Close(a) \/ Exit(a) PROVE Ok
  BY <1>5 DEF TypeOK, Crash, Close, Exit
<1>6. CASE System \/ UNCHANGED vars
  BY <1>6 DEF System, LeaderEnds, GroupChanges, Foreign, vars, TypeOK
<1> QED BY <1>1, <1>2, <1>3, <1>4, <1>5, <1>6 DEF Next, Call, Leave, Spawns, Looks, Tells

LEMMA TypeStep == TypeOK /\ Busy /\ [Next]_vars => TypeOK' /\ Busy'
<1> SUFFICES ASSUME TypeOK, Busy, [Next]_vars PROVE TypeOK' /\ Busy'
  OBVIOUS
<1> QED BY OsStep, BusyStep, MetaStep, AgentStep DEF TypeOK

-----------------------------------------------------------------------------
(* Metadata and reports                                                     *)

(* Own and TrueReport of the next state, of what does not change itself.    *)
AliveNext(p, life) == os'[p].life = life /\ os'[p].leader = "running"

OwnNext(p, m) ==
  /\ m.life <= lives'
  /\ \A q \in Pid \ {p} : os'[q].life # m.life
  /\ m.status # "running" => ~AliveNext(p, m.life)

ReportNext(r) ==
  /\ r.life <= lives'
  /\ r.status # "running" /\ ~r.blind => \A p \in Pid : ~AliveNext(p, r.life)

(* Nothing that has ended lives again.                                      *)
LEMMA NoRevival ==
  ASSUME TypeOK, Busy, [Next]_vars, NEW p \in Pid, NEW life \in Nat, life <= lives
  PROVE  /\ AliveNext(p, life) => Alive(p, life)
         /\ os[p].life # life => os'[p].life # life
<1>1. Keeps(p) \/ Starts(p)
  BY OsStep
<1>2. lives \in Nat
  BY MaxLifeAssumption DEF TypeOK
<1> QED BY <1>1, <1>2 DEF Keeps, Starts, AliveNext, Alive

LEMMA OwnKeeps ==
  ASSUME TypeOK, Busy, [Next]_vars, NEW p \in Pid, NEW m \in Metadata, Own(p, m)
  PROVE  OwnNext(p, m)
<1>1. m.life \in Nat /\ m.life <= lives
  BY MaxLifeAssumption DEF Metadata, Own
<1>2. lives <= lives' /\ lives \in Nat /\ lives' \in Nat
  BY OsStep, MaxLifeAssumption DEF TypeOK
<1>3. \A q \in Pid : /\ AliveNext(q, m.life) => Alive(q, m.life)
                     /\ os[q].life # m.life => os'[q].life # m.life
  BY <1>1, NoRevival
<1> QED BY <1>1, <1>2, <1>3 DEF Own, OwnNext

LEMMA ReportKeeps ==
  ASSUME TypeOK, Busy, [Next]_vars, NEW r \in Told, TrueReport(r)
  PROVE  ReportNext(r)
<1>1. r.life \in Nat /\ r.life <= lives
  BY MaxLifeAssumption DEF Told, TrueReport
<1>2. lives <= lives' /\ lives \in Nat /\ lives' \in Nat
  BY OsStep, MaxLifeAssumption DEF TypeOK
<1>3. \A q \in Pid : AliveNext(q, r.life) => Alive(q, r.life)
  BY <1>1, NoRevival
<1> QED BY <1>1, <1>2, <1>3 DEF TrueReport, ReportNext, Runs, Alive

(* Metadata that says how a life ended is its own if that life has ended.   *)
LEMMA EndIsOwn ==
  ASSUME TypeOK, Busy, [Next]_vars, NEW p \in Pid, NEW m \in Metadata, Own(p, m),
         ~Alive(p, m.life), NEW status \in {"exited", "stopped"}
  PROVE  LET n == [m EXCEPT !.status = status]
             r == [life |-> m.life, status |-> status, blind |-> FALSE]
         IN  /\ n \in Metadata /\ r \in Told /\ n.life = m.life
             /\ OwnNext(p, n) /\ ReportNext(r)
<1> DEFINE n == [m EXCEPT !.status = status]
           r == [life |-> m.life, status |-> status, blind |-> FALSE]
<1>1. /\ n \in Metadata /\ n.life = m.life /\ n.status = status
      /\ r \in Told /\ r.life = m.life /\ r.status = status
  BY DEF Metadata, Told
<1> HIDE DEF n, r
<1>2. Own(p, n)
  BY <1>1 DEF Own
<1>3. OwnNext(p, n)
  BY <1>1, <1>2, OwnKeeps
<1>4. TrueReport(r)
  BY <1>1, <1>2 DEF Own, TrueReport, Runs, Alive
<1>5. ReportNext(r)
  BY <1>1, <1>4, ReportKeeps
<1> QED BY <1>1, <1>3, <1>5 DEF n, r

(* One call's part of Files after a step of its agent.                      *)
CallNext(a) ==
  /\ op'[a].at # "idle" => OwnNext(op'[a].pid, op'[a].meta)
  /\ op'[a].at = "write" => ~AliveNext(op'[a].pid, op'[a].meta.life)

LEMMA CallStep ==
  ASSUME TypeOK, Busy, Files, Holds, [Next]_vars, NEW a \in Agent, Call(a) \/ Leave(a)
  PROVE  CallNext(a)
<1>0. op[a] \in OpState
      /\ (op[a].at # "idle" => /\ op[a].pid \in Pid /\ op[a].meta \in Metadata
                               /\ OwnNext(op[a].pid, op[a].meta))
  <2>1. ASSUME op[a].at # "idle"
        PROVE  /\ op[a].pid \in Pid /\ op[a].meta \in Metadata
               /\ OwnNext(op[a].pid, op[a].meta)
    BY <2>1, OwnKeeps DEF Busy, Files
  <2> QED BY <2>1 DEF TypeOK
<1>1. ASSUME NEW p \in Pid, Spawns(a, p) PROVE CallNext(a)
  <2>1. PICK m \in Metadata :
          /\ m.life = lives + 1 /\ m.status = "running"
          /\ op'[a] = [at |-> "spawned", action |-> "start", pid |-> p,
                       child |-> FALSE, meta |-> m]
    BY <1>1, OpStep
  <2>2. OwnNext(p, m)
    <3>1. lives' = lives + 1 /\ \A q \in Pid \ {p} : os'[q] = os[q]
      BY <1>1 DEF Spawns, Spawn, TypeOK
    <3>2. lives \in Nat /\ \A q \in Pid : os[q].life \in Nat /\ os[q].life <= lives
      BY MaxLifeAssumption DEF TypeOK, Process, Files
    <3> QED BY <2>1, <3>1, <3>2 DEF OwnNext
  <2> QED BY <2>1, <2>2 DEF CallNext
<1>2. ASSUME NEW p \in Pid, meta[p] # None PROVE OwnNext(p, meta[p])
  BY <1>2, OwnKeeps DEF TypeOK, Files
<1>3. ASSUME NEW p \in Pid, NEW action \in {"status", "stop"}, ReadMeta(a, p, action)
      PROVE  CallNext(a)
  <2>1. op'[a] = [at |-> "refresh", action |-> action, pid |-> p,
                  child |-> FALSE, meta |-> meta[p]]
    BY <1>3, OpStep
  <2>2. meta[p] # None
    BY <1>3 DEF ReadMeta
  <2> QED BY <1>2, <2>1, <2>2 DEF CallNext
<1>4. ASSUME NEW at \in {"refresh", "look", "tell", "signal"}, op[a].at # "idle",
             op'[a] = At(op[a], at)
      PROVE  CallNext(a)
  <2>1. op'[a].at = at /\ op'[a].pid = op[a].pid /\ op'[a].meta = op[a].meta
    BY <1>0, <1>4 DEF At, OpState
  <2> QED BY <1>0, <1>4, <2>1 DEF CallNext
<1>5. CASE WriteMeta(a)
  BY <1>4, <1>5, OpStep DEF WriteMeta
<1>6. CASE WriteMetaFails(a) \/ WriteStopped(a) \/ Crash(a) \/ Tells(a)
  BY <1>6, OpStep, NoOpType DEF CallNext
<1>7. CASE Refresh(a)
  <2>1. op[a].at = "refresh"
    BY <1>7 DEF Refresh
  <2> DEFINE n == [op[a].meta EXCEPT !.status = "exited"]
  <2>2. ASSUME NEW at \in {"look", "tell"}, op'[a] = At(op[a], at) PROVE CallNext(a)
    BY <1>4, <2>1, <2>2
  <2>3. ASSUME NEW at \in {"look", "tell"}, op'[a] = With(op[a], at, n),
               ~(op'[a] \in {At(op[a], "look"), At(op[a], "tell")})
        PROVE  CallNext(a)
    <3>1. os[op[a].pid].leader = "zombie"
      BY <1>7, <2>3 DEF Refresh, TypeOK, At
    <3>2. OwnNext(op[a].pid, n)
      BY <1>0, <2>1, <3>1, EndIsOwn DEF Alive, Files
    <3> HIDE DEF n
    <3>3. op'[a].at = at /\ op'[a].pid = op[a].pid /\ op'[a].meta = n
      BY <1>0, <2>3 DEF With, OpState
    <3> QED BY <3>2, <3>3 DEF CallNext
  <2> QED BY <1>7, <2>2, <2>3, OpStep
<1>8. CASE Looks(a)
  <2>1. op[a].at = "look" /\ op'[a] \in {At(op[a], "signal"), At(op[a], "tell")}
    BY <1>8, OpStep DEF Looks, Look
  <2> QED BY <1>4, <2>1
<1>9. CASE Signal(a)
  <2> DEFINE c == op[a].pid \in children[a]
  <2>1. op[a].at = "signal" /\ op'[a] = Holding(op[a], "kill", c)
    BY <1>9, OpStep DEF Signal
  <2> HIDE DEF c
  <2>2. op'[a].at = "kill" /\ op'[a].pid = op[a].pid /\ op'[a].meta = op[a].meta
    BY <1>0, <2>1 DEF Holding, OpState
  <2> QED BY <1>0, <2>1, <2>2 DEF CallNext
<1>10. CASE Kill(a)
  <2>1. op[a].at = "kill" /\ op'[a] = At(op[a], "write")
    BY <1>10, OpStep DEF Kill
  <2>2. op'[a].at = "write" /\ op'[a].pid = op[a].pid /\ op'[a].meta = op[a].meta
    BY <1>0, <2>1 DEF At, OpState
  <2> DEFINE p == op[a].pid
  <2>3. p \in Pid /\ os \in [Pid -> Process] /\ os[p] \in Process
    BY <1>0, <2>1 DEF TypeOK
  <2>4. \/ os' = [os EXCEPT ![p] = Reaped(os[p])]
        \/ os' = [os EXCEPT ![p] = Reaped(Killed(os[p]))]
        \/ os' = [os EXCEPT ![p] = Killed(os[p])]
        \/ os' = os /\ os[p].leader = "none"
    BY <1>10 DEF Kill
  <2>5. Killed(os[p]).leader # "running" /\ Killed(os[p]) \in Process
        /\ Reaped(os[p]).leader # "running" /\ Reaped(Killed(os[p])).leader # "running"
    BY <2>3, Kills, Reaps
  <2>6. os'[p].leader # "running"
    BY <2>3, <2>4, <2>5
  <2> QED BY <1>0, <2>1, <2>2, <2>6 DEF CallNext, AliveNext
<1>11. CASE Close(a) \/ Exit(a)
  <2>1. op'[a] = op[a] /\ op[a].at = "idle"
    BY <1>11, OpStep DEF Close, Exit
  <2> QED BY <2>1 DEF CallNext
<1>12. ASSUME NEW p \in Pid, CloseNext(a, p) PROVE CallNext(a)
  <2>1. op[a].at = "idle"
        /\ op'[a] = IF meta[p] = None THEN op[a]
                    ELSE [at |-> "look", action |-> "stop", pid |-> p,
                          child |-> FALSE, meta |-> meta[p]]
    BY <1>12, OpStep DEF CloseNext
  <2> QED BY <1>2, <2>1 DEF CallNext
<1> QED BY <1>1, <1>3, <1>5, <1>6, <1>7, <1>8, <1>9, <1>10, <1>11, <1>12 DEF Call, Leave, Spawns, Looks, Tells

(* A metadata file after a step.                                            *)
LEMMA MetaTrue ==
  ASSUME TypeOK, Busy, Files, [Next]_vars, NEW p \in Pid, meta'[p] # None
  PROVE  OwnNext(p, meta'[p])
<1>1. ASSUME meta'[p] = meta[p] PROVE OwnNext(p, meta'[p])
  BY <1>1, OwnKeeps DEF TypeOK, Files
<1>2. ASSUME NEW a \in Agent, WriteMeta(a) PROVE OwnNext(p, meta'[p])
  <2>1. op[a].at # "idle" /\ meta' = [meta EXCEPT ![op[a].pid] = op[a].meta]
    BY <1>2 DEF WriteMeta
  <2>2. op[a].pid \in Pid /\ op[a].meta \in Metadata /\ Own(op[a].pid, op[a].meta)
    BY <2>1 DEF Busy, Files
  <2>3. CASE p = op[a].pid
    <3>1. meta'[p] = op[a].meta
      BY <2>1, <2>2, <2>3 DEF TypeOK
    <3> QED BY <2>2, <2>3, <3>1, OwnKeeps
  <2>4. CASE p # op[a].pid
    BY <1>1, <2>1, <2>4 DEF TypeOK
  <2> QED BY <2>3, <2>4
<1>3. ASSUME NEW a \in Agent, NEW status \in {"exited", "stopped"}, op[a].at # "idle",
             meta' = [meta EXCEPT ![op[a].pid] = [op[a].meta EXCEPT !.status = status]],
             ~Alive(op[a].pid, op[a].meta.life)
      PROVE  OwnNext(p, meta'[p])
  <2> DEFINE n == [op[a].meta EXCEPT !.status = status]
  <2>1. op[a].pid \in Pid /\ op[a].meta \in Metadata /\ Own(op[a].pid, op[a].meta)
    BY <1>3 DEF Busy, Files
  <2>2. OwnNext(op[a].pid, n)
    BY <1>3, <2>1, EndIsOwn
  <2>3. meta' = [meta EXCEPT ![op[a].pid] = n]
    BY <1>3
  <2> HIDE DEF n
  <2>4. CASE p = op[a].pid
    <3>1. meta'[p] = n
      BY <2>1, <2>3, <2>4 DEF TypeOK
    <3> QED BY <2>2, <2>4, <3>1
  <2>5. CASE p # op[a].pid
    BY <1>1, <2>3, <2>5 DEF TypeOK
  <2> QED BY <2>4, <2>5
<1>4. ASSUME NEW a \in Agent, Refresh(a) PROVE OwnNext(p, meta'[p])
  <2>1. op[a].at = "refresh"
        /\ \/ meta' = meta
           \/ /\ os[op[a].pid].leader = "zombie"
              /\ meta' = [meta EXCEPT ![op[a].pid] = [op[a].meta EXCEPT !.status = "exited"]]
    BY <1>4 DEF Refresh
  <2> QED BY <1>1, <1>3, <2>1 DEF Alive
<1>5. ASSUME NEW a \in Agent, WriteStopped(a) PROVE OwnNext(p, meta'[p])
  <2>1. op[a].at = "write"
        /\ meta' = [meta EXCEPT ![op[a].pid] = [op[a].meta EXCEPT !.status = "stopped"]]
    BY <1>5 DEF WriteStopped
  <2> QED BY <1>3, <2>1 DEF Files
<1>6. ASSUME NEW a \in Agent,
             \/ Crash(a) \/ Exit(a) \/ Close(a) \/ \E q \in Pid : CloseNext(a, q)
             \/ \E q \in Pid, action \in {"status", "stop"} : ReadMeta(a, q, action)
             \/ (\E q \in Pid : Spawns(a, q)) \/ WriteMetaFails(a) \/ Looks(a)
             \/ Tells(a) \/ Signal(a) \/ Kill(a)
      PROVE  OwnNext(p, meta'[p])
  BY <1>1, <1>6 DEF Crash, Exit, Close, CloseNext, ReadMeta, Spawns, Spawn, WriteMetaFails, Looks, Look, Tells, Tell,
                    Signal, Kill
<1>7. CASE System \/ UNCHANGED vars
  BY <1>1, <1>7 DEF System, LeaderEnds, GroupChanges, Foreign, vars
<1> QED BY <1>2, <1>4, <1>5, <1>6, <1>7 DEF Next, Call, Leave, Spawns, Looks, Tells

(* What an agent has told after a step.                                     *)
LEMMA LookIsTrue ==
  ASSUME TypeOK, Files, NEW p \in Pid, NEW m \in Metadata, Own(p, m),
         NEW answers \in BOOLEAN
  PROVE  LET r == [life |-> m.life, status |-> Status(m, p, answers),
                   blind |-> Blind(m, p, answers)]
         IN  r \in Told /\ TrueReport(r)
<1> DEFINE s == Status(m, p, answers)
           b == Blind(m, p, answers)
           r == [life |-> m.life, status |-> s, blind |-> b]
<1>1. /\ s \in {"running", "exited", "stopped", "stale"} /\ b \in BOOLEAN
      /\ s # "running" /\ ~b => ~Alive(p, m.life)
  BY DEF Status, Blind, Metadata, Alive, Own
<1> HIDE DEF s, b
<1>2. r \in Told /\ r.life = m.life /\ r.status = s /\ r.blind = b
  BY <1>1 DEF Metadata, Told
<1> HIDE DEF r
<1>3. TrueReport(r)
  BY <1>1, <1>2 DEF TrueReport, Own, Runs, Alive
<1> QED BY <1>2, <1>3 DEF r, s, b

LEMMA ReportTrue ==
  ASSUME TypeOK, Busy, Files, [Next]_vars, NEW b \in Agent, report'[b] # None
  PROVE  ReportNext(report'[b])
<1>1. ASSUME report'[b] = report[b] PROVE ReportNext(report'[b])
  BY <1>1, ReportKeeps DEF TypeOK, Files
<1>2. ASSUME NEW a \in Agent, Tells(a) PROVE ReportNext(report'[b])
  <2>0. PICK answers \in BOOLEAN : Tell(a, answers)
    BY <1>2 DEF Tells
  <2>1. op[a].pid \in Pid /\ op[a].meta \in Metadata /\ Own(op[a].pid, op[a].meta)
    BY <2>0 DEF Tell, Busy, Files
  <2> DEFINE r == [life |-> op[a].meta.life, status |-> Status(op[a].meta, op[a].pid, answers),
                   blind |-> Blind(op[a].meta, op[a].pid, answers)]
  <2>2. r \in Told /\ TrueReport(r)
    BY <2>1, LookIsTrue
  <2>3. report' = [report EXCEPT ![a] = r]
    BY <2>0 DEF Tell
  <2> HIDE DEF r
  <2>4. CASE a = b
    BY <2>2, <2>3, <2>4, ReportKeeps DEF TypeOK
  <2>5. CASE a # b
    BY <1>1, <2>3, <2>5 DEF TypeOK
  <2> QED BY <2>4, <2>5
<1>3. ASSUME NEW a \in Agent, WriteStopped(a) PROVE ReportNext(report'[b])
  <2>1. /\ op[a].pid \in Pid /\ op[a].meta \in Metadata /\ Own(op[a].pid, op[a].meta)
        /\ ~Alive(op[a].pid, op[a].meta.life)
    BY <1>3 DEF WriteStopped, Busy, Files
  <2> DEFINE r == [life |-> op[a].meta.life, status |-> "stopped", blind |-> FALSE]
  <2>2. ReportNext(r)
    BY <2>1, EndIsOwn
  <2>3. report' = [report EXCEPT ![a] = r]
    BY <1>3 DEF WriteStopped
  <2> HIDE DEF r
  <2>4. CASE a = b
    BY <2>2, <2>3, <2>4 DEF TypeOK
  <2>5. CASE a # b
    BY <1>1, <2>3, <2>5 DEF TypeOK
  <2> QED BY <2>4, <2>5
<1>4. ASSUME NEW a \in Agent, ~Tells(a), ~WriteStopped(a), Call(a) \/ Leave(a)
      PROVE  ReportNext(report'[b])
  <2>1. UNCHANGED report \/ report' = [report EXCEPT ![a] = None]
    BY <1>4 DEF Call, Leave, Crash, Exit, Close, CloseNext, ReadMeta, Spawns, Spawn, WriteMeta,
                WriteMetaFails, Refresh, Looks, Look, Tells, Signal, Kill
  <2> QED BY <1>1, <2>1 DEF TypeOK
<1>5. CASE System \/ UNCHANGED vars
  BY <1>1, <1>5 DEF System, LeaderEnds, GroupChanges, Foreign, vars
<1> QED BY <1>2, <1>3, <1>4, <1>5 DEF Next

LEMMA FilesStep ==
  ASSUME TypeOK, Busy, Files, Holds, [Next]_vars
  PROVE  Files'
<1>1. \A p \in Pid : os'[p].life <= lives'
  <2>1. ASSUME NEW p \in Pid PROVE os'[p].life <= lives'
    <3>1. /\ Keeps(p) \/ Starts(p)
          /\ lives <= lives' /\ lives \in Nat /\ lives' \in Nat
          /\ os[p].life \in Nat /\ os[p].life <= lives
      BY OsStep, MaxLifeAssumption DEF TypeOK, Process, Files
    <3> QED BY <3>1 DEF Keeps, Starts
  <2> QED BY <2>1
<1>2. \A b \in Agent : CallNext(b)
  <2>1. ASSUME NEW b \in Agent, op'[b] = op[b] PROVE CallNext(b)
    <3>1. ASSUME op[b].at # "idle"
          PROVE  /\ op[b].pid \in Pid /\ op[b].meta \in Metadata /\ Own(op[b].pid, op[b].meta)
                 /\ op[b].meta.life \in Nat /\ op[b].meta.life <= lives
      BY <3>1, MaxLifeAssumption DEF Busy, Files, Own, Metadata
    <3>2. ASSUME op[b].at # "idle" PROVE OwnNext(op[b].pid, op[b].meta)
      BY <3>1, <3>2, OwnKeeps
    <3>3. ASSUME op[b].at = "write" PROVE ~AliveNext(op[b].pid, op[b].meta.life)
      BY <3>1, <3>3, NoRevival DEF Files
    <3> QED BY <2>1, <3>2, <3>3 DEF CallNext
  <2>2. ASSUME NEW a \in Agent, Call(a) \/ Leave(a), NEW b \in Agent PROVE CallNext(b)
    <3>1. CASE a = b
      BY <2>2, <3>1, CallStep
    <3>2. CASE a # b
      BY <2>1, <2>2, <3>2, OneAgent DEF Still
    <3> QED BY <3>1, <3>2
  <2>3. ASSUME System \/ UNCHANGED vars, NEW b \in Agent PROVE CallNext(b)
    BY <2>1, <2>3 DEF System, LeaderEnds, GroupChanges, Foreign, vars
  <2> QED BY <2>2, <2>3 DEF Next
<1>3. (\A p \in Pid : meta[p] # None => Own(p, meta[p]))'
  BY MetaTrue DEF OwnNext, Own, AliveNext, Alive
<1>4. (\A a \in Agent : op[a].at # "idle" => Own(op[a].pid, op[a].meta))'
  BY <1>2 DEF CallNext, OwnNext, Own, AliveNext, Alive
<1>5. (\A a \in Agent : op[a].at = "write" => ~Alive(op[a].pid, op[a].meta.life))'
  BY <1>2 DEF CallNext, AliveNext, Alive
<1>6. (\A a \in Agent : report[a] # None => TrueReport(report[a]))'
  BY ReportTrue DEF ReportNext, TrueReport, AliveNext, Runs
<1> QED BY <1>1, <1>3, <1>4, <1>5, <1>6 DEF Files

-----------------------------------------------------------------------------
(* Who holds a number                                                       *)

HeldNext(b, p) ==
  /\ agent'[b] \in {"running", "closing"}
  /\ os'[p].parent = b /\ os'[p].leader # "none"
  /\ os'[p].life = os[p].life

(* Nobody but its parent takes a process from an agent that is up.          *)
LEMMA HeldInSystem ==
  ASSUME TypeOK, System, NEW b \in Agent, NEW p \in Pid, Held(b, p)
  PROVE  HeldNext(b, p)
<1>0. /\ os[p] \in Process /\ os \in [Pid -> Process] /\ os[p].parent = b /\ b # None
      /\ os[p].leader # "none" /\ Up(b) /\ agent[b] \in {"running", "closing"}
  BY NoneAssumption DEF TypeOK, Held, Up
<1>1. PICK q \in Pid : LeaderEnds(q) \/ GroupChanges(q) \/ Foreign(q)
  BY DEF System
<1>2. UNCHANGED agent
  BY <1>1 DEF LeaderEnds, GroupChanges, Foreign
<1>3. CASE q # p
  <2>1. os'[p] = os[p]
    BY <1>0, <1>1, <1>3 DEF LeaderEnds, GroupChanges, Foreign
  <2> QED BY <1>0, <1>2, <2>1 DEF HeldNext
<1>4. CASE q = p
  <2>1. CASE LeaderEnds(p)
    <3>1. os'[p] = Ended(os[p])
      BY <1>0, <2>1 DEF LeaderEnds
    <3> QED BY <1>0, <1>2, <3>1, Ends DEF HeldNext
  <2>2. CASE GroupChanges(p)
    <3>1. os'[p] = [os[p] EXCEPT !.rest = ~os[p].rest]
      BY <1>0, <2>2 DEF GroupChanges
    <3> QED BY <1>0, <1>2, <3>1 DEF HeldNext, Process
  <2>3. ~Foreign(p)
    BY <1>0 DEF Foreign, FreeNumber
  <2> QED BY <1>1, <1>4, <2>1, <2>2, <2>3
<1> QED BY <1>3, <1>4

(* The process a call of agent a changes, if it is no new one.              *)
LEMMA HeldInCall ==
  ASSUME TypeOK, Busy, Holds, NEW a \in Agent, Call(a) \/ Leave(a),
         NEW b \in Agent, NEW p \in Pid, Held(b, p),
         agent'[b] \in {"running", "closing"},
         b = a => ~(Crash(a) \/ Exit(a))
  PROVE  \/ HeldNext(b, p)
         \/ /\ a = b /\ p = op[a].pid
            /\ \/ Refresh(a) /\ p \notin children'[a]
               \/ Kill(a)
<1>0. /\ os[p] \in Process /\ os \in [Pid -> Process] /\ os[p].parent = b /\ b # None
      /\ os[p].leader # "none" /\ Up(b)
  BY NoneAssumption DEF TypeOK, Held
<1>1. ASSUME os'[p] = os[p] PROVE HeldNext(b, p)
  BY <1>0, <1>1 DEF HeldNext
<1>2. ASSUME NEW q \in Pid, Spawns(a, q) PROVE HeldNext(b, p)
  <2>1. q # p
    BY <1>0, <1>2 DEF Spawns, Spawn, FreeNumber
  <2> QED BY <1>0, <1>1, <1>2, <2>1 DEF Spawns, Spawn
<1>3. CASE Refresh(a)
  <2>1. op[a].pid \in Pid
    BY <1>3 DEF Refresh, Busy
  <2>2. \/ os' = os
        \/ /\ op[a].pid \in children[a]
           /\ os' = [os EXCEPT ![op[a].pid] = Reaped(os[op[a].pid])]
           /\ children' = [children EXCEPT ![a] = children[a] \ {op[a].pid}]
    BY <1>3 DEF Refresh
  <2>3. CASE os' = os
    BY <1>1, <2>3
  <2>4. CASE /\ op[a].pid \in children[a]
             /\ os' = [os EXCEPT ![op[a].pid] = Reaped(os[op[a].pid])]
             /\ children' = [children EXCEPT ![a] = children[a] \ {op[a].pid}]
    <3>1. CASE p # op[a].pid
      BY <1>0, <1>1, <2>1, <2>4, <3>1
    <3>2. CASE p = op[a].pid
      <4>1. Held(a, p)
        BY <2>4, <3>2 DEF Holds, HoldsOf
      <4>2. a = b
        BY <1>0, <4>1 DEF Held
      <4> QED BY <1>3, <2>4, <3>2, <4>2 DEF TypeOK
    <3> QED BY <3>1, <3>2
  <2> QED BY <2>2, <2>3, <2>4
<1>4. CASE Kill(a)
  <2>1. op[a].at = "kill" /\ op[a].pid \in Pid
    BY <1>4 DEF Kill, Busy
  <2> DEFINE q == os[op[a].pid]
  <2>2. \/ os' = os
        \/ op[a].child /\ os' = [os EXCEPT ![op[a].pid] = Reaped(q)]
        \/ op[a].child /\ os' = [os EXCEPT ![op[a].pid] = Reaped(Killed(q))]
        \/ os' = [os EXCEPT ![op[a].pid] = Killed(q)]
    BY <1>4 DEF Kill
  <2>3. CASE p # op[a].pid
    BY <1>0, <1>1, <2>1, <2>2, <2>3
  <2>4. CASE p = op[a].pid /\ op[a].child
    <3>1. Held(a, p)
      BY <2>1, <2>4 DEF Holds, HoldsOf, HeldLife
    <3> QED BY <1>0, <1>4, <2>4, <3>1 DEF Held
  <2>5. CASE p = op[a].pid /\ ~op[a].child
    <3>1. os' = os \/ os'[p] = Killed(os[p])
      BY <1>0, <2>2, <2>5
    <3> QED BY <1>0, <1>1, <3>1, Kills DEF HeldNext
  <2> QED BY <2>3, <2>4, <2>5
<1>5. CASE Crash(a) \/ Exit(a)
  <2>1. os' = [r \in Pid |-> IF os[r].parent = a THEN Orphan(os[r]) ELSE os[r]]
    BY <1>5 DEF Crash, Exit, Orphaned, Orphan
  <2>2. os'[p] = os[p]
    BY <1>0, <1>5, <2>1
  <2> QED BY <1>1, <2>2
<1>6. ASSUME Call(a) \/ Leave(a), ~(\E q \in Pid : Spawns(a, q)),
             ~Refresh(a), ~Kill(a), ~Crash(a), ~Exit(a)
      PROVE  os' = os
  BY <1>6 DEF Call, Leave, Spawns, Close, CloseNext, ReadMeta, WriteMeta, WriteMetaFails,
              Look, Tell, Signal, WriteStopped, system
<1> QED BY <1>1, <1>2, <1>3, <1>4, <1>5, <1>6

(* HoldsOf in the next state.                                               *)
HoldsNext(b) ==
  LET x == op'[b]
  IN  /\ \A p \in children'[b] : HeldNext(b, p)
      /\ x.at = "spawned" =>
           /\ agent'[b] \in {"running", "closing"}
           /\ os'[x.pid].parent = b /\ os'[x.pid].leader # "none"
           /\ os'[x.pid].life = x.meta.life
           /\ x.pid \notin children'[b]
      /\ x.at = "signal" /\ x.pid \in children'[b] =>
           HeldNext(b, x.pid) /\ os[x.pid].life = x.meta.life
      /\ x.at = "kill" =>
           /\ x.pid \notin children'[b]
           /\ x.child => HeldNext(b, x.pid) /\ os[x.pid].life = x.meta.life

(* A step of the system or of another agent.                                *)
LEMMA HoldsOthers ==
  ASSUME TypeOK, Busy, Holds, NEW b \in Agent, Still(b),
         \A p \in Pid : Held(b, p) => HeldNext(b, p)
  PROVE  HoldsNext(b)
<1>1. \A p \in children[b] : p \in Pid /\ HeldNext(b, p)
  BY DEF TypeOK, Holds, HoldsOf
<1>2. op[b].at # "idle" => op[b].pid \in Pid
  BY DEF Busy
<1>3. op[b].at = "spawned" =>
        /\ HeldNext(b, op[b].pid) /\ os[op[b].pid].life = op[b].meta.life
        /\ op[b].pid \notin children[b]
  BY <1>2 DEF Holds, HoldsOf, HeldLife
<1>4. op[b].at = "signal" /\ op[b].pid \in children[b] =>
        HeldNext(b, op[b].pid) /\ os[op[b].pid].life = op[b].meta.life
  BY <1>2 DEF Holds, HoldsOf, HeldLife
<1>5. op[b].at = "kill" =>
        /\ op[b].pid \notin children[b]
        /\ op[b].child => HeldNext(b, op[b].pid) /\ os[op[b].pid].life = op[b].meta.life
  BY <1>2 DEF Holds, HoldsOf, HeldLife
<1> QED BY <1>1, <1>3, <1>4, <1>5 DEF HoldsNext, Still, HeldNext

(* The agent whose call it is.                                              *)
LEMMA HoldsOwner ==
  ASSUME TypeOK, Busy, Files, Holds, [Next]_vars, NEW a \in Agent, Call(a) \/ Leave(a)
  PROVE  HoldsNext(a)
<1>0. /\ op[a] \in OpState /\ children[a] \in SUBSET Pid
      /\ op[a].at # "idle" => /\ op[a].pid \in Pid /\ op[a].meta \in Metadata
                              /\ Up(a) /\ agent[a] \in {"running", "closing"}
      /\ \A p \in children[a] : Held(a, p)
      /\ agent[a] \in {"running", "closing"} => Up(a)
  BY DEF TypeOK, Busy, Holds, HoldsOf, Up
<1>1. ASSUME NEW p \in Pid, Spawns(a, p) PROVE HoldsNext(a)
  <2>1. PICK m \in Metadata :
          /\ m.life = lives + 1 /\ m.status = "running"
          /\ op'[a] = [at |-> "spawned", action |-> "start", pid |-> p,
                       child |-> FALSE, meta |-> m]
    BY <1>1, OpStep
  <2>2. /\ agent'[a] = "running" /\ agent[a] = "running" /\ children'[a] = children[a]
        /\ os'[p] = [life |-> lives + 1, leader |-> "running",
                     rest |-> FALSE, parent |-> a, bg |-> TRUE]
        /\ os[p].leader = "none"
    BY <1>1 DEF Spawns, Spawn, FreeNumber, TypeOK
  <2>3. p \notin children[a] /\ \A q \in children[a] : HeldNext(a, q)
    <3>1. p \notin children[a]
      BY <1>0, <2>2 DEF Held
    <3>2. \A q \in children[a] : os'[q] = os[q]
      BY <1>0, <1>1, <3>1 DEF Spawns, Spawn, TypeOK
    <3> QED BY <1>0, <2>2, <3>1, <3>2 DEF Held, HeldNext
  <2> QED BY <2>1, <2>2, <2>3 DEF HoldsNext
<1>2. ASSUME agent'[a] = agent[a] \/ agent'[a] = "closing",
             ~Crash(a), ~Exit(a), ~Refresh(a), ~Kill(a)
      PROVE  \A p \in Pid : Held(a, p) => HeldNext(a, p)
  BY <1>2, HeldInCall DEF Held, Up
<1>3. ASSUME NEW at \in {"idle", "refresh", "look", "tell", "write"}, op'[a].at = at,
             \A p \in children'[a] : HeldNext(a, p)
      PROVE  HoldsNext(a)
  BY <1>3 DEF HoldsNext
<1>4. ASSUME NEW p \in Pid, NEW action \in {"status", "stop"}, ReadMeta(a, p, action)
      PROVE  HoldsNext(a)
  <2>1. op'[a] = [at |-> "refresh", action |-> action, pid |-> p,
                  child |-> FALSE, meta |-> meta[p]]
    BY <1>4, OpStep
  <2>2. children' = children /\ agent' = agent /\ os' = os /\ agent[a] = "running"
    BY <1>4 DEF ReadMeta, system
  <2> QED BY <1>0, <1>3, <2>1, <2>2 DEF Held, HeldNext
<1>5. CASE WriteMeta(a)
  <2>1. op[a].at = "spawned" /\ op'[a] = At(op[a], "refresh")
        /\ children'[a] = children[a] \cup {op[a].pid} /\ agent' = agent /\ os' = os
    BY <1>5, OpStep DEF WriteMeta, system, TypeOK
  <2>2. op'[a].at = "refresh"
    BY <1>0, <2>1 DEF At, OpState
  <2>3. Held(a, op[a].pid)
    BY <2>1 DEF Holds, HoldsOf, HeldLife
  <2> QED BY <1>0, <1>3, <2>1, <2>2, <2>3 DEF Held, HeldNext
<1>6. CASE WriteMetaFails(a) \/ WriteStopped(a) \/ Tells(a)
  <2>1. op'[a] = NoOp /\ op[a].at # "idle" /\ agent' = agent /\ children' = children
        /\ os' = os
    BY <1>6, OpStep DEF WriteMetaFails, WriteStopped, Tells, Tell, system
  <2> QED BY <1>0, <1>3, <2>1, NoOpType DEF Held, HeldNext
<1>7. CASE Crash(a) \/ Exit(a)
  <2>1. children'[a] = {} /\ op'[a].at = "idle"
    BY <1>7, OpStep, NoOpType DEF Crash, Exit, TypeOK
  <2> QED BY <1>3, <2>1
<1>8. CASE Refresh(a)
  <2>1. op[a].at = "refresh" /\ agent' = agent
        /\ children'[a] \in {children[a], children[a] \ {op[a].pid}}
    BY <1>8 DEF Refresh, TypeOK
  <2>2. op'[a].at \in {"look", "tell"}
    <3> DEFINE n == [op[a].meta EXCEPT !.status = "exited"]
    <3>1. PICK at \in {"look", "tell"} : op'[a] = At(op[a], at) \/ op'[a] = With(op[a], at, n)
      BY <1>8, OpStep
    <3> HIDE DEF n
    <3> QED BY <1>0, <3>1 DEF At, With, OpState
  <2>3. ~Crash(a) /\ ~Exit(a) /\ ~Kill(a)
    BY <2>1, <2>2, OpStep, NoOpType DEF Exit, Kill
  <2>4. ASSUME NEW p \in children'[a] PROVE HeldNext(a, p)
    <3>1. p \in Pid /\ Held(a, p) /\ agent'[a] \in {"running", "closing"}
      BY <1>0, <2>1
    <3> QED BY <2>3, <3>1, HeldInCall
  <2> QED BY <1>3, <2>2, <2>4
<1>9. CASE Looks(a)
  <2>0. PICK answers \in BOOLEAN : Look(a, answers)
    BY <1>9 DEF Looks
  <2>1. op[a].at = "look" /\ agent' = agent /\ children' = children /\ os' = os
        /\ op'[a] = IF Status(op[a].meta, op[a].pid, answers) = "running"
                      THEN At(op[a], "signal") ELSE At(op[a], "tell")
    BY <2>0 DEF Look, system, TypeOK, At
  <2>2. \A p \in children'[a] : HeldNext(a, p)
    BY <1>0, <2>1 DEF Held, HeldNext
  <2>3. CASE op'[a] = At(op[a], "tell")
    <3>1. op'[a].at = "tell"
      BY <1>0, <2>3 DEF At, OpState
    <3> QED BY <1>3, <2>2, <3>1
  <2>4. CASE op'[a] = At(op[a], "signal") /\ Status(op[a].meta, op[a].pid, answers) = "running"
    <3>1. op'[a].at = "signal" /\ op'[a].pid = op[a].pid /\ op'[a].meta = op[a].meta
      BY <1>0, <2>4 DEF At, OpState
    <3>2. os[op[a].pid].life = op[a].meta.life
      BY <2>4 DEF Status
    <3> QED BY <2>1, <2>2, <3>1, <3>2 DEF HoldsNext
  <2> QED BY <2>1, <2>3, <2>4
<1>10. CASE Signal(a)
  <2> DEFINE c == op[a].pid \in children[a]
  <2>1. op[a].at = "signal" /\ agent' = agent /\ os' = os
        /\ op'[a] = Holding(op[a], "kill", c)
        /\ children'[a] = children[a] \ {op[a].pid}
    BY <1>10, OpStep DEF Signal, system, TypeOK
  <2>2. c => HeldLife(a, op[a].pid, op[a].meta.life)
    BY <2>1 DEF Holds, HoldsOf
  <2> HIDE DEF c
  <2>3. /\ op'[a].at = "kill" /\ op'[a].pid = op[a].pid /\ op'[a].meta = op[a].meta
        /\ op'[a].child = c
    BY <1>0, <2>1 DEF Holding, OpState
  <2>4. \A p \in children'[a] : HeldNext(a, p)
    BY <1>0, <2>1 DEF Held, HeldNext
  <2>5. c => HeldNext(a, op[a].pid) /\ os[op[a].pid].life = op[a].meta.life
    BY <1>0, <2>1, <2>2 DEF HeldLife, Held, HeldNext
  <2>6. op[a].pid \notin children'[a]
    BY <2>1
  <2> QED BY <2>3, <2>4, <2>5, <2>6 DEF HoldsNext
<1>11. CASE Kill(a)
  <2>1. op[a].at = "kill" /\ agent' = agent /\ children' = children
        /\ op'[a] = At(op[a], "write")
    BY <1>11, OpStep DEF Kill
  <2>2. op'[a].at = "write" /\ op[a].pid \notin children[a]
    BY <1>0, <2>1 DEF At, OpState, Holds, HoldsOf
  <2>3. ~Crash(a) /\ ~Exit(a) /\ ~Refresh(a)
    BY <2>1, <2>2, OpStep, NoOpType DEF Exit, Refresh
  <2>4. ASSUME NEW p \in children'[a] PROVE HeldNext(a, p)
    <3>1. p \in Pid /\ Held(a, p) /\ agent'[a] \in {"running", "closing"}
          /\ p # op[a].pid
      BY <1>0, <2>1, <2>2
    <3> QED BY <2>3, <3>1, HeldInCall
  <2> QED BY <1>3, <2>2, <2>4
<1>12. CASE Close(a) \/ \E p \in Pid : CloseNext(a, p)
  <2>1. /\ op[a].at = "idle" /\ children' = children /\ os' = os
        /\ agent'[a] = "closing" /\ agent[a] \in {"running", "closing"}
        /\ op'[a].at \in {"idle", "look"}
    BY <1>12, OpStep DEF Close, CloseNext, system, TypeOK
  <2> QED BY <1>0, <1>3, <2>1 DEF Held, HeldNext
<1> QED BY <1>1, <1>4, <1>5, <1>6, <1>7, <1>8, <1>9, <1>10, <1>11, <1>12
        DEF Call, Leave, Spawns, Looks, Tells

LEMMA HoldsStep ==
  ASSUME TypeOK, Busy, Files, Holds, [Next]_vars
  PROVE  Holds'
<1>1. ASSUME NEW b \in Agent PROVE HoldsNext(b)
  <2>1. CASE System
    <3>1. Still(b)
      BY <2>1 DEF System, LeaderEnds, GroupChanges, Foreign, Still
    <3> QED BY <2>1, <3>1, HeldInSystem, HoldsOthers
  <2>2. CASE UNCHANGED vars
    <3>1. Still(b)
      BY <2>2 DEF vars, Still
    <3>2. \A p \in Pid : Held(b, p) => HeldNext(b, p)
      BY <2>2 DEF vars, Held, HeldNext, Up
    <3> QED BY <3>1, <3>2, HoldsOthers
  <2>3. ASSUME NEW a \in Agent, Call(a) \/ Leave(a) PROVE HoldsNext(b)
    <3>1. CASE a = b
      BY <2>3, <3>1, HoldsOwner
    <3>2. CASE a # b
      <4>1. Still(b)
        BY <2>3, <3>2, OneAgent
      <4>2. ASSUME NEW p \in Pid, Held(b, p) PROVE HeldNext(b, p)
        <5>1. agent'[b] \in {"running", "closing"}
          BY <4>1, <4>2 DEF Still, Held, Up
        <5> QED BY <2>3, <3>2, <4>2, <5>1, HeldInCall
      <4> QED BY <4>1, <4>2, HoldsOthers
    <3> QED BY <3>1, <3>2
  <2> QED BY <2>1, <2>2, <2>3 DEF Next
<1>2. ASSUME NEW b \in Agent PROVE HoldsOf(b)'
  <2>1. HoldsNext(b)
    BY <1>1
  <2>2. Busy' /\ TypeOK'
    BY TypeStep
  <2> QED BY <2>1 DEF HoldsNext, HoldsOf, HeldNext, HeldLife, Held, Up
<1> QED BY <1>2 DEF Holds

-----------------------------------------------------------------------------
(* The table of children, close, and signals                                *)

(* Only its agent, and only when it writes the metadata of a command that  *)
(* has just been started, makes a running command one that is filed.        *)
LEMMA FiledStep ==
  ASSUME TypeOK, Busy, Files, Holds, [Next]_vars, NEW b \in Agent, NEW p \in Pid,
         Filed(b, p)'
  PROVE  /\ os'[p].life = os[p].life /\ os[p].leader = "running" /\ os[p].parent = b
         /\ \/ Filed(b, p)
            \/ WriteMeta(b) /\ p = op[b].pid
<1>0. /\ os'[p].parent = b /\ os'[p].leader = "running" /\ b # None
      /\ meta'[p] # None /\ meta'[p].life = os'[p].life /\ meta'[p].known
      /\ os[p] \in Process /\ lives \in Nat /\ (Keeps(p) \/ Starts(p))
  BY OsStep, NoneAssumption, MaxLifeAssumption DEF Filed, TypeOK
<1>1. CASE meta'[p] = meta[p]
  <2>1. meta[p].life <= lives /\ meta[p].life \in Nat
    BY <1>0, <1>1, MaxLifeAssumption DEF Files, Own, TypeOK, Metadata
  <2>2. Keeps(p)
    BY <1>0, <1>1, <2>1 DEF Starts
  <2> QED BY <1>0, <1>1, <2>2 DEF Keeps, Filed
<1>2. ASSUME NEW a \in Agent, WriteMeta(a), meta'[p] # meta[p]
      PROVE  /\ os' = os /\ WriteMeta(b) /\ p = op[b].pid
  <2>1. /\ op[a].at = "spawned" /\ os' = os
        /\ meta' = [meta EXCEPT ![op[a].pid] = op[a].meta]
    BY <1>2 DEF WriteMeta, system
  <2>2. p = op[a].pid
    BY <1>2, <2>1 DEF TypeOK
  <2>3. os[p].parent = a
    BY <2>1, <2>2 DEF Holds, HoldsOf, HeldLife, Held
  <2> QED BY <1>0, <1>2, <2>1, <2>2, <2>3
<1>3. ASSUME NEW a \in Agent, Refresh(a) PROVE meta'[p] = meta[p]
  <2>1. \/ meta' = meta
        \/ /\ os[op[a].pid].leader = "zombie"
           /\ meta' = [meta EXCEPT ![op[a].pid] = [op[a].meta EXCEPT !.status = "exited"]]
    BY <1>3 DEF Refresh
  <2>2. os[p].leader # "zombie"
    BY <1>0 DEF Keeps, Starts
  <2> QED BY <2>1, <2>2 DEF TypeOK
<1>4. ASSUME NEW a \in Agent, WriteStopped(a) PROVE meta'[p] = meta[p]
  <2> DEFINE n == [op[a].meta EXCEPT !.status = "stopped"]
  <2>1. /\ op[a].at = "write" /\ os' = os /\ meta' = [meta EXCEPT ![op[a].pid] = n]
    BY <1>4 DEF WriteStopped, system
  <2>2. op[a].meta \in Metadata /\ ~Alive(op[a].pid, op[a].meta.life)
    BY <2>1 DEF Busy, Files
  <2>3. n.life = op[a].meta.life
    BY <2>2 DEF Metadata
  <2> HIDE DEF n
  <2>4. CASE p = op[a].pid
    <3>1. meta'[p] = n
      BY <2>1, <2>4 DEF TypeOK
    <3> QED BY <1>0, <2>1, <2>2, <2>3, <2>4, <3>1 DEF Alive
  <2>5. CASE p # op[a].pid
    BY <2>1, <2>5 DEF TypeOK
  <2> QED BY <2>4, <2>5
<1>5. ASSUME NEW a \in Agent, ~WriteMeta(a), ~Refresh(a), ~WriteStopped(a),
             Call(a) \/ Leave(a)
      PROVE  meta'[p] = meta[p]
  BY <1>5 DEF Call, Leave, Crash, Exit, Close, CloseNext, ReadMeta, Spawns, Spawn,
              WriteMetaFails, Looks, Look, Tells, Tell, Signal, Kill
<1>6. CASE System \/ UNCHANGED vars
  <2>1. meta'[p] = meta[p]
    BY <1>6 DEF System, LeaderEnds, GroupChanges, Foreign, vars
  <2> QED BY <1>1, <2>1
<1>7. CASE meta'[p] # meta[p]
  <2>1. PICK a \in Agent : WriteMeta(a)
    BY <1>3, <1>4, <1>5, <1>6, <1>7 DEF Next, System, LeaderEnds, GroupChanges, Foreign, vars
  <2>2. os' = os /\ WriteMeta(b) /\ p = op[b].pid
    BY <1>2, <1>7, <2>1
  <2> QED BY <1>0, <2>2
<1> QED BY <1>1, <1>7

(* A command that is killed, or whose parent ends, is no longer filed.      *)
LEMMA KilledIsNotFiled ==
  ASSUME TypeOK, Busy, NEW a \in Agent, Kill(a)
  PROVE  os'[op[a].pid].leader # "running"
<1> DEFINE p == op[a].pid
<1>1. p \in Pid /\ os \in [Pid -> Process] /\ os[p] \in Process
  BY DEF Kill, Busy, TypeOK
<1>2. \/ os' = [os EXCEPT ![p] = Reaped(os[p])]
      \/ os' = [os EXCEPT ![p] = Reaped(Killed(os[p]))]
      \/ os' = [os EXCEPT ![p] = Killed(os[p])]
      \/ os' = os /\ os[p].leader = "none"
  BY DEF Kill
<1>3. Killed(os[p]).leader # "running" /\ Killed(os[p]) \in Process
      /\ Reaped(os[p]).leader # "running" /\ Reaped(Killed(os[p])).leader # "running"
  BY <1>1, Kills, Reaps
<1> QED BY <1>1, <1>2, <1>3

LEMMA OrphanIsNotFiled ==
  ASSUME TypeOK, NEW a \in Agent, Crash(a) \/ Exit(a), NEW p \in Pid
  PROVE  os'[p].parent # a
<1>1. os' = [r \in Pid |-> IF os[r].parent = a THEN Orphan(os[r]) ELSE os[r]]
  BY DEF Crash, Exit, Orphaned, Orphan
<1>2. os[p] \in Process /\ a # None
  BY NoneAssumption DEF TypeOK
<1> QED BY <1>1, <1>2, Orphans

LEMMA TableStep ==
  ASSUME TypeOK, Busy, Files, Holds, [Next]_vars, NEW b \in Agent, TableOf(b),
         NEW p \in Pid, Filed(b, p)'
  PROVE  p \in children'[b] \/ (op'[b].at = "kill" /\ op'[b].pid = p)
<1>1. os[p].leader = "running" /\ os'[p].leader = "running" /\ os'[p].parent = b
      /\ (Filed(b, p) \/ (WriteMeta(b) /\ p = op[b].pid))
  BY FiledStep DEF Filed
<1>2. CASE WriteMeta(b) /\ p = op[b].pid
  BY <1>2 DEF WriteMeta, TypeOK
<1>3. CASE Filed(b, p)
  <2>0. p \in children[b] \/ (op[b].at = "kill" /\ op[b].pid = p)
    BY <1>3 DEF TableOf
  <2>1. ASSUME op'[b] = op[b], children'[b] = children[b]
        PROVE  p \in children'[b] \/ (op'[b].at = "kill" /\ op'[b].pid = p)
    BY <2>0, <2>1
  <2>2. ASSUME op[b].at # "kill", p \in children[b] => p \in children'[b]
        PROVE  p \in children'[b]
    BY <2>0, <2>2
  <2>3. CASE System \/ UNCHANGED vars
    BY <2>1, <2>3 DEF System, LeaderEnds, GroupChanges, Foreign, vars
  <2>4. ASSUME NEW a \in Agent, a # b, Call(a) \/ Leave(a)
        PROVE  p \in children'[b] \/ (op'[b].at = "kill" /\ op'[b].pid = p)
    BY <2>1, <2>4, OneAgent DEF Still
  <2>5. CASE Refresh(b)
    <3>1. op[b].at = "refresh" /\ (p \in children[b] => p \in children'[b])
      BY <1>1, <2>5 DEF Refresh, TypeOK
    <3> QED BY <2>2, <3>1
  <2>6. CASE Signal(b)
    <3>1. op[b].at = "signal" /\ children'[b] = children[b] \ {op[b].pid}
      BY <2>6 DEF Signal, TypeOK
    <3> DEFINE c == op[b].pid \in children[b]
    <3>2. op'[b] = Holding(op[b], "kill", c)
      BY <2>6, OpStep
    <3> HIDE DEF c
    <3>3. op'[b].at = "kill" /\ op'[b].pid = op[b].pid
      BY <3>2 DEF Holding, OpState, TypeOK
    <3> QED BY <2>0, <3>1, <3>3
  <2>7. CASE Kill(b)
    <3>1. p # op[b].pid
      BY <1>1, <2>7, KilledIsNotFiled
    <3> QED BY <2>0, <2>7, <3>1 DEF Kill
  <2>8. ~Crash(b) /\ ~Exit(b)
    BY <1>1, OrphanIsNotFiled
  <2>9. CASE Call(b) \/ Leave(b)
    <3>1. CASE ~Refresh(b) /\ ~Signal(b) /\ ~Kill(b)
      <4>1. op[b].at # "kill" /\ (p \in children[b] => p \in children'[b])
        BY <2>8, <2>9, <3>1 DEF Call, Leave, Close, CloseNext, ReadMeta, Spawns, Spawn, WriteMeta,
           WriteMetaFails, Looks, Look, Tells, Tell, WriteStopped, TypeOK
      <4> QED BY <2>2, <4>1
    <3> QED BY <2>5, <2>6, <2>7, <3>1
  <2> QED BY <2>3, <2>4, <2>9 DEF Next
<1> QED BY <1>1, <1>2, <1>3

LEMMA ClosingStep ==
  ASSUME TypeOK, Busy, Files, Holds, [Next]_vars, NEW b \in Agent,
         TableOf(b), ClosingOf(b), agent'[b] = "closing", NEW p \in Pid, Filed(b, p)'
  PROVE  \/ p \in unclosed'[b] \/ p \in unseen'[b]
         \/ /\ op'[b].at \in {"look", "signal", "kill"} /\ op'[b].action = "stop"
            /\ op'[b].pid = p /\ op'[b].meta.life = os'[p].life /\ op'[b].meta.known
<1> DEFINE Goal == \/ p \in unclosed'[b] \/ p \in unseen'[b]
                   \/ /\ op'[b].at \in {"look", "signal", "kill"} /\ op'[b].action = "stop"
                      /\ op'[b].pid = p /\ op'[b].meta.life = os'[p].life
                      /\ op'[b].meta.known
<1>1. /\ os[p].leader = "running" /\ os'[p].leader = "running" /\ os'[p].parent = b
      /\ os'[p].life = os[p].life
      /\ (Filed(b, p) \/ (WriteMeta(b) /\ p = op[b].pid))
  BY FiledStep DEF Filed
<1>2. ~WriteMeta(b) /\ Filed(b, p)
  <2>1. ~WriteMeta(b)
    BY DEF WriteMeta, Busy
  <2> QED BY <1>1, <2>1
<1>3. op[b] \in OpState
  BY DEF TypeOK
<1>4. ASSUME agent[b] = "closing"
      PROVE  p \in unclosed[b] \/ p \in unseen[b] \/ Stopping(b, p)
  BY <1>2, <1>4 DEF ClosingOf
<1>5. ASSUME op'[b] = op[b], unclosed'[b] = unclosed[b], unseen'[b] = unseen[b],
             agent'[b] = agent[b]
      PROVE  Goal
  BY <1>1, <1>4, <1>5 DEF Stopping
<1>6. CASE System \/ UNCHANGED vars
  BY <1>5, <1>6 DEF System, LeaderEnds, GroupChanges, Foreign, vars
<1>7. ASSUME NEW a \in Agent, a # b, Call(a) \/ Leave(a) PROVE Goal
  BY <1>5, <1>7, OneAgent DEF Still
<1>8. ASSUME agent'[b] = agent[b], unclosed'[b] = unclosed[b], unseen[b] \subseteq unseen'[b],
             ~Stopping(b, p)
      PROVE  Goal
  BY <1>4, <1>8
<1>9. CASE Close(b)
  <2>1. p \in children[b]
    BY <1>2, <1>9 DEF Close, TableOf
  <2> QED BY <1>9, <2>1 DEF Close, TypeOK
<1>10. ASSUME NEW q \in Pid, CloseNext(b, q) PROVE Goal
  <2>1. /\ op[b].at = "idle" /\ agent[b] = "closing" /\ unclosed'[b] = unclosed[b] \ {q}
        /\ op'[b] = IF meta[q] = None THEN op[b]
                    ELSE [at |-> "look", action |-> "stop", pid |-> q,
                          child |-> FALSE, meta |-> meta[q]]
    BY <1>10, OpStep DEF CloseNext, TypeOK
  <2>2. (p \in unclosed[b] \/ p \in unseen[b]) /\ unseen' = unseen
    BY <1>4, <1>10, <2>1 DEF Stopping, CloseNext
  <2>3. CASE q = p
    BY <1>1, <1>2, <2>1, <2>3 DEF Filed
  <2> QED BY <2>1, <2>2, <2>3
<1>11. CASE Looks(b)
  <2>0. PICK answers \in BOOLEAN : Look(b, answers)
    BY <1>11 DEF Looks
  <2>1. /\ op[b].at = "look" /\ agent'[b] = agent[b] /\ unclosed' = unclosed
        /\ op'[b] = IF Status(op[b].meta, op[b].pid, answers) = "running"
                      THEN At(op[b], "signal") ELSE At(op[b], "tell")
        /\ unseen[b] \subseteq unseen'[b]
        /\ agent[b] = "closing" /\ ~answers => op[b].pid \in unseen'[b]
    BY <2>0 DEF Look, TypeOK, At
  <2>2. CASE Stopping(b, p)
    <3>1. /\ op[b].pid = p /\ op[b].action = "stop" /\ op[b].meta.life = os[p].life
          /\ op[b].meta \in Metadata /\ Own(p, op[b].meta) /\ op[b].meta.known
      BY <2>1, <2>2 DEF Stopping, Busy, Files
    <3>2. CASE answers
      <4>1. Status(op[b].meta, p, answers) = "running"
        BY <1>1, <3>1, <3>2 DEF Status, Own, Alive
      <4>2. op'[b] = At(op[b], "signal")
        BY <2>1, <3>1, <4>1
      <4> QED BY <1>1, <1>3, <3>1, <4>2 DEF At, OpState
    <3>3. CASE ~answers
      BY <2>1, <3>1, <3>3
    <3> QED BY <3>2, <3>3
  <2> QED BY <1>8, <2>1, <2>2
<1>12. CASE Signal(b)
  <2> DEFINE c == op[b].pid \in children[b]
  <2>1. /\ op[b].at = "signal" /\ agent'[b] = agent[b] /\ unclosed' = unclosed
        /\ unseen' = unseen
        /\ op'[b] = Holding(op[b], "kill", c)
    BY <1>12, OpStep DEF Signal
  <2> HIDE DEF c
  <2>2. CASE Stopping(b, p)
    BY <1>1, <1>3, <2>1, <2>2 DEF Stopping, Holding, OpState
  <2> QED BY <1>8, <2>1, <2>2
<1>13. CASE Kill(b)
  <2>1. p # op[b].pid
    BY <1>1, <1>13, KilledIsNotFiled
  <2> QED BY <1>8, <1>13, <2>1 DEF Kill, Stopping
<1>14. ~Crash(b) /\ ~Exit(b)
  BY <1>1, OrphanIsNotFiled
<1>15. CASE Refresh(b) \/ WriteStopped(b) \/ Tells(b)
  <2>1. /\ agent'[b] = agent[b] /\ unclosed' = unclosed /\ unseen' = unseen
        /\ ~Stopping(b, p)
    BY <1>15 DEF Refresh, WriteStopped, Tells, Tell, Stopping
  <2> QED BY <1>8, <2>1
<1>16. /\ \A q \in Pid : ~Spawns(b, q)
       /\ \A q \in Pid, action \in {"status", "stop"} : ~ReadMeta(b, q, action)
       /\ ~WriteMetaFails(b)
  BY DEF Spawns, Spawn, ReadMeta, WriteMetaFails, Busy
<1> QED BY <1>2, <1>6, <1>7, <1>9, <1>10, <1>11, <1>12, <1>13, <1>14, <1>15, <1>16
        DEF Next, Call, Leave, Spawns, Looks, Tells

LEMMA SignalStep ==
  ASSUME TypeOK, Busy, Holds, ~misfired, [Next]_vars
  PROVE  ~misfired'
<1>1. ASSUME NEW a \in Agent, Signal(a) PROVE ~misfired'
  <2>1. op[a].at = "signal" /\ Misfires(a, op[a].pid \in children[a])
    BY <1>1 DEF Signal
  <2>2. op[a].pid \in children[a] => os[op[a].pid].life = op[a].meta.life
    BY <2>1 DEF Holds, HoldsOf, HeldLife
  <2> QED BY <2>1, <2>2 DEF Misfires
<1>2. ASSUME NEW a \in Agent, Kill(a) PROVE ~misfired'
  <2>1. op[a].at = "kill" /\ (UNCHANGED misfired \/ Misfires(a, op[a].child))
    BY <1>2 DEF Kill
  <2>2. op[a].child => os[op[a].pid].life = op[a].meta.life
    BY <2>1 DEF Holds, HoldsOf, HeldLife
  <2> QED BY <2>1, <2>2 DEF Misfires
<1>3. ASSUME NEW a \in Agent, ~Signal(a), ~Kill(a), Call(a) \/ Leave(a) PROVE ~misfired'
  BY <1>3 DEF Call, Leave, Crash, Exit, Close, CloseNext, ReadMeta, Spawns, Spawn, WriteMeta,
              WriteMetaFails, Refresh, Looks, Look, Tells, Tell, WriteStopped
<1>4. CASE System \/ UNCHANGED vars
  BY <1>4 DEF System, LeaderEnds, GroupChanges, Foreign, vars
<1> QED BY <1>1, <1>2, <1>3, <1>4 DEF Next

-----------------------------------------------------------------------------
LEMMA BgStarts == Init => BgInv
<1> SUFFICES ASSUME Init PROVE BgInv
  OBVIOUS
<1>1. Nobody \in Process /\ Nobody.life = 0 /\ Nobody.leader = "none"
  BY MaxLifeAssumption DEF Nobody, Process
<1>2. TypeOK
  <2>1. os \in [Pid -> Process] /\ lives \in 0..MaxLife
    BY <1>1, MaxLifeAssumption DEF Init
  <2>2. op \in [Agent -> OpState]
    BY NoOpType DEF Init
  <2> QED BY <2>1, <2>2 DEF Init, TypeOK
<1>3. /\ \A a \in Agent : op[a].at = "idle" /\ children[a] = {} /\ report[a] = None
                          /\ agent[a] = "running"
      /\ \A p \in Pid : os[p].leader = "none" /\ os[p].life = 0 /\ meta[p] = None
      /\ lives = 0
  BY <1>1, NoOpType DEF Init
<1>4. Busy /\ Files /\ Holds
  BY <1>3 DEF Busy, Files, Holds, HoldsOf
<1>5. \A a \in Agent : TableOf(a) /\ ClosingOf(a)
  BY <1>3 DEF TableOf, ClosingOf, Filed
<1> QED BY <1>2, <1>4, <1>5 DEF BgInv, Init

LEMMA BgStep == BgInv /\ [Next]_vars => BgInv'
<1> SUFFICES ASSUME BgInv, [Next]_vars PROVE BgInv'
  OBVIOUS
<1>1. TypeOK' /\ Busy'
  BY TypeStep DEF BgInv
<1>2. Files' /\ Holds'
  BY FilesStep, HoldsStep DEF BgInv
<1>3. ASSUME NEW b \in Agent PROVE TableOf(b)' /\ ClosingOf(b)'
  <2>1. TableOf(b)'
    BY TableStep DEF BgInv, TableOf
  <2>2. ClosingOf(b)'
    BY ClosingStep DEF BgInv, ClosingOf, Stopping
  <2> QED BY <2>1, <2>2
<1>4. ~misfired'
  BY SignalStep DEF BgInv
<1> QED BY <1>1, <1>2, <1>3, <1>4 DEF BgInv

(* The variables have their types, for any agents and any numbers.          *)
THEOREM TypeCorrect == Spec => []TypeOK
<1>1. BgInv => TypeOK
  BY DEF BgInv
<1> QED BY <1>1, BgStarts, BgStep, PTL DEF Spec

(* What a metadata file, or a status that has been told, says to have ended *)
(* has ended: numbers that are used again and agents that write the same    *)
(* file do not change that.                                                 *)
THEOREM EndedIsEndedAlways == Spec => []EndedIsEnded
<1>1. BgInv => EndedIsEnded
  BY DEF BgInv, Files, Own, TrueReport, EndedIsEnded, Runs, Alive
<1> QED BY <1>1, BgStarts, BgStep, PTL DEF Spec

(* An agent that holds the Child of a command signals that command or       *)
(* nobody: a number is not used again before the Child is waited for.       *)
THEOREM SignalsOwnAlways == Spec => []SignalsOwn
<1>1. BgInv => SignalsOwn
  BY DEF BgInv, SignalsOwn
<1> QED BY <1>1, BgStarts, BgStep, PTL DEF Spec

(* A program that ends in order has stopped every command that the          *)
(* metadata names.                                                          *)
THEOREM CloseLeavesNoneAlways == Spec => CloseLeavesNone
<1> DEFINE Leaving == \A a \in Agent, p \in Pid :
             Leaves(a) /\ os[p].parent = a /\ os[p].leader = "running"
               => \/ meta[p] = None \/ meta[p].life # os[p].life
                  \/ ~meta[p].known \/ p \in unseen[a]
<1>1. BgInv /\ [Next]_vars => [Leaving]_vars
  <2> SUFFICES ASSUME BgInv, [Next]_vars, NEW a \in Agent, NEW p \in Pid, Leaves(a),
                      Filed(a, p), p \notin unseen[a]
               PROVE  FALSE
    BY DEF Filed
  <2>1. agent[a] = "closing" /\ agent'[a] = "closed"
    BY DEF Leaves
  <2>2. Exit(a)
    <3>1. ASSUME NEW b \in Agent, Call(b) \/ Leave(b) PROVE Exit(a)
      <4>1. a = b
        BY <2>1, <3>1, OneAgent DEF BgInv, Still
      <4> QED BY <2>1, <3>1, <4>1 DEF BgInv, TypeOK, Call, Leave, Crash, Close, CloseNext,
                 ReadMeta, Spawns, Spawn, WriteMeta, WriteMetaFails, Refresh, Looks, Look, Tells, Tell, Signal, Kill,
                 WriteStopped
    <3>2. ~(System \/ UNCHANGED vars)
      BY <2>1 DEF System, LeaderEnds, GroupChanges, Foreign, vars
    <3> QED BY <3>1, <3>2 DEF Next
  <2>3. p \in unclosed[a] \/ Stopping(a, p)
    BY <2>1 DEF BgInv, ClosingOf
  <2> QED BY <2>2, <2>3 DEF Exit, Stopping
<1> QED BY <1>1, BgStarts, BgStep, PTL DEF Spec, CloseLeavesNone

=============================================================================
