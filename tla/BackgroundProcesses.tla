------------------------- MODULE BackgroundProcesses -------------------------
(***************************************************************************)
(* The bg tool (start_bg .. close_background_processes, rust/src/lib.rs):  *)
(* commands that outlive the call, and the process, that started them.     *)
(* What is known of one is its metadata file, named after its process      *)
(* number, and, in the process that started it, a Child in a table.        *)
(*                                                                         *)
(* Several agents may work in one directory, at once or after each other.  *)
(* Each makes one bg call at a time; the others, and the system, may act   *)
(* between any two system calls that matter.  A run of a process is called *)
(* a life; its number stands for the start time `ps` gives of it, by which *)
(* two processes of one number are told apart.  `ps` may fail at any time, *)
(* and may be missing: then the start time is empty.                       *)
(***************************************************************************)
EXTENDS Naturals

CONSTANTS
  Pid,
  Agent,        (* the processes that run the program in this directory     *)
  MaxLife,      (* bound: the lives of processes                            *)
  None

ASSUME MaxLifeAssumption == MaxLife \in Nat
ASSUME NoneAssumption == None \notin Agent \cup Pid

VARIABLES
  os,           (* per number: the life that has it, the state of its       *)
                (* leader, whether others of its group run, its parent      *)
  lives,        (* lives so far                                             *)
  meta,         (* the metadata files: [life, status, known], or None; known *)
                (* is whether `ps` gave its start time when it was started   *)
  agent,        (* per agent: running, closing, closed, crashed             *)
  children,     (* BG_PROCESSES of each agent                               *)
  op,           (* the call it is in: where, on which number, with which    *)
                (* metadata and whether it holds the Child                  *)
  unclosed,     (* the numbers close has still to look at                   *)
  report,       (* the last status it told: [life, status, blind]           *)
  misfired,     (* history: an agent that held the Child signalled another  *)
                (* life than that of its metadata                           *)
  unseen        (* history: the numbers close passed over without an answer *)
                (* of `ps`                                                  *)

vars == <<os, lives, meta, agent, children, op, unclosed, report, misfired, unseen>>
system == <<os, lives>>

NoOp == [at |-> "idle", action |-> None, pid |-> None, meta |-> None, child |-> FALSE]
Nobody == [life |-> 0, leader |-> "none", rest |-> FALSE, parent |-> None, bg |-> FALSE]

Init ==
  /\ os = [p \in Pid |-> Nobody] /\ lives = 0
  /\ meta = [p \in Pid |-> None]
  /\ agent = [a \in Agent |-> "running"]
  /\ children = [a \in Agent |-> {}]
  /\ op = [a \in Agent |-> NoOp]
  /\ unclosed = [a \in Agent |-> {}]
  /\ report = [a \in Agent |-> None]
  /\ misfired = FALSE
  /\ unseen = [a \in Agent |-> {}]

Up(a) == agent[a] \in {"running", "closing"}
FreeNumber(p) == os[p].leader = "none" /\ ~os[p].rest

(* A process that ended waits for its parent, if that still runs.           *)
Ended(q) ==
  [q EXCEPT !.leader = IF q.parent # None /\ Up(q.parent) THEN "zombie" ELSE "none"]
Reaped(q) == [q EXCEPT !.leader = "none"]
Killed(q) == [q EXCEPT !.leader = IF @ = "running" THEN Ended(q).leader ELSE @,
                       !.rest = FALSE]

-----------------------------------------------------------------------------
(* The system *)

LeaderEnds(p) ==
  /\ os[p].leader = "running"
  /\ os' = [os EXCEPT ![p] = Ended(@)]
  /\ UNCHANGED <<lives, meta, agent, children, op, unclosed, report, misfired, unseen>>

GroupChanges(p) ==
  /\ os[p].bg /\ (os[p].leader = "running" \/ os[p].rest)
  /\ os' = [os EXCEPT ![p].rest = ~@]
  /\ UNCHANGED <<lives, meta, agent, children, op, unclosed, report, misfired, unseen>>

(* Another program gets the number.                                         *)
Foreign(p) ==
  /\ FreeNumber(p) /\ lives < MaxLife
  /\ lives' = lives + 1
  /\ os' = [os EXCEPT ![p] = [life |-> lives + 1, leader |-> "running",
                              rest |-> FALSE, parent |-> None, bg |-> FALSE]]
  /\ UNCHANGED <<meta, agent, children, op, unclosed, report, misfired, unseen>>

(* The children of a process that ends are orphans, the ended ones gone.    *)
Orphaned(a) ==
  os' = [p \in Pid |->
          IF os[p].parent = a
            THEN [os[p] EXCEPT !.parent = None,
                               !.leader = IF @ = "zombie" THEN "none" ELSE @]
            ELSE os[p]]

Crash(a) ==
  /\ Up(a)
  /\ agent' = [agent EXCEPT ![a] = "crashed"]
  /\ children' = [children EXCEPT ![a] = {}]
  /\ op' = [op EXCEPT ![a] = NoOp]
  /\ unclosed' = [unclosed EXCEPT ![a] = {}]
  /\ report' = [report EXCEPT ![a] = None]
  /\ Orphaned(a)
  /\ UNCHANGED <<lives, meta, misfired, unseen>>

-----------------------------------------------------------------------------
(* start *)

(* `ps` is asked for the start time while the number is still held.         *)
Spawn(a, p, known) ==
  /\ agent[a] = "running" /\ op[a].at = "idle"
  /\ FreeNumber(p) /\ lives < MaxLife
  /\ lives' = lives + 1
  /\ os' = [os EXCEPT ![p] = [life |-> lives + 1, leader |-> "running",
                              rest |-> FALSE, parent |-> a, bg |-> TRUE]]
  /\ op' = [op EXCEPT ![a] =
       [at |-> "spawned", action |-> "start", pid |-> p, child |-> FALSE,
        meta |-> [life |-> lives + 1, status |-> "running", known |-> known]]]
  /\ UNCHANGED <<meta, agent, children, unclosed, report, misfired, unseen>>

WriteMeta(a) ==
  /\ op[a].at = "spawned"
  /\ meta' = [meta EXCEPT ![op[a].pid] = op[a].meta]
  /\ children' = [children EXCEPT ![a] = @ \cup {op[a].pid}]
  /\ op' = [op EXCEPT ![a].at = "refresh"]
  /\ UNCHANGED <<system, agent, unclosed, report, misfired, unseen>>

(* The log or the metadata cannot be written: an error, and the command     *)
(* goes on.                                                                 *)
WriteMetaFails(a) ==
  /\ op[a].at = "spawned"
  /\ op' = [op EXCEPT ![a] = NoOp]
  /\ UNCHANGED <<system, meta, agent, children, unclosed, report, misfired, unseen>>

-----------------------------------------------------------------------------
(* list, status, logs, stop *)

ReadMeta(a, p, action) ==
  /\ agent[a] = "running" /\ op[a].at = "idle" /\ meta[p] # None
  /\ op' = [op EXCEPT ![a] = [at |-> "refresh", action |-> action, pid |-> p,
                              child |-> FALSE, meta |-> meta[p]]]
  /\ UNCHANGED <<system, meta, agent, children, unclosed, report, misfired, unseen>>

(* `refresh_bg_meta`                                                        *)
Refresh(a) ==
  /\ op[a].at = "refresh"
  /\ LET p == op[a].pid
         ended == [op[a].meta EXCEPT !.status = "exited"]
         next == IF op[a].action = "stop" THEN "look" ELSE "tell"
     IN  IF p \in children[a] /\ os[p].leader = "zombie"
           THEN /\ os' = [os EXCEPT ![p] = Reaped(@)]
                /\ children' = [children EXCEPT ![a] = @ \ {p}]
                /\ meta' = [meta EXCEPT ![p] = ended]
                /\ op' = [op EXCEPT ![a].at = next, ![a].meta = ended]
           ELSE op' = [op EXCEPT ![a].at = next] /\ UNCHANGED <<os, children, meta>>
  /\ UNCHANGED <<lives, agent, unclosed, report, misfired, unseen>>

(* `current_bg_status`: a process of this number that started at another    *)
(* time is another one.  No answer of `ps` is taken for no process, and a   *)
(* start time that was never known is like none.                            *)
Status(m, p, answers) ==
  IF m.status # "running" THEN m.status
  ELSE IF os[p].leader = "none" \/ ~answers THEN "exited"
  ELSE IF m.known /\ os[p].life = m.life THEN "running" ELSE "stale"

Blind(m, p, answers) ==
  m.status = "running" /\ os[p].leader # "none" /\ ~(answers /\ m.known)

(* `stop_bg` stops what it sees running, and tells what it then sees of the *)
(* rest.                                                                    *)
Look(a, answers) ==
  /\ op[a].at = "look"
  /\ op' = [op EXCEPT ![a].at =
       IF Status(op[a].meta, op[a].pid, answers) = "running" THEN "signal" ELSE "tell"]
  /\ unseen' = [unseen EXCEPT ![a] =
       IF agent[a] = "closing" /\ ~answers THEN @ \cup {op[a].pid} ELSE @]
  /\ UNCHANGED <<system, meta, agent, children, unclosed, report, misfired>>

Tell(a, answers) ==
  /\ op[a].at = "tell"
  /\ LET m == op[a].meta
         p == op[a].pid
     IN  report' = [report EXCEPT ![a] =
           [life |-> m.life, status |-> Status(m, p, answers), blind |-> Blind(m, p, answers)]]
  /\ op' = [op EXCEPT ![a] = NoOp]
  /\ UNCHANGED <<system, meta, agent, children, unclosed, misfired, unseen>>

Misfires(a, holds) ==
  LET q == os[op[a].pid]
  IN  misfired' = (misfired \/ (/\ holds /\ q.life # op[a].meta.life
                                /\ (q.leader # "none" \/ q.rest)))

(* `stop_bg`: SIGTERM to the group, which it need not heed.                 *)
Signal(a) ==
  /\ op[a].at = "signal"
  /\ LET holds == op[a].pid \in children[a]
     IN  /\ children' = [children EXCEPT ![a] = @ \ {op[a].pid}]
         /\ op' = [op EXCEPT ![a].at = "kill", ![a].child = holds]
         /\ Misfires(a, holds)
  /\ UNCHANGED <<system, meta, agent, unclosed, report, unseen>>

(* A bug: after two seconds the group is killed in any case.                *)
KillAlways(a) ==
  /\ op[a].at = "kill"
  /\ LET p == op[a].pid
     IN  os' = [os EXCEPT ![p] =
           IF op[a].child THEN Reaped(Killed(@)) ELSE Killed(@)]
  /\ Misfires(a, TRUE)
  /\ op' = [op EXCEPT ![a].at = "write"]
  /\ UNCHANGED <<lives, meta, agent, children, unclosed, report, unseen>>

(* A bug: the wait ends without SIGKILL.                                    *)
KillNever(a) ==
  /\ op[a].at = "kill"
  /\ LET p == op[a].pid
     IN  IF op[a].child /\ os[p].leader = "zombie"
           THEN os' = [os EXCEPT ![p] = Reaped(@)] ELSE UNCHANGED os
  /\ op' = [op EXCEPT ![a].at = "write"]
  /\ UNCHANGED <<lives, meta, agent, children, unclosed, report, misfired, unseen>>

(* The end of its wait, at the end of the process or of two seconds: what   *)
(* still runs is killed.  Without the Child, a process of the number is     *)
(* taken for the command.                                                   *)
Kill(a) ==
  /\ op[a].at = "kill"
  /\ LET p == op[a].pid
     IN  IF op[a].child /\ os[p].leader = "zombie"
           THEN os' = [os EXCEPT ![p] = Reaped(@)] /\ UNCHANGED misfired
         ELSE IF op[a].child \/ os[p].leader # "none"
           THEN /\ os' = [os EXCEPT ![p] =
                     IF op[a].child THEN Reaped(Killed(@)) ELSE Killed(@)]
                /\ Misfires(a, op[a].child)
         ELSE UNCHANGED <<os, misfired>>
  /\ op' = [op EXCEPT ![a].at = "write"]
  /\ UNCHANGED <<lives, meta, agent, children, unclosed, report, unseen>>

WriteStopped(a) ==
  /\ op[a].at = "write"
  /\ LET stopped == [op[a].meta EXCEPT !.status = "stopped"]
     IN  /\ meta' = [meta EXCEPT ![op[a].pid] = stopped]
         /\ report' = [report EXCEPT ![a] =
              [life |-> op[a].meta.life, status |-> "stopped", blind |-> FALSE]]
  /\ op' = [op EXCEPT ![a] = NoOp]
  /\ UNCHANGED <<system, agent, children, unclosed, misfired, unseen>>

-----------------------------------------------------------------------------
(* close_background_processes, when the program ends in order *)

Close(a) ==
  /\ agent[a] = "running" /\ op[a].at = "idle"
  /\ agent' = [agent EXCEPT ![a] = "closing"]
  /\ unclosed' = [unclosed EXCEPT ![a] = children[a]]
  /\ UNCHANGED <<system, meta, children, op, report, misfired, unseen>>

(* Each is stopped, without a refresh; what has no metadata is passed over. *)
CloseNext(a, p) ==
  /\ agent[a] = "closing" /\ op[a].at = "idle" /\ p \in unclosed[a]
  /\ unclosed' = [unclosed EXCEPT ![a] = @ \ {p}]
  /\ op' = IF meta[p] = None THEN op
           ELSE [op EXCEPT ![a] = [at |-> "look", action |-> "stop", pid |-> p,
                                   child |-> FALSE, meta |-> meta[p]]]
  /\ UNCHANGED <<system, meta, agent, children, report, misfired, unseen>>

Exit(a) ==
  /\ agent[a] = "closing" /\ op[a].at = "idle" /\ unclosed[a] = {}
  /\ agent' = [agent EXCEPT ![a] = "closed"]
  /\ children' = [children EXCEPT ![a] = {}]
  /\ report' = [report EXCEPT ![a] = None]
  /\ Orphaned(a)
  /\ UNCHANGED <<lives, meta, op, unclosed, misfired, unseen>>

-----------------------------------------------------------------------------
System == \E p \in Pid : LeaderEnds(p) \/ GroupChanges(p) \/ Foreign(p)

Call(a) ==
  \/ \E p \in Pid, known \in BOOLEAN : Spawn(a, p, known)
  \/ \E p \in Pid, action \in {"status", "stop"} : ReadMeta(a, p, action)
  \/ WriteMeta(a) \/ WriteMetaFails(a)
  \/ Refresh(a) \/ Signal(a) \/ Kill(a) \/ WriteStopped(a)
  \/ \E answers \in BOOLEAN : Look(a, answers) \/ Tell(a, answers)

Leave(a) == Crash(a) \/ Close(a) \/ (\E p \in Pid : CloseNext(a, p)) \/ Exit(a)

Next == System \/ \E a \in Agent : Call(a) \/ Leave(a)

Spec == Init /\ [][Next]_vars

-----------------------------------------------------------------------------
(* Properties *)

Process ==
  [life : 0..MaxLife, leader : {"none", "running", "zombie"}, rest : BOOLEAN,
   parent : Agent \cup {None}, bg : BOOLEAN]

Metadata ==
  [life : 1..MaxLife, status : {"running", "exited", "stopped"}, known : BOOLEAN]

Told ==
  [life : 1..MaxLife, status : {"running", "exited", "stopped", "stale"}, blind : BOOLEAN]

OpState ==
  [at : {"idle", "spawned", "refresh", "look", "tell", "signal", "kill", "write"},
   action : {"start", "status", "stop", None}, pid : Pid \cup {None},
   meta : Metadata \cup {None}, child : BOOLEAN]

TypeOK ==
  /\ os \in [Pid -> Process]
  /\ lives \in 0..MaxLife
  /\ meta \in [Pid -> Metadata \cup {None}]
  /\ agent \in [Agent -> {"running", "closing", "closed", "crashed"}]
  /\ children \in [Agent -> SUBSET Pid]
  /\ op \in [Agent -> OpState]
  /\ unclosed \in [Agent -> SUBSET Pid]
  /\ report \in [Agent -> Told \cup {None}]
  /\ misfired \in BOOLEAN
  /\ unseen \in [Agent -> SUBSET Pid]

Runs(life) == \E p \in Pid : os[p].life = life /\ os[p].leader = "running"

(* What is said to have ended has ended, unless `ps` did not say when it    *)
(* started: no status of the files, and none that is told with an answer of *)
(* `ps`, is exited, stopped or stale while the command still runs.          *)
EndedIsEnded ==
  /\ \A p \in Pid : meta[p] # None /\ meta[p].status # "running" => ~Runs(meta[p].life)
  /\ \A a \in Agent :
       report[a] # None /\ report[a].status # "running" /\ ~report[a].blind
         => ~Runs(report[a].life)

(* A Child in the table keeps its number: until the owner takes it out,     *)
(* nobody else can have it.                                                 *)
ChildKeepsNumber ==
  \A a \in Agent : \A p \in children[a] : os[p].parent = a /\ os[p].leader # "none"

(* An agent that has the Child signals its own command or nobody, however   *)
(* long it waits between the look and the signal.  (Without the Child the   *)
(* start time is compared before, not when, the signal is sent.)            *)
SignalsOwn == ~misfired

(* A program that ends in order leaves none of its commands running, unless *)
(* their metadata was not written or has been overwritten, or `ps` did not  *)
(* answer, when they were started or when close looked.                     *)
Leaves(a) == agent[a] = "closing" /\ agent'[a] = "closed"

CloseLeavesNone ==
  [][\A a \in Agent, p \in Pid :
       Leaves(a) /\ os[p].parent = a /\ os[p].leader = "running"
         => \/ meta[p] = None \/ meta[p].life # os[p].life
            \/ ~meta[p].known \/ p \in unseen[a]]_vars

===============================================================================
