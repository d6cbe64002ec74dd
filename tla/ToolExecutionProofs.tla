------------------------- MODULE ToolExecutionProofs -------------------------
(***************************************************************************)
(* Proofs about ToolExecution, for any number of processes, bytes and      *)
(* calls, and any cap of the output.                                       *)
(***************************************************************************)
EXTENDS ToolExecution, SequenceTheorems, TLAPS

-----------------------------------------------------------------------------
(* The invariant of the bash tool                                           *)

Stream == B!Stream

ReaderState == [kept : Nat, capped : BOOLEAN, sent : BOOLEAN, failed : BOOLEAN]

Returned ==
  [reason : {"exit", "timeout", "cancelled", "failed"},
   note : {"none", "cap", "timeout", "start"}]

BashTypes ==
  /\ cancel \in BOOLEAN
  /\ at \in {"spawn", "cancel", "deadline", "wait", "out", "err", "reap", "done"}
  /\ shell \in {"none", "running", "zombie", "reaped"}
  /\ proc \in [Proc -> {"none", "group", "escaped", "dead"}]
  /\ holds \in [Proc -> SUBSET Stream]
  /\ pipe \in [Stream -> Nat]
  /\ written \in [Stream -> Nat]
  /\ reader \in [Stream -> ReaderState]
  /\ misfired \in BOOLEAN
  /\ at \in {"spawn", "cancel", "deadline", "wait"} => bash = None
  /\ at \in {"out", "err", "reap", "done"} => bash \in Returned
  /\ at \in {"out", "err", "reap"} => bash.reason # "failed"

(* A reader has what was written and is not in the pipe any more; unless a  *)
(* read failed, the last thing it does is at the end of the pipe, which     *)
(* nobody opens again.                                                      *)
Counts(st) ==
  /\ pipe[st] <= written[st]
  /\ reader[st].kept = B!Least(written[st] - pipe[st], Cap)
  /\ reader[st].capped <=> written[st] - pipe[st] > Cap
  /\ reader[st].sent => at # "spawn"
  /\ reader[st].sent /\ ~reader[st].failed => pipe[st] = 0 /\ ~B!Open(st)

NotStarted == at = "done" /\ bash.reason = "failed"

(* What is known of the shell, its group and the readers as the tool goes   *)
(* on.                                                                      *)
Stages ==
  /\ at = "spawn" \/ NotStarted => shell = "none" /\ \A p \in Proc : proc[p] = "none"
  /\ at \in {"cancel", "deadline", "wait"} => shell \in {"running", "zombie"}
  /\ at \in {"out", "err", "reap"} => shell \in {"zombie", "reaped"}
  /\ at = "done" /\ ~NotStarted => shell = "reaped"
  /\ at \in {"err", "reap", "done"} /\ ~NotStarted => reader["out"].sent
  /\ at \in {"reap", "done"} /\ ~NotStarted => reader["err"].sent
  /\ at \in {"out", "err", "reap", "done"} =>
       /\ bash.reason \in {"timeout", "cancelled"} => \A p \in Proc : proc[p] # "group"
       /\ bash.reason = "cancelled" => cancel
  /\ at = "done" /\ bash.reason \in {"exit", "timeout"} =>
       (bash.note = "cap" <=> \E st \in Stream : reader[st].capped)
  /\ ~misfired

BashInv == BashTypes /\ (\A st \in Stream : Counts(st)) /\ Stages

-----------------------------------------------------------------------------
(* The command and its readers                                              *)

LEMMA Streams == Stream = {"out", "err"}
BY DEF Stream, B!Stream

(* A chunk of n bytes keeps the count.                                      *)
LEMMA TakeCounts ==
  ASSUME NEW r \in ReaderState, NEW n \in Nat \ {0}, NEW d \in Nat,
         r.kept = B!Least(d, Cap), r.capped <=> d > Cap
  PROVE  /\ B!Take(r, n) \in ReaderState /\ B!Take(r, n).sent = r.sent
         /\ B!Take(r, n).failed = r.failed
         /\ B!Take(r, n).kept = B!Least(d + n, Cap)
         /\ B!Take(r, n).capped <=> d + n > Cap
<1>1. Cap \in Nat /\ r.kept \in Nat
  BY CapAssumption DEF ReaderState
<1> DEFINE keep == B!Least(n, Cap - r.kept)
           k == r.kept + keep
           c == r.capped \/ keep < n
<1>2. CASE r.kept < Cap
  <2>1. B!Take(r, n) = [r EXCEPT !.kept = k, !.capped = c]
    BY <1>2 DEF B!Take
  <2>2. k \in Nat /\ k = B!Least(d + n, Cap) /\ (c <=> d + n > Cap) /\ c \in BOOLEAN
    BY <1>1, <1>2 DEF B!Least
  <2> HIDE DEF k, c
  <2> QED BY <2>1, <2>2 DEF ReaderState
<1>3. CASE ~(r.kept < Cap)
  <2>1. B!Take(r, n) = [r EXCEPT !.capped = TRUE]
    BY <1>3 DEF B!Take
  <2>2. r.kept = B!Least(d + n, Cap) /\ d + n > Cap
    BY <1>1, <1>3 DEF B!Least
  <2> QED BY <2>1, <2>2 DEF ReaderState
<1> QED BY <1>2, <1>3

LEMMA CommandKeeps ==
  ASSUME BashInv, B!Command
  PROVE  BashInv' /\ at' = at /\ bash' = bash
<1>0. /\ pipe \in [Stream -> Nat] /\ written \in [Stream -> Nat]
      /\ reader \in [Stream -> ReaderState] /\ proc \in [Proc -> {"none", "group", "escaped", "dead"}]
      /\ holds \in [Proc -> SUBSET Stream] /\ Cap \in Nat
  BY CapAssumption DEF BashInv, BashTypes
<1>1. ASSUME NEW st \in Stream, B!Writes(st)
      PROVE  BashInv' /\ at' = at /\ bash' = bash
  <2>1. /\ ~reader[st].sent
        /\ pipe' = [pipe EXCEPT ![st] = pipe[st] + 1]
        /\ written' = [written EXCEPT ![st] = written[st] + 1]
        /\ UNCHANGED <<cancel, at, shell, proc, holds, reader, bash, misfired>>
    BY <1>1 DEF B!Writes
  <2>2. pipe' \in [Stream -> Nat] /\ written' \in [Stream -> Nat]
    BY <1>0, <2>1
  <2>3. ASSUME NEW s \in Stream PROVE Counts(s)'
    <3>1. CASE s = st
      <4>1. ~reader[st].sent
        BY <2>1
      <4>2. /\ pipe'[st] = pipe[st] + 1 /\ written'[st] = written[st] + 1
            /\ pipe[st] \in Nat /\ written[st] \in Nat
        BY <1>0, <2>1
      <4>3. /\ pipe'[st] <= written'[st]
            /\ written'[st] - pipe'[st] = written[st] - pipe[st]
        BY <4>2 DEF BashInv, Counts
      <4> QED BY <2>1, <3>1, <4>1, <4>3 DEF BashInv, Counts
    <3>2. CASE s # st
      BY <1>0, <2>1, <3>2 DEF BashInv, Counts, B!Open, B!Alive
    <3> QED BY <3>1, <3>2
  <2>4. Stages'
    <3>1. ~reader[st].sent
      BY <2>1
    <3>2. at = "done" => NotStarted
      BY <3>1, Streams DEF BashInv, Stages
    <3> QED BY <2>1, <3>2 DEF BashInv, Stages, NotStarted
  <2> QED BY <2>1, <2>2, <2>3, <2>4 DEF BashInv, BashTypes
<1>2. ASSUME NEW p \in Proc, B!Forks(p)
      PROVE  BashInv' /\ at' = at /\ bash' = bash
  <2>1. /\ shell = "running" /\ proc' = [proc EXCEPT ![p] = "group"]
        /\ UNCHANGED <<cancel, at, shell, written, pipe, reader, bash, misfired>>
    BY <1>2 DEF B!Forks
  <2>2. holds' \in [Proc -> SUBSET Stream] /\ proc' \in [Proc -> {"none", "group", "escaped", "dead"}]
    BY <1>0, <1>2, <2>1, Streams DEF B!Forks, B!Stream
  <2>3. ASSUME NEW s \in Stream PROVE Counts(s)'
    BY <2>1 DEF BashInv, Counts, B!Open
  <2>4. Stages'
    BY <2>1 DEF BashInv, Stages, NotStarted, BashTypes
  <2> QED BY <2>1, <2>2, <2>3, <2>4 DEF BashInv, BashTypes
<1>3. ASSUME NEW p \in Proc, B!Escapes(p) \/ B!Ends(p)
      PROVE  BashInv' /\ at' = at /\ bash' = bash
  <2>1. /\ proc[p] # "none"
        /\ proc' \in {[proc EXCEPT ![p] = "escaped"], [proc EXCEPT ![p] = "dead"]}
        /\ proc' = [proc EXCEPT ![p] = "escaped"] => B!Alive(p)
        /\ UNCHANGED <<cancel, at, shell, holds, written, pipe, reader, bash, misfired>>
    BY <1>3, <1>0 DEF B!Escapes, B!Ends, B!Alive
  <2>2. /\ proc' \in [Proc -> {"none", "group", "escaped", "dead"}]
        /\ \A q \in Proc : B!Alive(q)' => B!Alive(q)
        /\ \A q \in Proc : proc'[q] = "group" => proc[q] = "group"
        /\ ~(\A q \in Proc : proc[q] = "none")
    BY <1>0, <2>1 DEF B!Alive
  <2>3. ASSUME NEW s \in Stream PROVE Counts(s)'
    <3>1. B!Open(s)' => B!Open(s)
      BY <2>1, <2>2 DEF B!Open
    <3> QED BY <2>1, <3>1 DEF BashInv, Counts
  <2>4. Stages'
    BY <2>1, <2>2 DEF BashInv, Stages, NotStarted
  <2> QED BY <2>1, <2>2, <2>3, <2>4 DEF BashInv, BashTypes
<1>4. CASE B!ShellEnds
  <2>1. /\ shell = "running" /\ shell' = "zombie"
        /\ UNCHANGED <<cancel, at, proc, holds, written, pipe, reader, bash, misfired>>
    BY <1>4 DEF B!ShellEnds
  <2>2. ASSUME NEW s \in Stream PROVE Counts(s)'
    BY <2>1 DEF BashInv, Counts, B!Open
  <2>3. Stages'
    BY <2>1 DEF BashInv, Stages, NotStarted, BashTypes
  <2> QED BY <2>1, <2>2, <2>3 DEF BashInv, BashTypes
<1> QED BY <1>1, <1>2, <1>3, <1>4 DEF B!Command, Stream

LEMMA ReadingKeeps ==
  ASSUME BashInv, NEW st \in Stream, B!Reading(st) \/ B!ReadFails(st)
  PROVE  BashInv' /\ at' = at /\ bash' = bash
<1>0. /\ pipe \in [Stream -> Nat] /\ written \in [Stream -> Nat]
      /\ reader \in [Stream -> ReaderState] /\ Cap \in Nat /\ Chunk \in Nat
      /\ pipe[st] \in Nat /\ written[st] \in Nat /\ reader[st] \in ReaderState
  BY CapAssumption DEF BashInv, BashTypes
<1>1. CASE B!ReadSome(st)
  <2>1. PICK n \in 1..B!Least(Chunk, pipe[st]) :
          /\ reader' = [reader EXCEPT ![st] = B!Take(reader[st], n)]
          /\ pipe' = [pipe EXCEPT ![st] = pipe[st] - n]
    BY <1>1 DEF B!ReadSome
  <2>2. /\ ~reader[st].sent
        /\ UNCHANGED <<cancel, at, shell, proc, holds, written, bash, misfired>>
    BY <1>1 DEF B!ReadSome, B!processes
  <2>3. n \in Nat \ {0} /\ n <= pipe[st]
    BY <1>0, <2>1 DEF B!Least
  <2> DEFINE d == written[st] - pipe[st]
             r == B!Take(reader[st], n)
  <2>4. d \in Nat /\ pipe[st] <= written[st]
        /\ reader[st].kept = B!Least(d, Cap) /\ (reader[st].capped <=> d > Cap)
    BY <1>0 DEF BashInv, Counts
  <2>5. /\ r \in ReaderState /\ r.sent = reader[st].sent /\ r.failed = reader[st].failed
        /\ r.kept = B!Least(d + n, Cap) /\ (r.capped <=> d + n > Cap)
    <3> HIDE DEF d, r
    <3> QED BY <1>0, <2>3, <2>4, TakeCounts DEF r
  <2>6. /\ reader'[st] = r /\ pipe'[st] = pipe[st] - n
        /\ reader' \in [Stream -> ReaderState] /\ pipe' \in [Stream -> Nat]
        /\ \A s \in Stream \ {st} : reader'[s] = reader[s] /\ pipe'[s] = pipe[s]
    <3> HIDE DEF r
    <3> QED BY <1>0, <2>1, <2>3, <2>5 DEF r
  <2>7. Counts(st)'
    <3>1. written'[st] - pipe'[st] = d + n /\ pipe'[st] <= written'[st]
      BY <1>0, <2>2, <2>3, <2>4, <2>6
    <3> HIDE DEF d, r
    <3> QED BY <2>2, <2>5, <2>6, <3>1 DEF Counts
  <2>8. ASSUME NEW s \in Stream, s # st PROVE Counts(s)'
    BY <2>2, <2>6, <2>8 DEF BashInv, Counts, B!Open, B!Alive
  <2>9. \A s \in Stream : reader'[s].sent = reader[s].sent
    <3> HIDE DEF r
    <3> QED BY <2>5, <2>6
  <2>10. at = "done" => NotStarted
    BY <2>2, Streams DEF BashInv, Stages
  <2>11. Stages'
    BY <2>2, <2>9, <2>10, Streams DEF BashInv, Stages, NotStarted
  <2> QED BY <2>2, <2>6, <2>7, <2>8, <2>11 DEF BashInv, BashTypes
<1>2. CASE B!ReadEnd(st) \/ B!ReadFails(st)
  <2>1. /\ at # "spawn" /\ ~reader[st].sent
        /\ UNCHANGED <<cancel, at, shell, proc, holds, written, pipe, bash, misfired>>
    BY <1>2 DEF B!ReadEnd, B!ReadFails, B!processes
  <2>2. PICK r \in ReaderState :
          /\ reader' = [reader EXCEPT ![st] = r]
          /\ r.sent /\ r.kept = reader[st].kept /\ r.capped = reader[st].capped
          /\ r.failed \/ (pipe[st] = 0 /\ ~B!Open(st))
    <3>1. CASE B!ReadEnd(st)
      <4> DEFINE r == [reader[st] EXCEPT !.sent = TRUE]
      <4>1. reader' = [reader EXCEPT ![st] = r] /\ pipe[st] = 0 /\ ~B!Open(st)
        BY <1>0, <3>1 DEF B!ReadEnd
      <4>2. /\ r \in ReaderState /\ r.sent /\ r.kept = reader[st].kept
            /\ r.capped = reader[st].capped
        BY <1>0 DEF ReaderState
      <4> QED BY <4>1, <4>2
    <3>2. CASE B!ReadFails(st)
      <4> DEFINE r == [reader[st] EXCEPT !.sent = TRUE, !.failed = TRUE]
      <4>1. reader' = [reader EXCEPT ![st] = r]
        BY <1>0, <3>2 DEF B!ReadFails
      <4>2. /\ r \in ReaderState /\ r.sent /\ r.kept = reader[st].kept
            /\ r.capped = reader[st].capped /\ r.failed
        BY <1>0 DEF ReaderState
      <4> QED BY <4>1, <4>2
    <3> QED BY <1>2, <3>1, <3>2
  <2>3. /\ reader'[st] = r /\ reader' \in [Stream -> ReaderState]
        /\ \A s \in Stream \ {st} : reader'[s] = reader[s]
    BY <1>0, <2>2
  <2>4. ASSUME NEW s \in Stream PROVE Counts(s)'
    <3>1. B!Open(s)' <=> B!Open(s)
      BY <2>1 DEF B!Open, B!Alive
    <3> QED BY <2>1, <2>2, <2>3, <3>1 DEF BashInv, Counts
  <2>5. \A s \in Stream : /\ reader[s].sent => reader'[s].sent
                          /\ reader'[s].capped = reader[s].capped
    BY <2>2, <2>3
  <2>6. Stages'
    BY <2>1, <2>5, Streams DEF BashInv, Stages, NotStarted
  <2> QED BY <2>1, <2>3, <2>4, <2>6 DEF BashInv, BashTypes
<1> QED BY <1>1, <1>2 DEF B!Reading

-----------------------------------------------------------------------------
(* run_bash                                                                 *)

(* What no step of run_bash touches.                                        *)
Untouched == UNCHANGED <<cancel, holds, pipe, reader, written>>

LEMMA SpawnKeeps ==
  ASSUME BashInv, B!Spawn
  PROVE  BashInv' /\ at # "done"
<1>1. /\ at = "spawn" /\ Untouched /\ UNCHANGED <<proc, misfired>>
      /\ (\/ at' = "cancel" /\ shell' = "running" /\ UNCHANGED bash
          \/ at' = "done" /\ bash' = [reason |-> "failed", note |-> "start"] /\ UNCHANGED shell)
  BY DEF B!Spawn, Untouched
<1>2. ASSUME NEW st \in Stream PROVE Counts(st)'
  BY <1>1 DEF BashInv, Counts, Untouched
<1>3. BashTypes'
  BY <1>1 DEF BashInv, BashTypes, Untouched, Returned
<1>4. Stages'
  BY <1>1 DEF BashInv, Stages, Untouched, NotStarted
<1> QED BY <1>1, <1>2, <1>3, <1>4 DEF BashInv

LEMMA PassesKeeps ==
  ASSUME BashInv, B!Passes
  PROVE  BashInv' /\ at # "done"
<1>1. Untouched /\ UNCHANGED <<at, shell, proc, bash, misfired>> /\ at # "done"
  BY DEF B!Passes, Untouched, B!processes
<1> QED BY <1>1 DEF BashInv, BashTypes, Counts, Stages, NotStarted, Untouched, B!Open, B!Alive

(* A kill ends the shell and every process of its group.                    *)
LEMMA KillKeeps ==
  ASSUME BashInv, at \in {"cancel", "deadline"}, Untouched,
         NEW reason \in {"timeout", "cancelled"}, B!Kill(reason),
         reason = "cancelled" => cancel
  PROVE  BashInv'
<1>1. /\ at' = "out" /\ bash' = [reason |-> reason, note |-> "none"]
      /\ shell' = "zombie" /\ ~misfired'
      /\ proc' = [p \in Proc |-> IF proc[p] = "group" THEN "dead" ELSE proc[p]]
  BY DEF B!Kill, BashInv, Stages
<1>2. bash' \in Returned /\ bash'.reason = reason
  BY <1>1 DEF Returned
<1>3. /\ proc' \in [Proc -> {"none", "group", "escaped", "dead"}]
      /\ \A p \in Proc : proc'[p] # "group" /\ (B!Alive(p)' => B!Alive(p))
  BY <1>1 DEF BashInv, BashTypes, B!Alive
<1>4. ASSUME NEW st \in Stream PROVE Counts(st)'
  <2>1. B!Open(st)' => B!Open(st)
    BY <1>1, <1>3 DEF B!Open, Untouched
  <2> QED BY <1>1, <2>1 DEF BashInv, Counts, Untouched
<1>5. BashTypes'
  <2>1. misfired' \in BOOLEAN
    BY DEF B!Kill
  <2> QED BY <1>1, <1>2, <1>3, <2>1 DEF BashInv, BashTypes, Untouched
<1>6. Stages'
  BY <1>1, <1>2, <1>3 DEF BashInv, Stages, Untouched, NotStarted
<1> QED BY <1>4, <1>5, <1>6 DEF BashInv

LEMMA LookKeeps ==
  ASSUME BashInv, B!LookAtCancel \/ B!LookAtDeadline \/ B!LookAtShell
  PROVE  BashInv' /\ at # "done"
<1>1. Untouched /\ at \in {"cancel", "deadline", "wait"}
  BY DEF B!LookAtCancel, B!LookAtDeadline, B!LookAtShell, Untouched
<1>2. CASE B!LookAtCancel /\ cancel
  BY <1>1, <1>2, KillKeeps DEF B!LookAtCancel
<1>3. CASE B!LookAtDeadline /\ expired
  BY <1>1, <1>3, KillKeeps DEF B!LookAtDeadline
<1>4. CASE /\ at' \in {"cancel", "deadline", "wait"}
           /\ UNCHANGED <<shell, proc, bash, misfired>>
  BY <1>1, <1>4 DEF BashInv, BashTypes, Counts, Stages, NotStarted, Untouched, B!Open, B!Alive
<1>5. CASE B!LookAtShell /\ shell = "zombie"
  <2>1. /\ shell' = "reaped" /\ at' = "out" /\ bash' = [reason |-> "exit", note |-> "none"]
        /\ UNCHANGED <<proc, misfired>>
    BY <1>5 DEF B!LookAtShell
  <2>2. bash' \in Returned /\ bash'.reason = "exit"
    BY <2>1 DEF Returned
  <2>3. ASSUME NEW st \in Stream PROVE Counts(st)'
    BY <1>1, <2>1 DEF BashInv, Counts, Untouched, B!Open, B!Alive
  <2> QED BY <1>1, <2>1, <2>2, <2>3 DEF BashInv, BashTypes, Stages, NotStarted, Untouched
<1> QED BY <1>1, <1>2, <1>3, <1>4, <1>5 DEF B!LookAtCancel, B!LookAtDeadline, B!LookAtShell

LEMMA ReceiveKeeps ==
  ASSUME BashInv, B!Receive("out", "out", "err") \/ B!Receive("err", "err", "reap")
  PROVE  BashInv' /\ at # "done"
<1>1. /\ Untouched /\ UNCHANGED <<shell, proc, bash, misfired>>
      /\ (\/ at = "out" /\ at' = "err" /\ reader["out"].sent
          \/ at = "err" /\ at' = "reap" /\ reader["err"].sent)
  BY DEF B!Receive, Untouched, B!processes
<1>2. ASSUME NEW st \in Stream PROVE Counts(st)'
  BY <1>1 DEF BashInv, Counts, Untouched, B!Open, B!Alive
<1>3. BashTypes'
  BY <1>1 DEF BashInv, BashTypes, Untouched
<1>4. Stages'
  BY <1>1 DEF BashInv, Stages, NotStarted, Untouched
<1> QED BY <1>1, <1>2, <1>3, <1>4 DEF BashInv

(* The result is made when both readers are at the end of their pipes.      *)
LEMMA ReapKeeps ==
  ASSUME BashInv, B!Reap
  PROVE  BashInv' /\ at # "done"
<1>1. /\ at = "reap" /\ at' = "done" /\ shell' = "reaped"
      /\ bash' = [bash EXCEPT !.note = B!Note]
      /\ Untouched /\ UNCHANGED <<proc, misfired>>
  BY DEF B!Reap, Untouched
<1>2. /\ bash \in Returned /\ bash.reason \in {"exit", "timeout", "cancelled"}
      /\ reader["out"].sent /\ reader["err"].sent
  BY <1>1 DEF BashInv, BashTypes, Stages, Returned, NotStarted
<1>4. /\ B!Note \in {"none", "cap", "timeout"}
      /\ bash.reason # "cancelled" =>
           (B!Note = "cap" <=> reader["out"].capped \/ reader["err"].capped)
  BY <1>2 DEF B!Note
<1>5. bash' \in Returned /\ bash'.reason = bash.reason /\ bash'.note = B!Note
  <2> DEFINE note == B!Note
  <2>1. note \in {"none", "cap", "timeout"} /\ bash' = [bash EXCEPT !.note = note]
    BY <1>1, <1>4
  <2> HIDE DEF note
  <2>2. bash' \in Returned /\ bash'.reason = bash.reason /\ bash'.note = note
    BY <1>2, <2>1 DEF Returned
  <2> QED BY <2>2 DEF note
<1>6. ASSUME NEW st \in Stream PROVE Counts(st)'
  <2>1. shell # "running"
    BY <1>1 DEF BashInv, Stages
  <2> QED BY <1>1, <2>1 DEF BashInv, Counts, Untouched, B!Open, B!Alive
<1>7. BashTypes'
  BY <1>1, <1>5 DEF BashInv, BashTypes, Untouched
<1>8. Stages'
  <2>1. bash'.reason \in {"exit", "timeout"} =>
          (bash'.note = "cap" <=> \E st \in Stream : reader[st].capped)
    BY <1>4, <1>5, Streams
  <2> QED BY <1>1, <1>2, <1>5, <2>1 DEF BashInv, Stages, NotStarted, Untouched
<1> QED BY <1>1, <1>6, <1>7, <1>8 DEF BashInv

LEMMA BashStepKeeps ==
  ASSUME BashInv, B!Next
  PROVE  BashInv' /\ (at = "done" => at' = at /\ bash' = bash)
<1>1. CASE \E st \in Stream : B!Reading(st) \/ B!ReadFails(st)
  BY <1>1, ReadingKeeps
<1> QED BY <1>1, SpawnKeeps, CommandKeeps, PassesKeeps, LookKeeps, ReceiveKeeps, ReapKeeps
        DEF B!Next, B!Run, Stream

-----------------------------------------------------------------------------
(* The invariant of the MCP client                                          *)

Answer == {"result", "failed", "aborted", "timeout"}
CallState ==
  [at : {"no", "sending", "waiting", "done"}, answer : Answer \cup {None, "closed"}]
Progress == {"none", "underway", "withdrawn", "performed", "replied"}
Command == Call \cup {"close"}

McpTypes ==
  /\ cancel \in BOOLEAN
  /\ loader \in {"starting", "late", "loaded", "rejected", "failed", "gone"}
  /\ startup \in {None, "ok", "error"}
  /\ thread \in {"connecting", "connected", "serving", "calling", "closing", "ended"}
  /\ service \in {"none", "open", "closed"}
  /\ current \in Call \cup {None}
  /\ queue \in Seq(Command)
  /\ closed \in BOOLEAN
  /\ closer \in {"no", "flagged", "sent", "joining", "done"}
  /\ server \in [Call -> Progress]
  /\ call \in [Call -> CallState]

(* Nothing is sent to a thread that did not announce itself, and what was   *)
(* sent to one that ended is gone.                                          *)
Startup ==
  /\ startup = "ok" => thread \notin {"connecting", "connected"}
  /\ loader \in {"loaded", "rejected"} => startup = "ok"
  /\ closer # "no" => loader \in {"loaded", "rejected"}
  /\ \A k \in Call : call[k].at # "no" => loader = "loaded"
  /\ thread \in {"connecting", "connected", "ended"} => queue = << >>

Pending(k) == call[k].at = "waiting" /\ call[k].answer = None
Queued(k) == \E i \in 1..Len(queue) : queue[i] = k
Current(k) == thread = "calling" /\ current = k

(* A command of the queue is a call that still waits, once; so is the one   *)
(* that is served.                                                          *)
Served ==
  /\ thread = "calling" => current \in Call /\ Pending(current) /\ ~Queued(current)
  /\ \A k \in Call : Queued(k) => Pending(k)
  /\ \A i, j \in 1..Len(queue) : queue[i] \in Call /\ queue[i] = queue[j] => i = j

(* What a caller was told is true, and a call without an answer of the      *)
(* thread has not been sent to the server unless it is the current one.     *)
Told(k) ==
  /\ call[k].at \in {"no", "sending"} => call[k].answer = None
  /\ call[k].at = "done" => call[k].answer # None
  /\ call[k].answer = "closed" => call[k].at = "done"
  /\ call[k].answer \in {None, "closed"} => server[k] = "none" \/ Current(k)
  /\ call[k].answer = "result" => server[k] \in {"performed", "replied"}
  /\ call[k].answer = "aborted" => cancel \/ closed

McpInv == McpTypes /\ Startup /\ Served /\ (\A k \in Call : Told(k))

-----------------------------------------------------------------------------
(* The thread and the loader                                                *)

(* Steps that touch neither the calls nor the queue nor the server.         *)
LEMMA StartupKeeps ==
  ASSUME McpInv, M!Loader \/ M!Connects \/ M!ConnectFails \/ M!Announce \/ M!Close
                 \/ M!CloseWaited \/ M!CloseJoins
  PROVE  McpInv'
<1> USE DEF M!loading, M!connection, M!callers
<1>1. UNCHANGED <<cancel, call, queue, server, current>>
  BY DEF M!Loader, M!Load, M!LoadFails, M!LoadTimesOut, M!GiveUp, M!Connects,
     M!ConnectFails, M!Announce, M!Close, M!CloseWaited, M!CloseJoins
<1>2. /\ thread # "calling" \/ UNCHANGED thread
      /\ thread' = "calling" => UNCHANGED thread
      /\ closed => closed'
  BY DEF M!Loader, M!Load, M!LoadFails, M!LoadTimesOut, M!GiveUp, M!Connects,
     M!ConnectFails, M!Announce, M!Close, M!CloseWaited, M!CloseJoins
<1>3. McpTypes'
  <2>1. /\ loader' \in {loader, "late", "loaded", "rejected", "failed", "gone"}
        /\ closed' = closed \/ closed' = TRUE
        /\ closer' \in {closer, "flagged", "joining", "done"}
    BY DEF M!Loader, M!Load, M!LoadFails, M!LoadTimesOut, M!GiveUp, M!Connects,
       M!ConnectFails, M!Announce, M!Close, M!CloseWaited, M!CloseJoins
  <2>2. /\ startup' \in {startup, "ok", "error"}
        /\ service' \in {service, "open"}
        /\ thread' \in {thread, "connected", "serving", "closing", "ended"}
    BY DEF M!Loader, M!Load, M!LoadFails, M!LoadTimesOut, M!GiveUp, M!Connects,
       M!ConnectFails, M!Announce, M!Close, M!CloseWaited, M!CloseJoins
  <2>3. cancel' \in BOOLEAN /\ closed' \in BOOLEAN
    BY <1>1, <2>1 DEF McpInv, McpTypes
  <2>4. /\ loader' \in {"starting", "late", "loaded", "rejected", "failed", "gone"}
        /\ closer' \in {"no", "flagged", "sent", "joining", "done"}
    BY <2>1 DEF McpInv, McpTypes
  <2>5. /\ startup' \in {None, "ok", "error"} /\ service' \in {"none", "open", "closed"}
        /\ thread' \in {"connecting", "connected", "serving", "calling", "closing", "ended"}
    BY <2>2 DEF McpInv, McpTypes
  <2> QED BY <1>1, <2>3, <2>4, <2>5 DEF McpInv, McpTypes
<1>4. Startup'
  BY <1>1, NoneAssumption DEF McpInv, McpTypes, Startup, M!Loader, M!Load, M!LoadFails,
     M!LoadTimesOut, M!GiveUp, M!Connects, M!ConnectFails, M!Announce, M!Close,
     M!CloseWaited, M!CloseJoins
<1>5. Served'
  BY <1>1, <1>2 DEF McpInv, Served, Pending, Queued
<1>6. ASSUME NEW k \in Call PROVE Told(k)'
  BY <1>1, <1>2 DEF McpInv, Told, Current
<1> QED BY <1>3, <1>4, <1>5, <1>6 DEF McpInv

LEMMA ReceiveCommandKeeps ==
  ASSUME McpInv, M!Receive
  PROVE  McpInv'
<1> USE DEF M!loading, M!connection, M!callers
<1>1. /\ thread = "serving" /\ thread' \in {"calling", "closing"}
      /\ UNCHANGED <<cancel, loader, startup, service, closed, call, closer, server>>
      /\ queue \in Seq(Command)
  BY DEF M!Receive, McpInv, McpTypes
<1>2. CASE queue = << >>
  BY <1>1, <1>2 DEF M!Receive, McpInv, McpTypes, Startup, Served, Told, Pending, Queued, Current
<1>3. CASE queue # << >>
  <2>1. /\ queue' = Tail(queue) /\ queue' \in Seq(Command) /\ Head(queue) = queue[1]
        /\ queue[1] \in Command
        /\ Len(queue') \in Nat /\ Len(queue) = Len(queue') + 1
        /\ \A i \in 1..Len(queue') : queue'[i] = queue[i + 1] /\ i + 1 \in 1..Len(queue)
        /\ 1 \in 1..Len(queue)
    BY <1>1, <1>3, HeadTailProperties, LenProperties DEF M!Receive
  <2>2. /\ \A k \in Call : Queued(k)' => Queued(k)
        /\ \A k \in Call : k = queue[1] => ~Queued(k)' /\ Queued(k)
    BY <2>1 DEF McpInv, Served, Queued
  <2>3. \A i, j \in 1..Len(queue') : queue'[i] \in Call /\ queue'[i] = queue'[j] => i = j
    BY <2>1 DEF McpInv, Served
  <2>4. \/ queue[1] \in Call /\ thread' = "calling" /\ current' = queue[1]
        \/ thread' = "closing" /\ UNCHANGED current
    BY <1>3, <2>1 DEF M!Receive, M!CloseCommand, Command
  <2>5. Served'
    <3>1. \A k \in Call : Pending(k)' <=> Pending(k)
      BY <1>1 DEF Pending
    <3> QED BY <1>1, <2>2, <2>3, <2>4, <3>1 DEF McpInv, Served, Pending
  <2>6. McpTypes'
    BY <1>1, <2>1, <2>4 DEF McpInv, McpTypes
  <2>7. Startup'
    BY <1>1, <2>4 DEF McpInv, Startup
  <2>8. ASSUME NEW k \in Call PROVE Told(k)'
    BY <1>1 DEF McpInv, Told, Current
  <2> QED BY <2>5, <2>6, <2>7, <2>8 DEF McpInv
<1> QED BY <1>2, <1>3

(* The server is reached by the current call only, or has been.             *)
LEMMA ServerKeeps ==
  ASSUME McpInv, M!Sends \/ M!Serves
  PROVE  McpInv'
<1> USE DEF M!loading, M!connection, M!callers
<1>1. UNCHANGED <<cancel, loader, startup, thread, service, current, queue, closed, call, closer>>
  BY DEF M!Sends, M!Serves, M!Performs, M!Replies
<1>2. PICK k \in Call, to \in {"underway", "performed", "replied"} :
        /\ server' = [server EXCEPT ![k] = to]
        /\ to = "underway" => Current(k)
        /\ to = "performed" => server[k] = "underway"
        /\ to = "replied" => server[k] = "performed"
  BY DEF M!Sends, M!Serves, M!Performs, M!Replies, McpInv, Served, Current
<1>3. server' \in [Call -> Progress] /\ server'[k] = to
      /\ \A q \in Call \ {k} : server'[q] = server[q]
  BY <1>2 DEF McpInv, McpTypes, Progress
<1>4. ASSUME NEW q \in Call PROVE Told(q)'
  <2>1. CASE q # k
    BY <1>1, <1>3, <2>1 DEF McpInv, Told, Current
  <2>2. CASE q = k
    <3>1. Current(k) => call[k].answer = None
      BY DEF McpInv, Served, Pending, Current
    <3> QED BY <1>1, <1>2, <1>3, <2>2, <3>1, NoneAssumption DEF McpInv, Told, Current
  <2> QED BY <2>1, <2>2
<1> QED BY <1>1, <1>3, <1>4 DEF McpInv, McpTypes, Startup, Served, Pending, Queued

LEMMA AnswersKeeps ==
  ASSUME McpInv, M!Answers
  PROVE  McpInv'
<1> USE DEF M!loading, M!connection, M!callers
<1>1. /\ thread = "calling" /\ thread' = "serving" /\ current' = None
      /\ UNCHANGED <<cancel, loader, startup, service, queue, closed, closer>>
      /\ M!Withdraws(current)
  BY DEF M!Answers
<1>2. current \in Call /\ Pending(current) /\ ~Queued(current)
  BY <1>1 DEF McpInv, Served
<1>3. PICK answer \in Answer :
        M!CallResult(answer) /\ call' = [call EXCEPT ![current].answer = answer]
  BY DEF M!Answers, Answer
<1>4. /\ call' \in [Call -> CallState] /\ call'[current].at = "waiting"
      /\ call'[current].answer = answer
      /\ \A k \in Call \ {current} : call'[k] = call[k]
  <2> DEFINE state == [call[current] EXCEPT !.answer = answer]
  <2>1. state \in CallState /\ state.at = "waiting" /\ state.answer = answer
    BY <1>2, <1>3 DEF McpInv, McpTypes, CallState, Pending
  <2>2. call' = [call EXCEPT ![current] = state]
    BY <1>3
  <2> HIDE DEF state
  <2> QED BY <1>2, <2>1, <2>2 DEF McpInv, McpTypes
<1>5. /\ server' \in [Call -> Progress]
      /\ \A k \in Call \ {current} : server'[k] = server[k]
      /\ server[current] = "replied" => server'[current] = "replied"
  BY <1>1, <1>2 DEF M!Withdraws, McpInv, McpTypes, Progress
<1>6. ASSUME NEW k \in Call PROVE Told(k)'
  <2>1. CASE k # current
    BY <1>1, <1>4, <1>5, <2>1 DEF McpInv, Told, Current
  <2>2. CASE k = current
    BY <1>1, <1>2, <1>3, <1>4, <1>5, <2>2, NoneAssumption DEF Told, M!CallResult, Answer
  <2> QED BY <2>1, <2>2
<1>7. Served'
  <2>1. \A k \in Call : Queued(k)' => Queued(k) /\ k # current /\ Pending(k)' = Pending(k)
    BY <1>1, <1>2, <1>4 DEF Queued, Pending
  <2> QED BY <1>1, <2>1 DEF McpInv, Served
<1>8. McpTypes'
  BY <1>1, <1>4, <1>5 DEF McpInv, McpTypes
<1>9. Startup'
  BY <1>1, <1>2, <1>4 DEF McpInv, Startup, Pending
<1> QED BY <1>6, <1>7, <1>8, <1>9 DEF McpInv

LEMMA EndThreadKeeps ==
  ASSUME McpInv, M!EndThread
  PROVE  McpInv'
<1>1. /\ thread = "closing" /\ thread' = "ended" /\ service' = "closed" /\ queue' = << >>
      /\ UNCHANGED <<cancel, loader, startup, current, closed, call, closer, server>>
  BY DEF M!EndThread, M!loading, M!callers
<1>2. queue' \in Seq(Command) /\ Len(queue') = 0
  BY <1>1
<1> QED BY <1>1, <1>2 DEF McpInv, McpTypes, Startup, Served, Told, Pending, Queued, Current

-----------------------------------------------------------------------------
(* The callers                                                              *)

(* A call that neither waits in the queue nor is served goes on.            *)
LEMMA CallerKeeps ==
  ASSUME McpInv, NEW k \in Call, ~Queued(k), ~Current(k), loader = "loaded",
         NEW state \in CallState, call' = [call EXCEPT ![k] = state],
         state.at \in {"no", "sending"} => state.answer = None,
         state.at = "done" => state.answer # None,
         state.answer = "closed" => state.at = "done",
         state.answer \in {None, "closed"} => call[k].answer \in {None, "closed"},
         state.answer \in {"result", "aborted"} => state.answer = call[k].answer,
         UNCHANGED <<cancel, loader, startup, thread, service, current, closed, closer, server>>,
         UNCHANGED queue \/ (/\ queue' = Append(queue, k) /\ thread # "ended"
                             /\ state.at = "waiting" /\ state.answer = None)
  PROVE  McpInv'
<1>1. call' \in [Call -> CallState] /\ call'[k] = state /\ \A q \in Call \ {k} : call'[q] = call[q]
  BY DEF McpInv, McpTypes
<1>2. ASSUME NEW q \in Call PROVE Told(q)'
  BY <1>1 DEF McpInv, Told, Current
<1>3. CASE UNCHANGED queue
  <2>1. Served'
    BY <1>1, <1>3 DEF McpInv, Served, Pending, Queued, Current
  <2> QED BY <1>1, <1>2, <1>3, <2>1 DEF McpInv, McpTypes, Startup
<1>4. CASE queue' = Append(queue, k) /\ thread # "ended" /\ state.at = "waiting" /\ state.answer = None
  <2>1. /\ queue \in Seq(Command) /\ k \in Command
    BY DEF McpInv, McpTypes, Command
  <2>2. /\ queue' \in Seq(Command) /\ Len(queue) \in Nat /\ Len(queue') = Len(queue) + 1
        /\ \A i \in 1..Len(queue) : queue'[i] = queue[i]
        /\ queue'[Len(queue) + 1] = k
    BY <1>4, <2>1, AppendProperties, LenProperties
  <2>3. \A q \in Call : Queued(q)' => q = k \/ Queued(q)
    BY <2>2 DEF Queued
  <2>4. \A i, j \in 1..Len(queue') : queue'[i] \in Call /\ queue'[i] = queue'[j] => i = j
    BY <2>2 DEF McpInv, Served, Queued
  <2>5. Served'
    <3>1. \A q \in Call : Queued(q)' => Pending(q)'
      BY <1>1, <1>4, <2>3 DEF McpInv, Served, Pending
    <3>2. thread = "calling" => current' \in Call /\ Pending(current)' /\ ~Queued(current)'
      BY <1>1, <2>3 DEF McpInv, Served, Pending, Current
    <3> QED BY <2>4, <3>1, <3>2 DEF Served
  <2>6. thread \notin {"connecting", "connected"}
    BY DEF McpInv, Startup
  <2> QED BY <1>1, <1>2, <1>4, <2>2, <2>5, <2>6 DEF McpInv, McpTypes, Startup
<1> QED BY <1>3, <1>4

LEMMA CallingKeeps ==
  ASSUME McpInv, M!Calling
  PROVE  McpInv'
<1> USE DEF M!loading, M!connection, M!callers
<1>1. ASSUME NEW k \in Call,
             M!CallRefused(k) \/ M!CallStarts(k) \/ M!CallSends(k) \/ M!CallReturns(k)
      PROVE  McpInv'
  <2>0. /\ call \in [Call -> CallState] /\ call[k] \in CallState /\ Told(k)
        /\ call[k].at # "no" => loader = "loaded"
        /\ (Queued(k) \/ Current(k)) => Pending(k)
        /\ thread = "ended" => ~Queued(k) /\ ~Current(k)
    <3>1. thread = "ended" => Len(queue) = 0
      BY DEF McpInv, Startup
    <3> QED BY <3>1 DEF McpInv, McpTypes, Startup, Served, Queued, Current
  <2>1. CASE M!CallRefused(k)
    <3> DEFINE state == [at |-> "done", answer |-> "closed"]
    <3>1. state \in CallState /\ state.at = "done" /\ state.answer = "closed"
      BY DEF CallState
    <3>2. /\ call' = [call EXCEPT ![k] = state] /\ loader = "loaded"
          /\ UNCHANGED <<cancel, loader, startup, thread, service, current, queue, closed,
                         closer, server>>
      BY <2>1 DEF M!CallRefused
    <3>3. ~Queued(k) /\ ~Current(k) /\ call[k].answer = None
      BY <2>0, <2>1 DEF M!CallRefused, Pending, Told
    <3> HIDE DEF state
    <3> QED BY <3>1, <3>2, <3>3, CallerKeeps, NoneAssumption
  <2>2. CASE M!CallStarts(k)
    <3> DEFINE state == [call[k] EXCEPT !.at = "sending"]
    <3>1. state \in CallState /\ state.at = "sending" /\ state.answer = None
      BY <2>0, <2>2 DEF M!CallStarts, CallState, Told
    <3>2. /\ call' = [call EXCEPT ![k] = state] /\ loader = "loaded"
          /\ UNCHANGED <<cancel, loader, startup, thread, service, current, queue, closed,
                         closer, server>>
      BY <2>2 DEF M!CallStarts
    <3>3. ~Queued(k) /\ ~Current(k) /\ call[k].answer = None
      BY <2>0, <2>2 DEF M!CallStarts, Pending, Told
    <3> HIDE DEF state
    <3> QED BY <3>1, <3>2, <3>3, CallerKeeps, NoneAssumption
  <2>3. CASE M!CallSends(k) /\ thread = "ended"
    <3> DEFINE state == [at |-> "done", answer |-> "closed"]
    <3>1. state \in CallState /\ state.at = "done" /\ state.answer = "closed"
      BY DEF CallState
    <3>2. /\ call' = [call EXCEPT ![k] = state] /\ loader = "loaded"
          /\ UNCHANGED <<cancel, loader, startup, thread, service, current, queue, closed,
                         closer, server>>
      BY <2>0, <2>3 DEF M!CallSends
    <3>3. ~Queued(k) /\ ~Current(k) /\ call[k].answer = None
      BY <2>0, <2>3 DEF M!CallSends, Pending, Told
    <3> HIDE DEF state
    <3> QED BY <3>1, <3>2, <3>3, CallerKeeps, NoneAssumption
  <2>4. CASE M!CallSends(k) /\ thread # "ended"
    <3> DEFINE state == [call[k] EXCEPT !.at = "waiting"]
    <3>1. state \in CallState /\ state.at = "waiting" /\ state.answer = None
      BY <2>0, <2>4 DEF M!CallSends, CallState, Told
    <3>2. /\ call' = [call EXCEPT ![k] = state] /\ loader = "loaded"
          /\ queue' = Append(queue, k)
          /\ UNCHANGED <<cancel, loader, startup, thread, service, current, closed, closer,
                         server>>
      BY <2>0, <2>4 DEF M!CallSends
    <3>3. ~Queued(k) /\ ~Current(k) /\ call[k].answer = None
      BY <2>0, <2>4 DEF M!CallSends, Pending, Told
    <3> HIDE DEF state
    <3> QED BY <2>4, <3>1, <3>2, <3>3, CallerKeeps, NoneAssumption
  <2>5. CASE M!CallReturns(k)
    <3> DEFINE answer == IF call[k].answer = None THEN "closed" ELSE call[k].answer
               state == [at |-> "done", answer |-> answer]
    <3>1. state \in CallState /\ state.at = "done" /\ state.answer = answer
      BY <2>0 DEF CallState
    <3>2. call' = [call EXCEPT ![k] = state] /\ loader = "loaded"
          /\ UNCHANGED <<cancel, loader, startup, thread, service, current, queue, closed,
                         closer, server>>
      BY <2>0, <2>5 DEF M!CallReturns
    <3>3. ~Queued(k) /\ ~Current(k)
      BY <2>0, <2>5 DEF M!CallReturns, Pending
    <3>4. /\ answer # None
          /\ answer \in {None, "closed"} => call[k].answer \in {None, "closed"}
          /\ answer \in {"result", "aborted"} => answer = call[k].answer
      BY NoneAssumption
    <3> HIDE DEF state, answer
    <3> QED BY <3>1, <3>2, <3>3, <3>4, CallerKeeps
  <2> QED BY <1>1, <2>1, <2>2, <2>3, <2>4, <2>5
<1> QED BY <1>1 DEF M!Calling

LEMMA CloseSendsKeeps ==
  ASSUME McpInv, M!CloseSends
  PROVE  McpInv'
<1>1. /\ closer = "flagged" /\ closer' = "sent"
      /\ queue' = IF thread = "ended" THEN queue ELSE Append(queue, "close")
      /\ UNCHANGED <<cancel, loader, startup, thread, service, current, closed, call, server>>
  BY DEF M!CloseSends, M!CloseCommand, M!loading, M!connection
<1>2. thread \notin {"connecting", "connected"}
  BY <1>1 DEF McpInv, Startup
<1>3. CASE thread = "ended"
  BY <1>1, <1>3 DEF McpInv, McpTypes, Startup, Served, Told, Pending, Queued, Current
<1>4. CASE thread # "ended"
  <2>1. queue \in Seq(Command) /\ "close" \in Command /\ queue' = Append(queue, "close")
    BY <1>1, <1>4 DEF McpInv, McpTypes, Command
  <2>2. /\ queue' \in Seq(Command) /\ Len(queue) \in Nat /\ Len(queue') = Len(queue) + 1
        /\ \A i \in 1..Len(queue) : queue'[i] = queue[i]
        /\ queue'[Len(queue) + 1] = "close"
    BY <2>1, AppendProperties, LenProperties
  <2>3. \A k \in Call : Queued(k)' => Queued(k)
    BY <2>2, CallAssumption DEF Queued
  <2>4. \A i, j \in 1..Len(queue') : queue'[i] \in Call /\ queue'[i] = queue'[j] => i = j
    BY <2>2, CallAssumption DEF McpInv, Served
  <2>5. Served'
    BY <1>1, <2>3, <2>4 DEF McpInv, Served, Pending
  <2> QED BY <1>1, <1>2, <1>4, <2>2, <2>5 DEF McpInv, McpTypes, Startup, Told, Current
<1> QED BY <1>3, <1>4

LEMMA McpStepKeeps ==
  ASSUME McpInv, M!Next
  PROVE  McpInv'
BY StartupKeeps, ReceiveCommandKeeps, ServerKeeps, AnswersKeeps, EndThreadKeeps, CallingKeeps,
   CloseSendsKeeps
   DEF M!Next, M!Serving, M!Closing

-----------------------------------------------------------------------------
(* The worker                                                               *)

(* Of a tool that returned a text: a command that was not cut off, a call   *)
(* that the server performed.                                               *)
Genuine ==
  IF kind = "bash" THEN at = "done" /\ bash.reason # "cancelled"
  ELSE server[kind] \in {"performed", "replied"}

WorkerInv ==
  /\ kind \in Call \cup {"bash"}
  /\ worker \in {"look", "run", "relook", "read", "record", "done"}
  /\ result \in {None, "ok", "error"}
  /\ recorded \in {None, "success", "error", "synthetic"}
  /\ worker = "relook" => kind = "bash" /\ at = "done"
  /\ worker \in {"look", "run"} => result = None
  /\ worker # "done" => recorded = None
  /\ worker \in {"read", "record", "done"} /\ result = "ok" => Genuine
  /\ worker = "done" /\ recorded = "success" => result = "ok"

ToolInv == BashInv /\ McpInv /\ WorkerInv

LEMMA InitKeeps == Init => ToolInv
<1> SUFFICES ASSUME Init PROVE ToolInv
  OBVIOUS
<1>1. BashInv
  <2>1. /\ at = "spawn" /\ cancel = FALSE /\ shell = "none" /\ misfired = FALSE
        /\ bash = None
        /\ proc = [p \in Proc |-> "none"] /\ holds = [p \in Proc |-> {}]
        /\ pipe = [st \in Stream |-> 0] /\ written = [st \in Stream |-> 0]
        /\ reader = [st \in Stream |-> [kept |-> 0, capped |-> FALSE, sent |-> FALSE,
                                     failed |-> FALSE]]
    BY DEF Init, B!Init, Stream
  <2>2. BashTypes
    BY <2>1 DEF BashTypes, ReaderState
  <2>3. ASSUME NEW st \in Stream PROVE Counts(st)
    <3>1. pipe[st] = 0 /\ written[st] = 0
          /\ reader[st] = [kept |-> 0, capped |-> FALSE, sent |-> FALSE,
                            failed |-> FALSE]
      BY <2>1
    <3> QED BY <3>1, CapAssumption DEF Counts, B!Least
  <2> QED BY <2>1, <2>2, <2>3 DEF BashInv, Stages, NotStarted
<1>2. McpInv
  <2>1. /\ cancel = FALSE /\ loader = "starting" /\ startup = None /\ thread = "connecting"
        /\ service = "none" /\ current = None /\ queue = << >> /\ closed = FALSE
        /\ call = [k \in Call |-> [at |-> "no", answer |-> None]]
        /\ closer = "no" /\ server = [k \in Call |-> "none"]
    BY DEF Init, M!Init
  <2>2. McpTypes
    <3>1. call \in [Call -> CallState]
      BY <2>1 DEF CallState
    <3>2. server \in [Call -> Progress]
      BY <2>1 DEF Progress
    <3>3. queue \in Seq(Command)
      BY <2>1
    <3> QED BY <2>1, <3>1, <3>2, <3>3 DEF McpTypes
  <2>3. Len(queue) = 0
    BY <2>1
  <2> QED BY <2>1, <2>2, <2>3, NoneAssumption DEF McpInv, Startup, Served, Told, Queued
<1>3. WorkerInv
  BY NoneAssumption DEF Init, WorkerInv
<1> QED BY <1>1, <1>2, <1>3 DEF ToolInv

(* The worker reads the flag, the result of the command and the answer.     *)
LEMMA WorkerKeeps ==
  ASSUME ToolInv, Worker
  PROVE  ToolInv'
<1>1. UNCHANGED <<cancel, bashOwn, mcpOwn, kind>>
  BY DEF Worker, Look, BashReturns, Relook, McpReturns, ReadFlag, Record
<1>2. BashInv'
  BY <1>1 DEF ToolInv, bashOwn, BashInv, BashTypes, Counts, Stages, NotStarted, B!Open, B!Alive
<1>3. McpInv'
  BY <1>1 DEF ToolInv, mcpOwn, McpInv, McpTypes, Startup, Served, Told, Pending, Queued, Current
<1>4. Genuine' <=> Genuine
  BY <1>1 DEF Genuine, bashOwn, mcpOwn
<1>5. WorkerInv'
  <2>1. CASE Look
    BY <1>1, <2>1, NoneAssumption DEF ToolInv, WorkerInv, Look
  <2>2. CASE BashReturns
    BY <1>1, <2>2 DEF ToolInv, WorkerInv, BashReturns, bashOwn
  <2>3. CASE Relook
    <3>1. ~cancel => Genuine
      BY <2>3 DEF ToolInv, WorkerInv, Relook, Genuine, BashInv, Stages
    <3> QED BY <1>1, <1>4, <2>3, <3>1 DEF ToolInv, WorkerInv, Relook
  <2>4. CASE McpReturns
    <3>1. result' = "ok" => Genuine
      <4>1. kind \in Call /\ kind # "bash"
        BY <2>4 DEF ToolInv, WorkerInv, McpReturns
      <4>2. call[kind].answer = "result" => server[kind] \in {"performed", "replied"}
        BY <4>1 DEF ToolInv, McpInv, Told
      <4> QED BY <2>4, <4>1, <4>2 DEF McpReturns, Genuine
    <3> QED BY <1>1, <1>4, <2>4, <3>1 DEF ToolInv, WorkerInv, McpReturns
  <2>5. CASE ReadFlag
    BY <1>1, <1>4, <2>5 DEF ToolInv, WorkerInv, ReadFlag
  <2>6. CASE Record
    BY <1>1, <1>4, <2>6 DEF ToolInv, WorkerInv, Record
  <2> QED BY <2>1, <2>2, <2>3, <2>4, <2>5, <2>6 DEF Worker
<1> QED BY <1>2, <1>3, <1>5 DEF ToolInv

LEMMA CancelKeeps ==
  ASSUME ToolInv, Cancel
  PROVE  ToolInv'
<1>1. cancel' = TRUE /\ UNCHANGED <<bashOwn, mcpOwn, workerVars>>
  BY DEF Cancel
<1>2. BashInv'
  BY <1>1 DEF ToolInv, bashOwn, BashInv, BashTypes, Counts, Stages, NotStarted, B!Open, B!Alive
<1>3. McpInv'
  BY <1>1 DEF ToolInv, mcpOwn, McpInv, McpTypes, Startup, Served, Told, Pending, Queued, Current
<1>4. WorkerInv'
  BY <1>1 DEF ToolInv, bashOwn, mcpOwn, workerVars, WorkerInv, Genuine
<1> QED BY <1>2, <1>3, <1>4 DEF ToolInv

LEMMA BashKeeps ==
  ASSUME ToolInv, Bash
  PROVE  ToolInv'
<1>1. /\ kind = "bash" /\ B!Next /\ UNCHANGED <<mcpOwn, workerVars>>
      /\ UNCHANGED cancel
  <2>1. B!Next => UNCHANGED cancel
    BY DEF B!Next, B!Spawn, B!Command, B!Writes, B!Forks, B!Escapes, B!Ends, B!ShellEnds,
       B!Reading, B!ReadSome, B!ReadEnd, B!ReadFails, B!Passes, B!Run, B!LookAtCancel, B!LookAtDeadline,
       B!LookAtShell, B!Receive, B!Reap
  <2> QED BY <2>1 DEF Bash
<1>2. BashInv' /\ (at = "done" => at' = at /\ bash' = bash)
  BY <1>1, BashStepKeeps DEF ToolInv
<1>3. McpInv'
  BY <1>1 DEF ToolInv, mcpOwn, McpInv, McpTypes, Startup, Served, Told, Pending, Queued, Current
<1>4. WorkerInv'
  BY <1>1, <1>2 DEF ToolInv, workerVars, WorkerInv, Genuine
<1> QED BY <1>2, <1>3, <1>4 DEF ToolInv

LEMMA McpKeeps ==
  ASSUME ToolInv, Mcp
  PROVE  ToolInv'
<1>1. /\ kind # "bash" /\ M!Next /\ UNCHANGED <<bashOwn, workerVars>>
      /\ UNCHANGED cancel
  <2>1. M!Next => UNCHANGED cancel
    BY DEF M!Next, M!Loader, M!Load, M!LoadFails, M!LoadTimesOut, M!GiveUp, M!Connects,
       M!ConnectFails, M!Serving, M!Announce, M!Receive, M!Sends, M!Answers, M!EndThread,
       M!Calling, M!CallRefused, M!CallStarts, M!CallSends, M!CallReturns, M!Close,
       M!Closing, M!CloseSends, M!CloseWaited, M!CloseJoins, M!Serves, M!Performs, M!Replies
  <2> QED BY <2>1 DEF Mcp
<1>2. McpInv'
  BY <1>1, McpStepKeeps DEF ToolInv
<1>3. BashInv'
  BY <1>1 DEF ToolInv, bashOwn, BashInv, BashTypes, Counts, Stages, NotStarted, B!Open, B!Alive
<1>4. kind \in Call /\ Genuine => Genuine'
  <2>1. ASSUME NEW k \in Call, server[k] \in {"performed", "replied"}
        PROVE  server'[k] \in {"performed", "replied"}
    <3>1. \/ UNCHANGED server
          \/ M!Withdraws(current) /\ current \in Call
          \/ \E q \in Call : \/ server[q] = "none" /\ server' = [server EXCEPT ![q] = "underway"]
                             \/ server' = [server EXCEPT ![q] = "performed"]
                             \/ server' = [server EXCEPT ![q] = "replied"]
      <4>1. thread = "calling" => current \in Call
        BY DEF ToolInv, McpInv, Served
      <4> QED BY <1>1, <4>1 DEF M!Next, M!Loader, M!Load, M!LoadFails, M!LoadTimesOut, M!GiveUp,
           M!Connects, M!ConnectFails, M!Serving, M!Announce, M!Receive, M!Sends, M!Answers,
           M!EndThread, M!Calling, M!CallRefused, M!CallStarts, M!CallSends, M!CallReturns,
           M!Close, M!Closing, M!CloseSends, M!CloseWaited, M!CloseJoins, M!Serves,
           M!Performs, M!Replies
    <3>2. server \in [Call -> Progress]
      BY DEF ToolInv, McpInv, McpTypes
    <3> QED BY <2>1, <3>1, <3>2 DEF M!Withdraws
  <2> QED BY <1>1, <2>1 DEF Genuine, workerVars
<1>5. WorkerInv'
  BY <1>1, <1>4 DEF ToolInv, workerVars, bashOwn, WorkerInv
<1> QED BY <1>2, <1>3, <1>5 DEF ToolInv

LEMMA StutterKeeps ==
  ASSUME ToolInv, UNCHANGED vars
  PROVE  ToolInv'
BY DEF vars, bashOwn, mcpOwn, workerVars, ToolInv, BashInv, BashTypes, Counts, Stages,
   NotStarted, B!Open, B!Alive, McpInv, McpTypes, Startup, Served, Told, Pending, Queued,
   Current, WorkerInv, Genuine

LEMMA ToolAlways == Spec => []ToolInv
<1>1. ToolInv /\ [Next]_vars => ToolInv'
  BY WorkerKeeps, CancelKeeps, BashKeeps, McpKeeps, StutterKeeps DEF Next
<1> QED BY <1>1, InitKeeps, PTL DEF Spec

-----------------------------------------------------------------------------
(* Theorems                                                                 *)

(* Every variable of the tool that runs has a value of its type.            *)
THEOREM TypeCorrect == Spec => []TypeOK
<1>1. ToolInv => TypeOK
  <2> SUFFICES ASSUME ToolInv PROVE TypeOK
    OBVIOUS
  <2>1. B!TypeOK
    <3>1. reader \in [Stream -> [kept : 0..Cap, capped : BOOLEAN, sent : BOOLEAN, failed : BOOLEAN]]
      <4>1. ASSUME NEW st \in Stream
            PROVE  reader[st] \in [kept : 0..Cap, capped : BOOLEAN, sent : BOOLEAN, failed : BOOLEAN]
        <5>1. reader[st] \in ReaderState /\ written[st] \in Nat /\ pipe[st] \in Nat
          BY DEF ToolInv, BashInv, BashTypes
        <5>2. reader[st].kept \in 0..Cap
          BY <5>1, CapAssumption DEF ToolInv, BashInv, Counts, B!Least
        <5> QED BY <5>1, <5>2 DEF ReaderState
      <4> QED BY <4>1 DEF ToolInv, BashInv, BashTypes
    <3>2. bash = None \/ bash.reason \in {"failed", "exit", "timeout", "cancelled"}
      BY DEF ToolInv, BashInv, BashTypes, Returned
    <3> QED BY <3>1, <3>2 DEF ToolInv, BashInv, BashTypes, B!TypeOK, Stream
  <2>2. M!TypeOK
    BY DEF ToolInv, McpInv, McpTypes, CallState, Answer, Progress, Command, M!CloseCommand, M!TypeOK
  <2> QED BY <2>1, <2>2 DEF ToolInv, BashInv, BashTypes, WorkerInv, TypeOK
<1> QED BY <1>1, ToolAlways, PTL

(* Whatever a command and what it left behind wrote before the tool         *)
(* returned, to a stream whose reads did not fail, is in its result, up to  *)
(* the cap, and the result says exactly when it was cut, however it was     *)
(* stopped.                                                                 *)
THEOREM NothingLostAlways == Spec => []NothingLost
<1>1. ToolInv => NothingLost
  <2> SUFFICES ASSUME ToolInv, at = "done", bash.reason # "failed" PROVE B!NothingLost
    BY DEF NothingLost, B!NothingLost
  <2>1. \A st \in Stream : reader[st].sent
    BY Streams DEF ToolInv, BashInv, Stages, NotStarted
  <2>2. ASSUME NEW st \in Stream
        PROVE  /\ ~reader[st].failed => /\ reader[st].kept = B!Least(written[st], Cap)
                                        /\ reader[st].capped <=> written[st] > Cap
               /\ reader[st].capped => written[st] > Cap
    <3>1. written[st] \in Nat /\ pipe[st] \in Nat /\ Cap \in Nat
      BY CapAssumption DEF ToolInv, BashInv, BashTypes
    <3>2. /\ reader[st].kept = B!Least(written[st] - pipe[st], Cap)
          /\ reader[st].capped <=> written[st] - pipe[st] > Cap
      BY DEF ToolInv, BashInv, Counts
    <3>3. reader[st].capped => written[st] > Cap
      BY <3>1, <3>2
    <3>4. ~reader[st].failed => written[st] - pipe[st] = written[st]
      BY <2>1, <3>1 DEF ToolInv, BashInv, Counts
    <3> QED BY <3>2, <3>3, <3>4
  <2>3. bash.reason \in {"exit", "timeout", "cancelled"}
    BY DEF ToolInv, BashInv, BashTypes, Returned
  <2>4. bash.reason # "cancelled" =>
          (bash.note = "cap" <=> \E st \in Stream : reader[st].capped)
    BY <2>3 DEF ToolInv, BashInv, Stages
  <2> QED BY <2>2, <2>4, Zenon DEF B!NothingLost, Stream
<1> QED BY <1>1, ToolAlways, PTL

(* When the tool has returned, its shell is reaped, no group was killed     *)
(* that was not the shell's, what survives a stop has left the group, and   *)
(* what survives has open only an output whose reads failed.                *)
THEOREM NothingLeftRunningAlways == Spec => []NothingLeftRunning
<1>1. ToolInv => NothingLeftRunning
  <2> SUFFICES ASSUME ToolInv, at = "done" PROVE NothingLeftRunning
    BY DEF NothingLeftRunning, B!NothingLeftRunning
  <2>1. ~misfired /\ shell \in {"none", "reaped"}
    BY DEF ToolInv, BashInv, Stages
  <2>2. ASSUME NEW p \in Proc, B!Alive(p)
        PROVE  /\ bash.reason \in {"timeout", "cancelled"} => proc[p] = "escaped"
               /\ \A st \in holds[p] : reader[st].failed
    <3>1. ~NotStarted
      BY <2>2 DEF ToolInv, BashInv, Stages, B!Alive
    <3>2. \A st \in Stream : B!Open(st) => reader[st].failed
      BY <3>1, Streams DEF ToolInv, BashInv, Stages, Counts
    <3>3. holds[p] \in SUBSET Stream
      BY DEF ToolInv, BashInv, BashTypes
    <3>4. \A st \in holds[p] : reader[st].failed
      BY <2>2, <3>2, <3>3 DEF B!Open
    <3> QED BY <2>2, <3>4 DEF ToolInv, BashInv, Stages, B!Alive
  <2> QED BY <2>1, <2>2 DEF NothingLeftRunning, B!NothingLeftRunning
<1> QED BY <1>1, ToolAlways, PTL

(* A result is of a call the server performed; a caller that hears that the *)
(* connection is closed never had its call sent; an abort has a cause.      *)
THEOREM AnswerTruthAlways == Spec => []AnswerTruth
<1>1. ToolInv => AnswerTruth
  <2> SUFFICES ASSUME ToolInv, NEW k \in Call, call[k].at = "done"
               PROVE  /\ call[k].answer = "result" => server[k] \in {"performed", "replied"}
                      /\ call[k].answer = "closed" => server[k] = "none"
                      /\ call[k].answer = "aborted" => cancel \/ closed
    BY DEF AnswerTruth, M!AnswerTruth
  <2>1. ~Current(k)
    BY DEF ToolInv, McpInv, Served, Pending, Current
  <2> QED BY <2>1 DEF ToolInv, McpInv, Told
<1> QED BY <1>1, ToolAlways, PTL

(* A success that the worker records is a command that Esc did not cut off, *)
(* or a call that the server performed, whenever Esc comes.                 *)
THEOREM RecordedTruthAlways == Spec => []RecordedTruth
<1>1. ToolInv => RecordedTruth
  <2>1. ToolInv /\ recorded = "success" => Genuine
    BY NoneAssumption DEF ToolInv, WorkerInv
  <2> QED BY <2>1 DEF RecordedTruth, Genuine
<1> QED BY <1>1, ToolAlways, PTL

=============================================================================
