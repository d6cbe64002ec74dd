------------------------------- MODULE BashTool -------------------------------
(***************************************************************************)
(* One call of the bash tool (run_bash, spawn_reader and kill_group in     *)
(* rust/src/lib.rs): the shell and what it leaves running, the two threads *)
(* that read its pipes, and the loop that watches the cancel flag, the     *)
(* deadline and the shell.                                                 *)
(*                                                                         *)
(* Bytes are counted, not modelled.  A pipe takes what is written to it    *)
(* while its reader has it open: the reader stops at the end of the pipe,  *)
(* or when a read fails.                                                   *)
(***************************************************************************)
EXTENDS Integers, FiniteSets

CONSTANTS
  Proc,         (* the processes the shell may leave in the background      *)
  Cap,          (* MAX_BASH_OUTPUT, the bytes kept of each stream           *)
  Chunk,        (* the most bytes one read returns                          *)
  MaxWritten,   (* bound: the bytes written to both streams                 *)
  None

VARIABLES
  cancel,       (* the agent's cancel flag                                  *)
  at,           (* where run_bash is                                        *)
  shell,        (* the child: none, running, zombie (ended), reaped         *)
  proc,         (* the other processes: none, group, escaped, dead          *)
  holds,        (* the streams each of them has open                        *)
  pipe,         (* bytes in each pipe                                       *)
  reader,       (* the two readers: what they keep, whether they sent it and *)
                (* whether they sent it because a read failed               *)
  expired,      (* the deadline has passed                                  *)
  bash,         (* what run_bash returns: [reason, note], or None           *)
  written,      (* history: bytes written to each stream                    *)
  misfired      (* history: a group was killed that was not the shell's any more *)

processes == <<shell, proc, holds, written>>
bashVars == <<cancel, at, processes, pipe, reader, expired, bash, misfired>>

Stream == {"out", "err"}

Init ==
  /\ cancel = FALSE
  /\ at = "spawn"
  /\ shell = "none"
  /\ proc = [p \in Proc |-> "none"]
  /\ holds = [p \in Proc |-> {}]
  /\ pipe = [st \in Stream |-> 0]
  /\ reader = [st \in Stream |-> [kept |-> 0, capped |-> FALSE, sent |-> FALSE,
                                failed |-> FALSE]]
  /\ expired = FALSE
  /\ bash = None
  /\ written = [st \in Stream |-> 0]
  /\ misfired = FALSE

Alive(p) == proc[p] \in {"group", "escaped"}
Open(st) == shell = "running" \/ \E p \in Proc : Alive(p) /\ st \in holds[p]

-----------------------------------------------------------------------------
(* The command *)

Writes(st) ==
  /\ Open(st) /\ ~reader[st].sent
  /\ written.out + written.err < MaxWritten
  /\ pipe' = [pipe EXCEPT ![st] = @ + 1]
  /\ written' = [written EXCEPT ![st] = @ + 1]
  /\ UNCHANGED <<cancel, at, shell, proc, holds, reader, expired, bash, misfired>>

(* `cmd &`, with or without its output redirected.                          *)
Forks(p) ==
  /\ shell = "running" /\ proc[p] = "none"
  /\ proc' = [proc EXCEPT ![p] = "group"]
  /\ \E streams \in SUBSET Stream : holds' = [holds EXCEPT ![p] = streams]
  /\ UNCHANGED <<cancel, at, shell, written, pipe, reader, expired, bash, misfired>>

(* `setsid cmd`: the process leaves the group of the shell.                 *)
Escapes(p) ==
  /\ proc[p] = "group"
  /\ proc' = [proc EXCEPT ![p] = "escaped"]
  /\ UNCHANGED <<cancel, at, shell, holds, written, pipe, reader, expired, bash, misfired>>

Ends(p) ==
  /\ Alive(p)
  /\ proc' = [proc EXCEPT ![p] = "dead"]
  /\ UNCHANGED <<cancel, at, shell, holds, written, pipe, reader, expired, bash, misfired>>

ShellEnds ==
  /\ shell = "running"
  /\ shell' = "zombie"
  /\ UNCHANGED <<cancel, at, proc, holds, written, pipe, reader, expired, bash, misfired>>

-----------------------------------------------------------------------------
(* The readers (`spawn_reader`) *)

Least(m, n) == IF m < n THEN m ELSE n

(* A bug: a chunk that is kept in part does not count as cut.               *)
TakeSilently(r, n) ==
  IF r.kept < Cap
    THEN [r EXCEPT !.kept = @ + Least(n, Cap - r.kept)]
    ELSE [r EXCEPT !.capped = TRUE]

(* What a reader that has read n bytes keeps of them.                       *)
Take(r, n) ==
  IF r.kept < Cap
    THEN LET keep == Least(n, Cap - r.kept)
         IN  [r EXCEPT !.kept = @ + keep, !.capped = @ \/ keep < n]
    ELSE [r EXCEPT !.capped = TRUE]

ReadSome(st) ==
  /\ ~reader[st].sent
  /\ \E n \in 1..Least(Chunk, pipe[st]) :
       /\ reader' = [reader EXCEPT ![st] = Take(@, n)]
       /\ pipe' = [pipe EXCEPT ![st] = @ - n]
  /\ UNCHANGED <<cancel, at, processes, expired, bash, misfired>>

(* The end of the pipe: nobody has it open and it is empty.                 *)
ReadEnd(st) ==
  /\ at # "spawn" /\ ~reader[st].sent /\ pipe[st] = 0 /\ ~Open(st)
  /\ reader' = [reader EXCEPT ![st].sent = TRUE]
  /\ UNCHANGED <<cancel, at, processes, pipe, expired, bash, misfired>>

(* A read that fails ends the stream like the end of the pipe, and nothing  *)
(* says so.                                                                 *)
ReadFails(st) ==
  /\ at # "spawn" /\ ~reader[st].sent
  /\ reader' = [reader EXCEPT ![st].sent = TRUE, ![st].failed = TRUE]
  /\ UNCHANGED <<cancel, at, processes, pipe, expired, bash, misfired>>

-----------------------------------------------------------------------------
(* run_bash *)

Spawn ==
  /\ at = "spawn"
  /\ \/ at' = "cancel" /\ shell' = "running" /\ UNCHANGED bash
     \/ at' = "done" /\ bash' = [reason |-> "failed", note |-> "start"]
        /\ UNCHANGED shell
  /\ UNCHANGED <<cancel, proc, holds, written, pipe, reader, expired, misfired>>

Passes ==
  /\ at \in {"cancel", "deadline", "wait"} /\ ~expired
  /\ expired' = TRUE
  /\ UNCHANGED <<cancel, at, processes, pipe, reader, bash, misfired>>

(* A bug: only the shell is killed.                                         *)
KillShell(reason) ==
  /\ shell' = IF shell = "running" THEN "zombie" ELSE shell
  /\ misfired' = (misfired \/ shell = "reaped")
  /\ at' = "out" /\ bash' = [reason |-> reason, note |-> "none"]
  /\ UNCHANGED proc

(* SIGKILL to the group of the child, whose number is the child's.          *)
Kill(reason) ==
  /\ shell' = IF shell = "running" THEN "zombie" ELSE shell
  /\ proc' = [p \in Proc |-> IF proc[p] = "group" THEN "dead" ELSE proc[p]]
  /\ misfired' = (misfired \/ shell = "reaped")
  /\ at' = "out" /\ bash' = [reason |-> reason, note |-> "none"]

(* The loop looks at the cancel flag, the deadline and the shell, in turn.  *)
LookAtCancel ==
  /\ at = "cancel"
  /\ IF cancel THEN Kill("cancelled")
     ELSE at' = "deadline" /\ UNCHANGED <<shell, proc, bash, misfired>>
  /\ UNCHANGED <<cancel, holds, written, pipe, reader, expired>>

LookAtDeadline ==
  /\ at = "deadline"
  /\ IF expired THEN Kill("timeout")
     ELSE at' = "wait" /\ UNCHANGED <<shell, proc, bash, misfired>>
  /\ UNCHANGED <<cancel, holds, written, pipe, reader, expired>>

(* `try_wait`                                                               *)
LookAtShell ==
  /\ at = "wait"
  /\ IF shell = "zombie"
       THEN shell' = "reaped" /\ at' = "out"
              /\ bash' = [reason |-> "exit", note |-> "none"]
       ELSE at' = "cancel" /\ UNCHANGED <<shell, bash>>
  /\ UNCHANGED <<cancel, proc, holds, written, pipe, reader, expired, misfired>>

(* `recv` of what each reader sends at the end of its pipe.                 *)
Receive(st, here, next) ==
  /\ at = here /\ reader[st].sent
  /\ at' = next
  /\ UNCHANGED <<cancel, processes, pipe, reader, expired, bash, misfired>>

(* Output that was cut says so, and then not that the time was up.          *)
Note ==
  CASE bash.reason = "cancelled" -> "none"
    [] bash.reason # "cancelled" /\ (reader.out.capped \/ reader.err.capped) -> "cap"
    [] bash.reason = "timeout" /\ ~reader.out.capped /\ ~reader.err.capped -> "timeout"
    [] OTHER -> "none"

(* `child.wait` and the result.                                             *)
Reap ==
  /\ at = "reap" /\ shell \in {"zombie", "reaped"}
  /\ shell' = "reaped" /\ at' = "done"
  /\ bash' = [bash EXCEPT !.note = Note]
  /\ UNCHANGED <<cancel, proc, holds, written, pipe, reader, expired, misfired>>

Command ==
  \/ \E st \in Stream : Writes(st)
  \/ \E p \in Proc : Forks(p) \/ Escapes(p) \/ Ends(p)
  \/ ShellEnds

Reading(st) == ReadSome(st) \/ ReadEnd(st)

Run ==
  \/ LookAtCancel \/ LookAtDeadline \/ LookAtShell
  \/ Receive("out", "out", "err") \/ Receive("err", "err", "reap") \/ Reap

Next ==
  Spawn \/ Command \/ (\E st \in Stream : Reading(st) \/ ReadFails(st)) \/ Passes \/ Run

(* The readers, the watching thread and the clock go on; the command need   *)
(* not.                                                                     *)
Fairness ==
  /\ WF_bashVars(Run) /\ WF_bashVars(Passes)
  /\ \A st \in Stream : WF_bashVars(Reading(st))

-----------------------------------------------------------------------------
(* Properties *)

TypeOK ==
  /\ at \in {"spawn", "cancel", "deadline", "wait", "out", "err", "reap", "done"}
  /\ shell \in {"none", "running", "zombie", "reaped"}
  /\ proc \in [Proc -> {"none", "group", "escaped", "dead"}]
  /\ holds \in [Proc -> SUBSET Stream]
  /\ pipe \in [Stream -> Nat] /\ written \in [Stream -> Nat]
  /\ reader \in [Stream -> [kept : 0..Cap, capped : BOOLEAN, sent : BOOLEAN,
                          failed : BOOLEAN]]
  /\ bash = None \/ bash.reason \in {"failed", "exit", "timeout", "cancelled"}

(* The result holds all that was written to a stream whose reads did not    *)
(* fail, whoever wrote it and however the command was stopped, up to the    *)
(* cap, and says so exactly if it is less.                                  *)
NothingLost ==
  at = "done" /\ bash.reason # "failed" =>
    LET whole == {st \in Stream : ~reader[st].failed}
        over == {st \in Stream : written[st] > Cap}
    IN  /\ \A st \in whole :
             /\ reader[st].kept = Least(written[st], Cap)
             /\ reader[st].capped <=> st \in over
        /\ bash.reason # "cancelled" =>
             /\ whole \cap over # {} => bash.note = "cap"
             /\ bash.note = "cap" => over # {}

(* When a command was stopped, nothing of its group survives, and no group  *)
(* that got its number; when it ended by itself, what survives has its      *)
(* output elsewhere, or lost its reader.                                    *)
NothingLeftRunning ==
  at = "done" =>
    /\ ~misfired
    /\ shell \in {"none", "reaped"}
    /\ \A p \in Proc : Alive(p) =>
         /\ bash.reason \in {"timeout", "cancelled"} => proc[p] = "escaped"
         /\ \A st \in holds[p] : reader[st].failed

(* What can keep the tool waiting: a process that has a pipe open that is   *)
(* being read and was not in the group when it was killed, or the shell     *)
(* ended before that.                                                       *)
HeldOpen ==
  /\ at \in {"out", "err"}
  /\ \E p \in Proc : /\ Alive(p) /\ \E st \in holds[p] : ~reader[st].sent
                     /\ proc[p] = "escaped" \/ bash.reason = "exit"

(* The tool returns, by its deadline at the latest, unless it is held open. *)
Returns == (at # "spawn") ~> (at = "done" \/ HeldOpen)

===============================================================================
