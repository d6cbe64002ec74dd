---------------------------- MODULE ToolExecution ----------------------------
(***************************************************************************)
(* The execution of a tool between its intent and its result (rust/src/    *)
(* lib.rs, execute_durable_tool and execute_tool): the worker looks at the *)
(* cancel flag, runs the tool, looks again, and records a result; the      *)
(* terminal sets the flag at any time.  The tool is `bash` or one of an    *)
(* MCP server; the shared flag is all they have of each other.             *)
(***************************************************************************)
EXTENDS Integers, Sequences

CONSTANTS Proc, Cap, Chunk, MaxWritten, Call, None

ASSUME CapAssumption == Cap \in Nat /\ Chunk \in Nat \ {0}
ASSUME CallAssumption == Call \cap {"bash", "close"} = {}
ASSUME NoneAssumption ==
  None \notin Call \cup {"ok", "error", "success", "synthetic", "result", "failed",
                        "aborted", "timeout", "closed"}

VARIABLES
  cancel,
  at, shell, proc, holds, pipe, reader, expired, bash, written, misfired,
  loader, startup, thread, service, current, queue, closed, call, closer, server,
  kind,        (* the tool: bash, or a call of the MCP server               *)
  worker,      (* look, run, relook, read, record, done                     *)
  result,      (* what the tool returned: None, ok, error                   *)
  aborted,     (* the flag as the worker read it after the tool             *)
  recorded     (* the resultType of the fact: None, success, error, synthetic *)

B == INSTANCE BashTool
M == INSTANCE McpClient

bashOwn == <<at, shell, proc, holds, pipe, reader, expired, bash, written, misfired>>
mcpOwn == <<loader, startup, thread, service, current, queue, closed, call, closer, server>>
workerVars == <<kind, worker, result, aborted, recorded>>
vars == <<cancel, bashOwn, mcpOwn, workerVars>>

Init ==
  /\ B!Init /\ M!Init
  /\ kind \in Call \cup {"bash"}
  /\ worker = "look"
  /\ result = None /\ aborted = FALSE /\ recorded = None

-----------------------------------------------------------------------------
(* The worker *)

(* `bash` is not started when the flag is set; an MCP tool has no such look. *)
Look ==
  /\ worker = "look"
  /\ kind # "bash" => loader = "loaded"
  /\ IF kind = "bash" /\ cancel
       THEN worker' = "read" /\ result' = "error"
       ELSE worker' = "run" /\ UNCHANGED result
  /\ UNCHANGED <<cancel, bashOwn, mcpOwn, kind, aborted, recorded>>

(* run_bash returns a text whatever happened.                               *)
BashReturns ==
  /\ worker = "run" /\ kind = "bash" /\ at = "done"
  /\ worker' = "relook" /\ result' = "ok"
  /\ UNCHANGED <<cancel, bashOwn, mcpOwn, kind, aborted, recorded>>

Relook ==
  /\ worker = "relook"
  /\ worker' = "read"
  /\ result' = IF cancel THEN "error" ELSE result
  /\ UNCHANGED <<cancel, bashOwn, mcpOwn, kind, aborted, recorded>>

(* A bug: an answer that is none is passed on as a text.                    *)
McpReturnsText ==
  /\ worker = "run" /\ kind # "bash" /\ call[kind].at = "done"
  /\ worker' = "read"
  /\ result' \in {"ok", "error"}
  /\ UNCHANGED <<cancel, bashOwn, mcpOwn, kind, aborted, recorded>>

(* What the server sends may itself be an error.                            *)
McpReturns ==
  /\ worker = "run" /\ kind # "bash" /\ call[kind].at = "done"
  /\ worker' = "read"
  /\ result' \in IF call[kind].answer = "result" THEN {"ok", "error"} ELSE {"error"}
  /\ UNCHANGED <<cancel, bashOwn, mcpOwn, kind, aborted, recorded>>

ReadFlag ==
  /\ worker = "read"
  /\ worker' = "record" /\ aborted' = cancel
  /\ UNCHANGED <<cancel, bashOwn, mcpOwn, kind, result, recorded>>

Record ==
  /\ worker = "record"
  /\ worker' = "done"
  /\ recorded' = IF aborted THEN "synthetic"
                 ELSE IF result = "ok" THEN "success" ELSE "error"
  /\ UNCHANGED <<cancel, bashOwn, mcpOwn, kind, result, aborted>>

Worker == Look \/ BashReturns \/ Relook \/ McpReturns \/ ReadFlag \/ Record

(* The terminal: Esc, as long as it has not left.                           *)
Cancel ==
  /\ ~cancel /\ worker # "done"
  /\ kind # "bash" => loader = "loaded" /\ ~closed
  /\ cancel' = TRUE
  /\ UNCHANGED <<bashOwn, mcpOwn, workerVars>>

(* The tool runs while the worker waits for it; what it left goes on.       *)
Bash ==
  /\ kind = "bash" /\ worker # "look" /\ (at = "spawn" => worker = "run")
  /\ B!Next
  /\ UNCHANGED <<mcpOwn, workerVars>>

(* The server is loaded before there is a worker; closed at any time.       *)
Mcp ==
  /\ kind # "bash"
  /\ M!Next
  /\ \A k \in Call : call'[k].at # call[k].at => k = kind /\ worker = "run"
  /\ UNCHANGED <<bashOwn, workerVars>>

Next == Worker \/ Cancel \/ Bash \/ Mcp

(* The threads of the program go on, except that Esc need not come, a       *)
(* command need not end, and a server need not answer.                      *)
Fairness ==
  /\ WF_vars(Worker)
  /\ WF_vars(kind = "bash" /\ worker = "run" /\ B!Spawn /\ UNCHANGED <<mcpOwn, workerVars>>)
  /\ B!Fairness
  /\ kind # "bash" => M!Fairness
  /\ WF_vars(Mcp /\ \E k \in Call : M!CallRefused(k) \/ M!CallStarts(k))

Spec == Init /\ [][Next]_vars /\ Fairness

-----------------------------------------------------------------------------
(* Properties *)

NothingLost == B!NothingLost
NothingLeftRunning == B!NothingLeftRunning
Returns == B!Returns
AnswerTruth == M!AnswerTruth
CallAnswered == M!CallAnswered
CloseReturns == M!CloseReturns

TypeOK ==
  /\ cancel \in BOOLEAN
  /\ kind = "bash" => B!TypeOK
  /\ kind # "bash" => M!TypeOK
  /\ worker \in {"look", "run", "relook", "read", "record", "done"}
  /\ result \in {None, "ok", "error"}
  /\ recorded \in {None, "success", "error", "synthetic"}

(* A success in the file is a command that Esc did not cut off, or a call   *)
(* that the server performed.                                               *)
RecordedTruth ==
  recorded = "success" =>
    IF kind = "bash" THEN bash.reason # "cancelled"
    ELSE server[kind] \in {"performed", "replied"}

===============================================================================
