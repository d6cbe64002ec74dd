------------------------------ MODULE McpClient ------------------------------
(***************************************************************************)
(* The client of one MCP server (rust/src/mcp.rs): load_mcp_tools, which   *)
(* waits for the thread it starts; run_mcp_client, the thread that owns    *)
(* the connection and serves a queue of commands; and the callers of call  *)
(* and close.  The agent makes one call at a time; close comes from the    *)
(* thread of the terminal, which does not wait for a call to end when it   *)
(* leaves by an error (terminal.rs:378).                                   *)
(*                                                                         *)
(* The service of the SDK is modelled by what can be observed of it: it    *)
(* may hang while it connects, a call may fail at any time, and a request  *)
(* that is under way may reach the server after the client gave it up.     *)
(***************************************************************************)
EXTENDS Integers, Sequences

CONSTANTS
  Call,         (* the calls, made in any order but one at a time           *)
  None

VARIABLES
  cancel,       (* the agent's cancel flag                                  *)
  loader,       (* load_mcp_tools: starting, late, loaded, rejected, failed, gone *)
  startup,      (* the message of the thread to it: None, ok, error         *)
  thread,       (* connecting, connected, serving, calling, closing, ended  *)
  service,      (* the connection: none, open, closed                       *)
  current,      (* the call that is served                                  *)
  queue,        (* the commands sent and not received                       *)
  closed,       (* the flag                                                 *)
  call,         (* per call where its caller is, and its answer             *)
  closer,       (* where close is: no, flagged, sent, joining, done         *)
  server        (* per call: none, underway, withdrawn, performed, replied  *)

loading == <<loader, startup>>
connection == <<thread, service, current>>
callers == <<closed, call, closer>>
mcpVars == <<cancel, loading, connection, queue, callers, server>>

CloseCommand == "close"

Init ==
  /\ cancel = FALSE
  /\ loader = "starting" /\ startup = None
  /\ thread = "connecting" /\ service = "none" /\ current = None
  /\ queue = << >>
  /\ closed = FALSE
  /\ call = [k \in Call |-> [at |-> "no", answer |-> None]]
  /\ closer = "no"
  /\ server = [k \in Call |-> "none"]

(* A bug: the loader that gave up keeps the sender.                         *)
SenderKept == TRUE

(* The client is alive from the moment it is loaded until close has joined; *)
(* the loader that gave up has dropped its ends of both channels.           *)
SenderAlive == loader # "gone"

-----------------------------------------------------------------------------
(* load_mcp_tools *)

(* What was listed may be refused: then the client is closed again.         *)
Load ==
  /\ loader = "starting" /\ startup = "ok"
  /\ loader' \in {"loaded", "rejected"}
  /\ UNCHANGED <<cancel, startup, connection, queue, callers, server>>

LoadFails ==
  /\ loader = "starting" /\ startup = "error" /\ thread = "ended"
  /\ loader' = "failed"
  /\ UNCHANGED <<cancel, startup, connection, queue, callers, server>>

LoadTimesOut ==
  /\ loader = "starting" /\ startup = None
  /\ loader' = "late" /\ closed' = TRUE
  /\ UNCHANGED <<cancel, startup, connection, queue, call, closer, server>>

GiveUp ==
  /\ loader = "late"
  /\ loader' = "gone"
  /\ UNCHANGED <<cancel, startup, connection, queue, callers, server>>

-----------------------------------------------------------------------------
(* run_mcp_client *)

Connects ==
  /\ thread = "connecting"
  /\ thread' = "connected" /\ service' = "open"
  /\ UNCHANGED <<cancel, loading, current, queue, callers, server>>

(* What was opened of a connection that failed is dropped.                  *)
ConnectFails ==
  /\ thread = "connecting"
  /\ thread' = "ended"
  /\ startup' = IF loader = "gone" THEN startup ELSE "error"
  /\ UNCHANGED <<cancel, loader, service, current, queue, callers, server>>

Announce ==
  /\ thread = "connected"
  /\ IF loader = "gone"
       THEN thread' = "closing" /\ UNCHANGED startup
       ELSE thread' = "serving" /\ startup' = "ok"
  /\ UNCHANGED <<cancel, loader, service, current, queue, callers, server>>

Receive ==
  /\ thread = "serving"
  /\ IF queue # << >>
       THEN /\ queue' = Tail(queue)
            /\ IF Head(queue) = CloseCommand
                 THEN thread' = "closing" /\ UNCHANGED current
                 ELSE thread' = "calling" /\ current' = Head(queue)
       ELSE ~SenderAlive /\ thread' = "closing" /\ UNCHANGED <<queue, current>>
  /\ UNCHANGED <<cancel, loading, service, callers, server>>

Sends ==
  /\ thread = "calling" /\ server[current] = "none"
  /\ server' = [server EXCEPT ![current] = "underway"]
  /\ UNCHANGED <<cancel, loading, connection, queue, callers>>

(* One branch of the select is ready: the reply, a failure of the service,  *)
(* the flags, the timeout.                                                  *)
CallResult(answer) ==
  \/ answer = "result" /\ server[current] = "replied"
  \/ answer = "aborted" /\ (cancel \/ closed)
  \/ answer \in {"failed", "timeout"}

(* The request that is given up is withdrawn unless it is on its way.       *)
Withdraws(k) ==
  server' \in {server, [server EXCEPT ![k] =
                          IF @ = "underway" THEN "withdrawn" ELSE @]}

(* A bug: a call that is aborted gets no reply.                             *)
AnswersUnlessAborted ==
  /\ thread = "calling"
  /\ \E answer \in {"result", "failed", "aborted", "timeout"} :
       /\ CallResult(answer)
       /\ call' = IF answer = "aborted" THEN call
                  ELSE [call EXCEPT ![current].answer = answer]
  /\ Withdraws(current)
  /\ thread' = "serving" /\ current' = None
  /\ UNCHANGED <<cancel, loading, service, queue, closed, closer>>

Answers ==
  /\ thread = "calling"
  /\ \E answer \in {"result", "failed", "aborted", "timeout"} :
       /\ CallResult(answer)
       /\ call' = [call EXCEPT ![current].answer = answer]
  /\ Withdraws(current)
  /\ thread' = "serving" /\ current' = None
  /\ UNCHANGED <<cancel, loading, service, queue, closed, closer>>

(* `close_with_timeout`, the reply to close, and the end: what is still     *)
(* queued is dropped and its callers hear that the connection is closed.    *)
EndThread ==
  /\ thread = "closing"
  /\ thread' = "ended" /\ service' = "closed" /\ queue' = << >>
  /\ UNCHANGED <<cancel, loading, current, callers, server>>

-----------------------------------------------------------------------------
(* McpClient::call *)

Busy == \E k \in Call : call[k].at \in {"sending", "waiting"}

(* A call that is refused at once.                                          *)
CallRefused(k) ==
  /\ loader = "loaded" /\ call[k].at = "no" /\ ~Busy /\ closed
  /\ call' = [call EXCEPT ![k] = [at |-> "done", answer |-> "closed"]]
  /\ UNCHANGED <<cancel, loading, connection, queue, closed, closer, server>>

CallStarts(k) ==
  /\ loader = "loaded" /\ call[k].at = "no" /\ ~Busy /\ ~closed
  /\ call' = [call EXCEPT ![k].at = "sending"]
  /\ UNCHANGED <<cancel, loading, connection, queue, closed, closer, server>>

CallSends(k) ==
  /\ call[k].at = "sending"
  /\ IF thread = "ended"
       THEN /\ call' = [call EXCEPT ![k] = [at |-> "done", answer |-> "closed"]]
            /\ UNCHANGED queue
       ELSE /\ call' = [call EXCEPT ![k].at = "waiting"]
            /\ queue' = Append(queue, k)
  /\ UNCHANGED <<cancel, loading, connection, closed, closer, server>>

(* The reply, or the end of the reply channel: it was dropped with the queue. *)
CallReturns(k) ==
  /\ call[k].at = "waiting"
  /\ call[k].answer # None \/ thread = "ended"
  /\ call' = [call EXCEPT ![k] =
       [at |-> "done", answer |-> IF @.answer = None THEN "closed" ELSE @.answer]]
  /\ UNCHANGED <<cancel, loading, connection, queue, closed, closer, server>>

-----------------------------------------------------------------------------
(* McpClient::close *)

Close ==
  /\ loader \in {"loaded", "rejected"} /\ ~closed
  /\ closed' = TRUE /\ closer' = "flagged"
  /\ UNCHANGED <<cancel, loading, connection, queue, call, server>>

CloseSends ==
  /\ closer = "flagged"
  /\ closer' = "sent"
  /\ queue' = IF thread = "ended" THEN queue ELSE Append(queue, CloseCommand)
  /\ UNCHANGED <<cancel, loading, connection, closed, call, server>>

(* It has waited five seconds, or for the reply of the thread.              *)
CloseWaited ==
  /\ closer = "sent"
  /\ closer' = "joining"
  /\ UNCHANGED <<cancel, loading, connection, queue, closed, call, server>>

CloseJoins ==
  /\ closer = "joining" /\ thread = "ended"
  /\ closer' = "done"
  /\ UNCHANGED <<cancel, loading, connection, queue, closed, call, server>>

-----------------------------------------------------------------------------
(* The server *)

Performs(k) ==
  /\ server[k] = "underway"
  /\ server' = [server EXCEPT ![k] = "performed"]
  /\ UNCHANGED <<cancel, loading, connection, queue, callers>>

Replies(k) ==
  /\ server[k] = "performed"
  /\ server' = [server EXCEPT ![k] = "replied"]
  /\ UNCHANGED <<cancel, loading, connection, queue, callers>>

-----------------------------------------------------------------------------
Loader == Load \/ LoadFails \/ LoadTimesOut \/ GiveUp
Serving == Announce \/ Receive \/ Sends \/ Answers \/ EndThread
Calling == \E k \in Call : CallRefused(k) \/ CallStarts(k) \/ CallSends(k) \/ CallReturns(k)
Closing == CloseSends \/ CloseWaited \/ CloseJoins
Serves == \E k \in Call : Performs(k) \/ Replies(k)

Next ==
  Loader \/ Connects \/ ConnectFails \/ Serving \/ Calling \/ Close \/ Closing \/ Serves

(* Nothing is assumed of the server, nor that a connection is ever made or  *)
(* refused; a client whose tools were refused is closed by its loader.      *)
Fairness ==
  /\ WF_mcpVars(Loader) /\ WF_mcpVars(Serving)
  /\ WF_mcpVars(\E k \in Call : CallSends(k) \/ CallReturns(k))
  /\ WF_mcpVars(Closing) /\ WF_mcpVars(loader = "rejected" /\ Close)

-----------------------------------------------------------------------------
(* Properties *)

TypeOK ==
  /\ loader \in {"starting", "late", "loaded", "rejected", "failed", "gone"}
  /\ startup \in {None, "ok", "error"}
  /\ thread \in {"connecting", "connected", "serving", "calling", "closing", "ended"}
  /\ service \in {"none", "open", "closed"}
  /\ current \in Call \cup {None}
  /\ queue \in Seq(Call \cup {CloseCommand})
  /\ closed \in BOOLEAN
  /\ closer \in {"no", "flagged", "sent", "joining", "done"}
  /\ server \in [Call -> {"none", "underway", "withdrawn", "performed", "replied"}]
  /\ call \in [Call -> [at : {"no", "sending", "waiting", "done"},
                        answer : {None, "result", "failed", "aborted", "timeout", "closed"}]]

(* An answer says what it can of the effect: a result is of a call that the *)
(* server performed, a closed connection never carried the call, and nobody *)
(* is told of an abort unless one of the two flags is set.                  *)
AnswerTruth ==
  \A k \in Call : call[k].at = "done" =>
    /\ call[k].answer = "result" => server[k] \in {"performed", "replied"}
    /\ call[k].answer = "closed" => server[k] = "none"
    /\ call[k].answer = "aborted" => cancel \/ closed

(* Every call is answered, whatever the server does.                        *)
CallAnswered == \A k \in Call : (call[k].at = "sending") ~> (call[k].at = "done")

(* Close returns, and a client that nobody holds is closed: refused tools   *)
(* at once, a connection that came too late as soon as it is made.  Neither *)
(* the thread nor a command it was sent is left then, nor the connection.   *)
Left == thread # "ended" \/ service = "open" \/ queue # << >>

CloseReturns ==
  /\ (closer # "no" \/ loader = "rejected") ~> (closer = "done" /\ ~Left)
  /\ (loader = "gone" /\ thread # "connecting") ~> [](~Left)

===============================================================================
