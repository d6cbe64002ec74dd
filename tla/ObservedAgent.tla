---------------------------- MODULE ObservedAgent ----------------------------
(***************************************************************************)
(* DurableAgent with the observers of its session: the lifecycle hears of  *)
(* every line under the lock that wrote it (session/mod.rs:588), unless    *)
(* the process dies in between, of an operation that recovery takes over   *)
(* and of every tool that is executed; it is closed when the process ends, *)
(* and gone when it dies.                                                  *)
(***************************************************************************)
EXTENDS DurableAgent

L == INSTANCE Lifecycle

(* An absent value is none of the values it stands in for.                  *)
ASSUME ObserversAssumption ==
  /\ None \notin L!LiveOperation /\ None \notin L!LiveModel /\ None \notin L!LiveTool
  /\ None \notin L!Span /\ None \notin L!Ends

VARIABLES
  life,       (* the lifecycle of the current process                        *)
  spans,      (* what its telemetry has exported and holds open              *)
  published,  (* history: the events of the last step                        *)
  heard       (* the observers have heard the last line of the file          *)

observers == <<life, spans, published, heard>>

(* What the step from s to s' makes the lifecycle hear.                     *)
Heard ==
  IF s' # s THEN L!Committed(life, committed')
  ELSE IF pc = "execute" /\ pc' = "executing"
  THEN L!ToolStarting(life, job.tool, s.operation.id)
  ELSE L!Quiet(life)

Died == left'.crashes # left.crashes
Ended == pc # "down" /\ pc' = "down" /\ ~Died
Started == pc = "down" /\ pc' # "down"

Hears(told) ==
  /\ life' = told.life
  /\ spans' = L!RecordAll(spans, told.events)
  /\ published' = told.events

(* The process goes on.                                                     *)
Observe ==
  /\ ~Died /\ ~Ended /\ ~Started
  /\ \E told \in {Heard} : Hears(told)

(* It ends in order, or by an error: the lifecycle is closed, then its sinks. *)
ObserveEnd ==
  /\ Ended
  /\ \E told \in {L!Closed(Heard)} :
       /\ life' = told.life
       /\ spans' = L!FinishDangling(L!RecordAll(spans, told.events))
       /\ published' = told.events

Gone == life' = L!NoLife /\ spans' = L!NoSpans /\ published' = << >>

ObserveDeath == Died /\ Gone

(* The line is in the file (session/mod.rs:580-584), and the process dies   *)
(* before its observers hear of it (588-589): all it can do is die, or it   *)
(* has ended.  Until then the thread that wrote has the lock of the store;  *)
(* what the other thread may do without it dies with the process.           *)
Unheard ==
  /\ s' # s
  /\ left.crashes > 0 /\ Room(Reserve)'
  /\ Gone

(* `recover_session` first tells of the operation it found.                 *)
ObserveStart ==
  /\ Started
  /\ IF Idle(s) THEN Gone
       ELSE \E told \in {L!Recovered(L!NoLife, s.operation.id, s.operation.kind)} :
              /\ life' = told.life
              /\ spans' = L!RecordAll(L!NoSpans, told.events)
              /\ published' = told.events

ObservedInit ==
  Init /\ life = L!NoLife /\ spans = L!NoSpans /\ published = << >> /\ heard = TRUE

ObservedNext ==
  /\ Next
  /\ \/ heard' = TRUE /\ (ObserveDeath \/ ObserveStart)
     \/ heard /\ heard' = TRUE /\ (Observe \/ ObserveEnd)
     \/ heard /\ heard' = FALSE /\ Unheard

ObservedSpec == ObservedInit /\ [][ObservedNext]_<<vars, observers>>

(* The processor is fair to both threads (FairSpec); a process that is to   *)
(* die before its observers hear of a line does.                            *)
ObservedFairSpec ==
  ObservedSpec /\ WF_vars(Worker) /\ WF_vars(Terminal) /\ WF_vars(~heard /\ Crash)

-----------------------------------------------------------------------------
(* Properties *)

Running == heard /\ pc # "down"

(* The operation the lifecycle holds open is the unfinished operation of    *)
(* the file, as is the span of it, in whichever process it was started.     *)
OpenIsUnfinished ==
  \A op \in Id :
    /\ life.operations[op] # None <=> Unfinished(s, op)
    /\ L!IsOpen(spans.operations[op]) <=> Unfinished(s, op)

(* A model span is open exactly while its attempt is, if this process       *)
(* admitted the attempt; one of an earlier process has no span.             *)
ModelSpans ==
  \A a \in Id :
    /\ L!IsOpen(spans.models[a]) <=> life.models[a] # None
    /\ life.models[a] # None =>
         ~s.attempts[a].closed /\ L!IsOpen(spans.operations[s.attempts[a].op])
    /\ s.attempts[a] # None /\ ~s.attempts[a].closed /\ life.models[a] = None
         => job.recovering \/ Recovers("closeAttempt")

(* A tool span is open exactly while the worker executes the tool and its   *)
(* result is not written.                                                   *)
ToolSpans ==
  \A t \in Id :
    L!IsOpen(spans.tools[t]) <=>
      /\ pc \in {"executing", "toolAbort", "toolResult"}
      /\ job.tool = t /\ t \in PendingTools(s)

(* The three say that what the observers hold open follows the file.        *)
SpansFollowFile == Running => OpenIsUnfinished /\ ModelSpans /\ ToolSpans

(* How a span ended is what the file says: a success is an answer kept, a   *)
(* failure a closed attempt without one, a written tool has its result, and *)
(* an unknown effect is an attempt or intent that nothing has closed.       *)
EndsAreTrue ==
  /\ \A a \in Id : spans.models[a] # None =>
       CASE spans.models[a].end = "succeeded" -> s.attempts[a].settled # None
         [] spans.models[a].end = "failed" ->
              s.attempts[a].closed /\ s.attempts[a].settled = None
         [] OTHER -> ~s.attempts[a].closed
  /\ \A t \in Id : spans.tools[t] # None =>
       (spans.tools[t].end = "written" <=> s.tools[t].status = "completed")

(* README.md:132: the end of an operation is published only when the fact   *)
(* is in the file, once, and whenever the process lives to tell it.  An end *)
(* whose process dies between the line and its observers is never published. *)
Published(type) == {n \in DOMAIN published' : published'[n].type = type}

EndIsPublished ==
  [][\A op \in Id :
       Unfinished(s, op) /\ ~Unfinished(s', op) /\ heard' <=>
         \E n \in Published("operation.completed") : published'[n].id = op]_<<vars, observers>>

(* A completed operation reports what its answers were charged, all of it   *)
(* if this process started it.                                              *)
UsageReported ==
  [][\A n \in Published("operation.completed") :
       LET event == published'[n]
           charged == Cardinality({a \in Id : s'.attempts[a] # None
                        /\ s'.attempts[a].op = event.id
                        /\ s'.attempts[a].settled # None})
       IN  /\ event.usage <= charged
           /\ ~event.recovery => event.usage = charged]_<<vars, observers>>

(* A run that completes in the process that started it reports its answer.  *)
AnswerReported ==
  [][\A n \in Published("operation.completed") :
       LET event == published'[n]
       IN  event.outcome = "succeeded" /\ ~event.recovery
             /\ s'.operations[event.id].kind = "run"
           => event.answer]_<<vars, observers>>

===============================================================================
