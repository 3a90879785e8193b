-------------------------- MODULE ServiceLifecycle --------------------------
(***************************************************************************)
(* The service's threads and the order in which they start and stop: the   *)
(* build of the application with its rollback, the bounded intake queue    *)
(* the closed-bar webhook fills, the one worker that empties it, the       *)
(* resolver's polling worker, and the lifespan that starts both, stops     *)
(* both and then closes the clients they use.                              *)
(*                                                                         *)
(* Each acquisition of a worker's lifecycle lock is one step; between two  *)
(* of them any other thread may run.                                       *)
(***************************************************************************)
EXTENDS Naturals, Sequences, SequencesExt

CONSTANTS
  Events,      \* committed bars, which the webhook may repeat
  Instances,   \* instances that may have a pending recovery marker
  Capacity,    \* COMMITTED_BAR_QUEUE_CAPACITY
  NumClients,  \* outbound HTTP clients (seven in the code), built in order
  None,
  MaxAccepted  \* bound: events accepted in one life of the service

ASSUME LifecycleAssumption ==
  /\ Capacity \in Nat \ {0}
  /\ NumClients \in Nat
  /\ None \notin Events
  /\ MaxAccepted \in Nat

VARIABLES
  main,       \* where the build or the lifespan is
  clients,    \* per outbound HTTP client: not built, open, close() tried
  accepting,  \* CommittedBarIntakeBoundary._accepting; FALSE without a boundary
  queue,
  intake,     \* CommittedBarIntakeWorker._state
  ithread,    \* where its thread is
  current,    \* the event it took from the queue, or None
  resolver,   \* UncertainExchangeStateResolverWorker._state
  rthread,
  todo,       \* instances left in this tick
  poisoned,   \* the state store refuses every call
  accepted,   \* history: events answered "accepted"
  processed   \* history: events handed to the orchestrator

boundary == <<accepting, queue, accepted>>
iworker == <<intake, ithread, current, processed>>
rworker == <<resolver, rthread, todo>>
vars == <<main, clients, boundary, iworker, rworker, poisoned>>

WorkerStates == {"NOT_STARTED", "RUNNING", "STOPPING", "STOPPED"}

TypeOK ==
  /\ main \in {"build", "assemble", "rollback", "start_intake", "start_resolver", "serving",
               "stop_accepting", "stop_intake", "join_intake", "stop_resolver",
               "join_resolver", "close", "done"}
  /\ clients \in [1 .. NumClients -> {"unbuilt", "open", "closed"}]
  /\ accepting \in BOOLEAN
  /\ queue \in Seq(Events) /\ Len(queue) <= Capacity
  /\ intake \in WorkerStates
  /\ ithread \in {"none", "get", "empty", "got", "process", "dead"}
  /\ current \in Events \cup {None}
  /\ resolver \in WorkerStates
  /\ rthread \in {"none", "check", "list", "next", "attempt", "wait", "dead"}
  /\ todo \subseteq Instances
  /\ poisoned \in BOOLEAN
  /\ accepted \in Seq(Events)
  /\ processed \in Seq(Events)

Init ==
  /\ main = "build"
  /\ clients = [c \in 1 .. NumClients |-> "unbuilt"]
  /\ accepting = TRUE
  /\ queue = <<>>
  /\ intake = "NOT_STARTED"
  /\ ithread = "none"
  /\ current = None
  /\ resolver = "NOT_STARTED"
  /\ rthread = "none"
  /\ todo = {}
  /\ poisoned = FALSE
  /\ accepted = <<>>
  /\ processed = <<>>

-----------------------------------------------------------------------------
(* Faulty variant: a full queue drops its oldest event. *)
PutNowaitDropsOldest(event) ==
  /\ accepting
  /\ Len(accepted) < MaxAccepted
  /\ queue' = Append(IF Len(queue) = Capacity THEN Tail(queue) ELSE queue, event)
  /\ accepted' = Append(accepted, event)
  /\ UNCHANGED <<main, clients, accepting, iworker, rworker, poisoned>>

(* CommittedBarIntakeBoundary.put_nowait.  A refusal (not accepting, or    *)
(* full) changes nothing.                                                  *)
PutNowait(event) ==
  /\ accepting
  /\ Len(queue) < Capacity
  /\ Len(accepted) < MaxAccepted
  /\ queue' = Append(queue, event)
  /\ accepted' = Append(accepted, event)
  /\ UNCHANGED <<main, clients, accepting, iworker, rworker, poisoned>>

(* The application that is served has the intake: the build succeeded. *)
Ready == intake # "NOT_STARTED" \/ main = "start_intake"

(* The handler answers 200 when the event is queued and 503 otherwise: an  *)
(* application whose build failed has no intake.                           *)
ClosedBarWebhook(event) == Ready /\ PutNowait(event)

-----------------------------------------------------------------------------
(* build_application.  Any step may raise; everything is then rolled back. *)

Unbuilt == {c \in 1 .. NumClients : clients[c] = "unbuilt"}

BuildClient ==
  /\ main = "build"
  /\ IF Unbuilt = {}
     THEN main' = "assemble" /\ UNCHANGED clients
     ELSE \/ /\ clients' = [clients EXCEPT ![CHOOSE c \in Unbuilt : \A d \in Unbuilt : c <= d]
                                            = "open"]
             /\ UNCHANGED main
          \/ main' = "rollback" /\ UNCHANGED clients
  /\ UNCHANGED <<boundary, iworker, rworker, poisoned>>

(* The repository with its replay, the services, the workers and the       *)
(* FastAPI application around them.                                        *)
Assemble ==
  /\ main = "assemble"
  /\ main' \in {"start_intake", "rollback"}
  /\ UNCHANGED <<clients, boundary, iworker, rworker, poisoned>>

(* stop_once of workers that never ran, if they exist, then close_all_once *)
(* and an application without an intake.                                   *)
RollBack ==
  /\ main = "rollback"
  /\ intake' = "STOPPED"
  /\ resolver' = "STOPPED"
  /\ accepting' = FALSE
  /\ main' = "close"
  /\ UNCHANGED <<clients, queue, accepted, ithread, current, processed, rthread, todo, poisoned>>

-----------------------------------------------------------------------------
(* The lifespan. *)

(* thread.start() may raise: the worker is STOPPED and shutdown begins. *)
StartIntake ==
  /\ main = "start_intake"
  /\ \/ main' = "start_resolver" /\ intake' = "RUNNING" /\ ithread' = "get"
     \/ main' = "stop_accepting" /\ intake' = "STOPPED" /\ UNCHANGED ithread
  /\ UNCHANGED <<clients, boundary, current, processed, rworker, poisoned>>

StartResolver ==
  /\ main = "start_resolver"
  /\ \/ main' = "serving" /\ resolver' = "RUNNING" /\ rthread' = "check"
     \/ main' = "stop_accepting" /\ resolver' = "STOPPED" /\ UNCHANGED rthread
  /\ UNCHANGED <<clients, boundary, iworker, todo, poisoned>>

Shutdown ==
  /\ main = "serving"
  /\ main' = "stop_accepting"
  /\ UNCHANGED <<clients, boundary, iworker, rworker, poisoned>>

StopAccepting ==
  /\ main = "stop_accepting"
  /\ main' = "stop_intake"
  /\ accepting' = FALSE
  /\ UNCHANGED <<clients, queue, accepted, iworker, rworker, poisoned>>

(* stop_once, up to its join: a worker that never ran has nothing to join. *)
StopIntake ==
  /\ main = "stop_intake"
  /\ IF intake = "RUNNING"
     THEN intake' = "STOPPING" /\ main' = "join_intake"
     ELSE intake' = "STOPPED" /\ main' = "stop_resolver"
  /\ UNCHANGED <<clients, boundary, ithread, current, processed, rworker, poisoned>>

(* Faulty variant: STOPPED is announced without the join. *)
JoinIntakeSkipped ==
  /\ main = "join_intake"
  /\ intake' = "STOPPED"
  /\ main' = "stop_resolver"
  /\ UNCHANGED <<clients, boundary, ithread, current, processed, rworker, poisoned>>

JoinIntake ==
  /\ main = "join_intake"
  /\ ithread = "dead"
  /\ intake' = "STOPPED"
  /\ main' = "stop_resolver"
  /\ UNCHANGED <<clients, boundary, ithread, current, processed, rworker, poisoned>>

StopResolver ==
  /\ main = "stop_resolver"
  /\ IF resolver = "RUNNING"
     THEN resolver' = "STOPPING" /\ main' = "join_resolver"
     ELSE resolver' = "STOPPED" /\ main' = "close"
  /\ UNCHANGED <<clients, boundary, iworker, rthread, todo, poisoned>>

JoinResolver ==
  /\ main = "join_resolver"
  /\ rthread = "dead"
  /\ resolver' = "STOPPED"
  /\ main' = "close"
  /\ UNCHANGED <<clients, boundary, iworker, rthread, todo, poisoned>>

(* close_all_once goes through the clients in the order they were built. *)
OpenClients == {c \in 1 .. NumClients : clients[c] = "open"}

(* Faulty variant: the first close() that raises ends the loop. *)
CloseNextOrStop ==
  /\ main = "close"
  /\ IF OpenClients = {}
     THEN main' = "done" /\ UNCHANGED clients
     ELSE /\ clients' = [clients EXCEPT ![CHOOSE c \in OpenClients :
                                            \A d \in OpenClients : c <= d] = "closed"]
          /\ main' \in {"close", "done"}
  /\ UNCHANGED <<boundary, iworker, rworker, poisoned>>

(* close() returns or raises; an exception is logged. *)
CloseNext ==
  /\ main = "close"
  /\ IF OpenClients = {}
     THEN main' = "done" /\ UNCHANGED clients
     ELSE /\ clients' = [clients EXCEPT ![CHOOSE c \in OpenClients :
                                            \A d \in OpenClients : c <= d] = "closed"]
          /\ UNCHANGED main
  /\ UNCHANGED <<boundary, iworker, rworker, poisoned>>

-----------------------------------------------------------------------------
(* CommittedBarIntakeWorker._run *)

Get ==
  /\ ithread = "get"
  /\ queue # <<>>
  /\ current' = Head(queue)
  /\ queue' = Tail(queue)
  /\ ithread' = "got"
  /\ UNCHANGED <<main, clients, accepting, accepted, intake, processed, rworker, poisoned>>

(* The poll timed out on an empty queue. *)
GetTimesOut ==
  /\ ithread = "get"
  /\ queue = <<>>
  /\ ithread' = "empty"
  /\ UNCHANGED <<main, clients, boundary, intake, current, processed, rworker, poisoned>>

(* Faulty variant: an empty poll ends the worker. *)
CheckAfterTimeoutExits ==
  /\ ithread = "empty"
  /\ ithread' = "dead"
  /\ UNCHANGED <<main, clients, boundary, intake, current, processed, rworker, poisoned>>

(* Faulty variant: an empty poll does not look for a stop. *)
CheckAfterTimeoutSkipped ==
  /\ ithread = "empty"
  /\ ithread' = "get"
  /\ UNCHANGED <<main, clients, boundary, intake, current, processed, rworker, poisoned>>

CheckAfterTimeout ==
  /\ ithread = "empty"
  /\ ithread' = IF intake = "RUNNING" THEN "get" ELSE "dead"
  /\ UNCHANGED <<main, clients, boundary, intake, current, processed, rworker, poisoned>>

(* Faulty variant: the state is not looked at again after the get. *)
BecomesCurrentUnchecked ==
  /\ ithread = "got"
  /\ ithread' = "process"
  /\ processed' = Append(processed, current)
  /\ UNCHANGED <<main, clients, boundary, intake, current, rworker, poisoned>>

(* The event becomes current, or stop_once came first and it is dropped. *)
BecomesCurrent ==
  /\ ithread = "got"
  /\ IF intake = "RUNNING"
     THEN /\ ithread' = "process"
          /\ processed' = Append(processed, current)
          /\ UNCHANGED current
     ELSE /\ ithread' = "dead"
          /\ current' = None
          /\ UNCHANGED processed
  /\ UNCHANGED <<main, clients, boundary, intake, rworker, poisoned>>

(* Faulty variant: an exception of one event ends the worker. *)
ProcessedOrDies ==
  /\ ithread = "process"
  /\ current' = None
  /\ ithread' \in {"get", "dead"}
  /\ UNCHANGED <<main, clients, boundary, intake, processed, rworker, poisoned>>

(* process returns or raises; an exception is logged. *)
Processed ==
  /\ ithread = "process"
  /\ current' = None
  /\ ithread' = "get"
  /\ UNCHANGED <<main, clients, boundary, intake, processed, rworker, poisoned>>

-----------------------------------------------------------------------------
(* UncertainExchangeStateResolverWorker._run and _tick *)

CheckRunning ==
  /\ rthread = "check"
  /\ rthread' = IF resolver = "RUNNING" THEN "list" ELSE "dead"
  /\ UNCHANGED <<main, clients, boundary, iworker, resolver, todo, poisoned>>

(* Listing the pending instances is outside the try: on a poisoned store   *)
(* it raises and ends the thread, whose worker stays RUNNING.              *)
ListPending ==
  /\ rthread = "list"
  /\ IF poisoned
     THEN rthread' = "dead" /\ UNCHANGED todo
     ELSE \E pending \in SUBSET Instances : rthread' = "next" /\ todo' = pending
  /\ UNCHANGED <<main, clients, boundary, iworker, resolver, poisoned>>

(* The loop of a tick: the state is looked at before each instance. *)
NextPending ==
  /\ rthread = "next"
  /\ rthread' = IF todo = {} \/ resolver # "RUNNING" THEN "wait" ELSE "attempt"
  /\ UNCHANGED <<main, clients, boundary, iworker, resolver, todo, poisoned>>

(* attempt returns or raises; an exception is logged. *)
Attempt(instance) ==
  /\ rthread = "attempt"
  /\ instance \in todo
  /\ todo' = todo \ {instance}
  /\ rthread' = "next"
  /\ UNCHANGED <<main, clients, boundary, iworker, resolver, poisoned>>

(* The poll interval passes, or stop_once sets the wake event. *)
WaitEnds ==
  /\ rthread = "wait"
  /\ rthread' = "check"
  /\ todo' = {}
  /\ UNCHANGED <<main, clients, boundary, iworker, resolver, poisoned>>

StorePoisoned ==
  /\ Ready /\ ~poisoned
  /\ main # "done"
  /\ poisoned' = TRUE
  /\ UNCHANGED <<main, clients, boundary, iworker, rworker>>

Ended == main = "done" /\ UNCHANGED vars

-----------------------------------------------------------------------------
Lifespan ==
  BuildClient \/ Assemble \/ RollBack
    \/ StartIntake \/ StartResolver \/ StopAccepting \/ StopIntake \/ JoinIntake
    \/ StopResolver \/ JoinResolver \/ CloseNext

IntakeThread == Get \/ GetTimesOut \/ CheckAfterTimeout \/ BecomesCurrent \/ Processed

ResolverThread ==
  CheckRunning \/ ListPending \/ NextPending \/ WaitEnds
    \/ \E instance \in Instances : Attempt(instance)

Next ==
  \/ \E event \in Events : ClosedBarWebhook(event)
  \/ Lifespan
  \/ Shutdown
  \/ IntakeThread
  \/ ResolverThread
  \/ StorePoisoned
  \/ Ended

Spec == Init /\ [][Next]_vars

(* Every thread that can go on does: processing a bar and attempting a     *)
(* recovery end, because each call in them has a timeout.  Nobody has to   *)
(* ask for a shutdown or post a bar.                                       *)
FairSpec ==
  Spec /\ WF_vars(Lifespan) /\ WF_vars(IntakeThread) /\ WF_vars(ResolverThread)

-----------------------------------------------------------------------------
(* Properties. *)

(* Bars are processed in the order they were accepted and none is skipped  *)
(* or repeated: at any time what was processed, what was just taken from   *)
(* the queue and what is queued make up, in this order, what was accepted. *)
(* Only a stop drops bars, and only from the end.                          *)
AcceptedInOrder ==
  LET taken == IF ithread = "got" THEN <<current>> ELSE <<>> IN
  /\ IsPrefix(processed, accepted)
  /\ intake = "RUNNING" => accepted = processed \o taken \o queue

(* No event becomes current once stop_once has won the lifecycle lock: the *)
(* decision and the stop are atomic with respect to each other.            *)
NoneCurrentAfterStop ==
  [][intake # "RUNNING" => processed' = processed]_vars

(* No client is closed while a thread can still use it, whichever start    *)
(* failed and wherever the threads were.                                   *)
ClientsOutliveThreads ==
  (\E c \in 1 .. NumClients : clients[c] = "closed") =>
    ithread \in {"none", "dead"} /\ rthread \in {"none", "dead"}

(* Nothing a bar raises ends the thread of a RUNNING intake.  A RUNNING    *)
(* resolver may have lost its thread, but to a poisoned store only, which  *)
(* list_ids_with_pending_... refuse to read, never to a recovery that     *)
(* raised.                                                                 *)
ThreadsAlive ==
  /\ intake = "RUNNING" => ithread # "dead"
  /\ resolver = "RUNNING" /\ rthread = "dead" => poisoned

(* Whatever ended the service, a build that failed half way, a thread that *)
(* did not start, a shutdown, or a close() that raised before the others,  *)
(* it leaves no client open, no worker to join and no intake that accepts  *)
(* (build_application's one construction boundary; close_all_once).        *)
NothingLeftBehind ==
  main = "done" =>
    /\ OpenClients = {}
    /\ intake = "STOPPED" /\ resolver = "STOPPED"
    /\ ithread \in {"none", "dead"} /\ rthread \in {"none", "dead"}
    /\ ~accepting

(* Shutdown and rollback end: no join waits for ever. *)
ShutdownEnds == main \in {"stop_accepting", "rollback"} ~> main = "done"

(* An accepted bar is processed in the end, unless the service is stopped. *)
AcceptedIsProcessed ==
  \A n \in 1 .. MaxAccepted :
    Len(accepted) >= n ~> (Len(processed) >= n \/ main = "done")
=============================================================================
