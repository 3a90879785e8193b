----------------------- MODULE ServiceLifecycleProofs -----------------------
(***************************************************************************)
(* Proofs about ServiceLifecycle: the order of bars through the intake,    *)
(* and what start, stop, rollback and close leave of the threads and the   *)
(* clients, for every queue capacity and every number of clients.          *)
(***************************************************************************)
EXTENDS ServiceLifecycle, SequenceTheorems, TLAPS

-----------------------------------------------------------------------------
(* Queues. *)

(* Taking the head of a queue keeps the concatenation. *)
LEMMA TakeHead ==
  ASSUME NEW E, NEW p \in Seq(E), NEW q \in Seq(E), q # <<>>
  PROVE  (p \o <<>>) \o q = (p \o <<Head(q)>>) \o Tail(q)
<1>1. Head(q) \in E /\ Tail(q) \in Seq(E)
  BY HeadTailProperties
<1>2. <<Head(q)>> \in Seq(E)
  BY <1>1
<1>3. q = <<Head(q)>> \o Tail(q)
  BY <1>1
<1>4. (p \o <<Head(q)>>) \o Tail(q) = p \o (<<Head(q)>> \o Tail(q))
  BY <1>1, <1>2, ConcatAssociative
<1>5. p \o <<>> = p
  BY ConcatEmptySeq
<1> QED
  BY <1>3, <1>4, <1>5

(* An element that leaves the middle for the end of the first part. *)
LEMMA MoveOn ==
  ASSUME NEW E, NEW p \in Seq(E), NEW q \in Seq(E), NEW e \in E
  PROVE  (p \o <<e>>) \o q = (Append(p, e) \o <<>>) \o q
<1>1. Append(p, e) = p \o <<e>>
  BY AppendIsConcat
<1>2. Append(p, e) \in Seq(E)
  BY AppendProperties
<1>3. Append(p, e) \o <<>> = Append(p, e)
  BY <1>2, ConcatEmptySeq
<1> QED
  BY <1>1, <1>3

(* The first part of a concatenation is a prefix of it. *)
LEMMA PrefixOfConcat ==
  ASSUME NEW E, NEW p \in Seq(E), NEW t \in Seq(E)
  PROVE  IsPrefix(p, p \o t)
BY DEF IsPrefix

(* A longer list has the same prefixes and more. *)
LEMMA PrefixOfAppend ==
  ASSUME NEW E, NEW p \in Seq(E), NEW a \in Seq(E), NEW e \in E, IsPrefix(p, a)
  PROVE  IsPrefix(p, Append(a, e))
BY DEF IsPrefix

-----------------------------------------------------------------------------
(* The invariant, in parts. *)

Before == {"build", "assemble", "rollback", "start_intake"}
Closing == {"close", "done"}
Stopping == {"stop_intake", "join_intake", "stop_resolver", "join_resolver"} \cup Closing

(* How far the lifespan is determines the workers' states. *)
PhasesAgree ==
  /\ main \in Before => intake = "NOT_STARTED" /\ resolver = "NOT_STARTED"
  /\ main = "start_resolver" => intake = "RUNNING" /\ resolver = "NOT_STARTED"
  /\ main = "serving" => intake = "RUNNING" /\ resolver = "RUNNING"
  /\ main \in {"stop_accepting", "stop_intake"} =>
       intake \in {"RUNNING", "STOPPED"} /\ resolver \in {"NOT_STARTED", "RUNNING", "STOPPED"}
  /\ main = "join_intake" =>
       intake = "STOPPING" /\ resolver \in {"NOT_STARTED", "RUNNING", "STOPPED"}
  /\ main = "stop_resolver" =>
       intake = "STOPPED" /\ resolver \in {"NOT_STARTED", "RUNNING", "STOPPED"}
  /\ main = "join_resolver" => intake = "STOPPED" /\ resolver = "STOPPING"
  /\ main \in Closing => intake = "STOPPED" /\ resolver = "STOPPED"

(* A worker's state determines whether its thread is there. *)
ThreadsAgree ==
  /\ intake = "NOT_STARTED" => ithread = "none"
  /\ intake = "RUNNING" => ithread \notin {"none", "dead"}
  /\ intake = "STOPPED" => ithread \in {"none", "dead"}
  /\ resolver = "NOT_STARTED" => rthread = "none"
  /\ resolver = "RUNNING" => rthread # "none" /\ (~poisoned => rthread # "dead")
  /\ resolver = "STOPPED" => rthread \in {"none", "dead"}

(* Clients are closed at the end only, and then all of them; by then the   *)
(* intake no longer accepts.                                               *)
ClosedLast ==
  /\ (\E c \in 1 .. NumClients : clients[c] = "closed") => main \in Closing
  /\ main = "done" => OpenClients = {}
  /\ main \in Stopping => ~accepting

Taken == IF ithread = "got" THEN <<current>> ELSE <<>>

(* What was accepted is what was processed, taken and queued, until a      *)
(* worker stops; then it begins with what was processed.                   *)
InOrder ==
  /\ ithread = "got" => current \in Events
  /\ intake = "NOT_STARTED" => processed = <<>>
  /\ intake \in {"NOT_STARTED", "RUNNING"} => accepted = (processed \o Taken) \o queue
  /\ IsPrefix(processed, accepted)

LifecycleInv == TypeOK /\ PhasesAgree /\ ThreadsAgree /\ ClosedLast /\ InOrder

(* Nothing is built, started or accepted at first. *)
LEMMA LifecycleInitially == Init => LifecycleInv
<1> SUFFICES ASSUME Init PROVE LifecycleInv
  OBVIOUS
<1>1. TypeOK
  <2>1. Len(queue) <= Capacity /\ queue \in Seq(Events)
    BY LifecycleAssumption DEF Init
  <2> QED
    BY <2>1 DEF Init, TypeOK, WorkerStates
<1>2. PhasesAgree /\ ThreadsAgree /\ ClosedLast
  BY DEF Init, PhasesAgree, ThreadsAgree, ClosedLast, Before, Closing, Stopping
<1>3. accepted = (processed \o Taken) \o queue
  BY DEF Init, Taken
<1>4. InOrder
  BY <1>3 DEF Init, InOrder, IsPrefix
<1> QED
  BY <1>1, <1>2, <1>4 DEF LifecycleInv

(* A step that leaves bars and the intake thread alone, and starts nothing *)
(* that was not started, keeps their order.                                *)
LEMMA OrderUntouched ==
  ASSUME InOrder, UNCHANGED <<ithread, current, processed, queue, accepted>>,
         intake' \in {"NOT_STARTED", "RUNNING"} => intake \in {"NOT_STARTED", "RUNNING"},
         intake' = "NOT_STARTED" => intake = "NOT_STARTED"
  PROVE  InOrder'
BY DEF InOrder, Taken

(* The webhook. *)
LEMMA WebhookKeeps ==
  ASSUME LifecycleInv, NEW event \in Events, ClosedBarWebhook(event)
  PROVE  LifecycleInv'
<1> USE DEF ClosedBarWebhook, PutNowait
<1>1. queue \in Seq(Events) /\ accepted \in Seq(Events) /\ processed \in Seq(Events)
  BY DEF LifecycleInv, TypeOK
<1>2. Taken \in Seq(Events)
  BY DEF LifecycleInv, InOrder, Taken
<1>3. TypeOK'
  BY <1>1, LifecycleAssumption DEF LifecycleInv, TypeOK, iworker, rworker
<1>4. PhasesAgree' /\ ThreadsAgree' /\ ClosedLast'
  BY DEF LifecycleInv, PhasesAgree, ThreadsAgree, ClosedLast, OpenClients, iworker, rworker
<1>5. Taken' = Taken /\ processed' = processed /\ intake' = intake
  BY DEF Taken, iworker
<1>6. intake \in {"NOT_STARTED", "RUNNING"} => accepted' = (processed \o Taken) \o queue'
  <2>1. processed \o Taken \in Seq(Events)
    BY <1>1, <1>2, ConcatProperties
  <2>2. Append((processed \o Taken) \o queue, event) = (processed \o Taken) \o Append(queue, event)
    <3> DEFINE before == processed \o Taken
    <3>1. before \in Seq(Events)
      BY <2>1
    <3> HIDE DEF before
    <3>2. before \o queue \in Seq(Events) /\ <<event>> \in Seq(Events)
      BY <1>1, <3>1, ConcatProperties
    <3>3. (before \o queue) \o <<event>> = before \o (queue \o <<event>>)
      BY <1>1, <3>1, <3>2, ConcatAssociative
    <3>4. Append(before \o queue, event) = (before \o queue) \o <<event>>
      BY <3>2, AppendIsConcat
    <3>5. Append(queue, event) = queue \o <<event>>
      BY <1>1, AppendIsConcat
    <3> QED
      BY <3>3, <3>4, <3>5 DEF before
  <2> QED
    BY <2>2 DEF LifecycleInv, InOrder
<1>7. IsPrefix(processed, accepted')
  BY <1>1, PrefixOfAppend DEF LifecycleInv, InOrder
<1>8. InOrder'
  BY <1>5, <1>6, <1>7 DEF LifecycleInv, InOrder, iworker
<1> QED
  BY <1>3, <1>4, <1>8 DEF LifecycleInv

(* The build and its rollback. *)
LEMMA BuildKeeps ==
  ASSUME LifecycleInv, BuildClient \/ Assemble \/ RollBack
  PROVE  LifecycleInv'
<1>1. CASE BuildClient
  <2>1. /\ main = "build" /\ main' \in {"build", "assemble", "rollback"}
        /\ UNCHANGED <<boundary, iworker, rworker, poisoned>>
    BY <1>1 DEF BuildClient
  <2>2. /\ clients' \in [1 .. NumClients -> {"unbuilt", "open", "closed"}]
        /\ \A c \in 1 .. NumClients : clients'[c] = "closed" => clients[c] = "closed"
    BY <1>1 DEF LifecycleInv, TypeOK, BuildClient
  <2>3. TypeOK'
    BY <2>1, <2>2 DEF LifecycleInv, TypeOK, boundary, iworker, rworker
  <2>4. PhasesAgree' /\ ThreadsAgree' /\ ClosedLast'
    BY <2>1, <2>2 DEF LifecycleInv, PhasesAgree, ThreadsAgree, ClosedLast, Before, Closing, Stopping,
                      boundary, iworker, rworker
  <2>5. InOrder'
    BY <2>1, OrderUntouched DEF LifecycleInv, boundary, iworker
  <2> QED
    BY <2>3, <2>4, <2>5 DEF LifecycleInv
<1>2. CASE Assemble
  <2>1. TypeOK' /\ PhasesAgree' /\ ThreadsAgree' /\ ClosedLast'
    BY <1>2 DEF Assemble, LifecycleInv, TypeOK, PhasesAgree, ThreadsAgree, ClosedLast, OpenClients,
                Before, Closing, Stopping, boundary, iworker, rworker
  <2>2. InOrder'
    BY <1>2, OrderUntouched DEF Assemble, LifecycleInv, boundary, iworker
  <2> QED
    BY <2>1, <2>2 DEF LifecycleInv
<1>3. CASE RollBack
  <2>1. TypeOK' /\ PhasesAgree' /\ ThreadsAgree' /\ ClosedLast'
    BY <1>3 DEF RollBack, LifecycleInv, TypeOK, WorkerStates, PhasesAgree, ThreadsAgree, ClosedLast,
                OpenClients, Before, Closing, Stopping
  <2>2. InOrder'
    BY <1>3, OrderUntouched DEF RollBack, LifecycleInv
  <2> QED
    BY <2>1, <2>2 DEF LifecycleInv
<1> QED
  BY <1>1, <1>2, <1>3

(* Starting the workers. *)
LEMMA StartKeeps ==
  ASSUME LifecycleInv, StartIntake \/ StartResolver
  PROVE  LifecycleInv'
<1>1. CASE StartIntake
  <2>1. main = "start_intake" /\ intake = "NOT_STARTED" /\ ithread = "none" /\ resolver = "NOT_STARTED"
    BY <1>1 DEF StartIntake, LifecycleInv, PhasesAgree, ThreadsAgree, Before
  <2>2. TypeOK' /\ PhasesAgree' /\ ThreadsAgree' /\ ClosedLast'
    BY <1>1, <2>1 DEF StartIntake, LifecycleInv, TypeOK, WorkerStates, PhasesAgree, ThreadsAgree, ClosedLast,
                OpenClients, Before, Closing, Stopping, boundary, rworker
  <2>3. Taken' = Taken /\ intake' # "NOT_STARTED" /\ UNCHANGED <<processed, queue, accepted, current>>
        /\ ithread' # "got"
    BY <1>1, <2>1 DEF StartIntake, Taken, boundary
  <2>4. InOrder'
    BY <2>1, <2>3 DEF LifecycleInv, InOrder
  <2> QED
    BY <2>2, <2>4 DEF LifecycleInv
<1>2. CASE StartResolver
  <2>1. TypeOK' /\ PhasesAgree' /\ ThreadsAgree' /\ ClosedLast'
    BY <1>2 DEF StartResolver, LifecycleInv, TypeOK, WorkerStates, PhasesAgree, ThreadsAgree, ClosedLast,
                OpenClients, Before, Closing, Stopping, boundary, iworker
  <2>2. InOrder'
    BY <1>2, OrderUntouched DEF StartResolver, LifecycleInv, boundary, iworker
  <2> QED
    BY <2>1, <2>2 DEF LifecycleInv
<1> QED
  BY <1>1, <1>2

(* Shutdown, up to the close of the clients. *)
LEMMA StopKeeps ==
  ASSUME LifecycleInv,
         Shutdown \/ StopAccepting \/ StopIntake \/ JoinIntake \/ StopResolver \/ JoinResolver
  PROVE  LifecycleInv'
<1> USE DEF LifecycleInv, TypeOK, WorkerStates, PhasesAgree, ThreadsAgree, ClosedLast,
            OpenClients, Before, Closing, Stopping, boundary, iworker, rworker
<1>1. /\ UNCHANGED <<ithread, current, processed, queue, accepted>>
      /\ intake' \in {"NOT_STARTED", "RUNNING"} => intake \in {"NOT_STARTED", "RUNNING"}
      /\ intake' = "NOT_STARTED" => intake = "NOT_STARTED"
  BY DEF Shutdown, StopAccepting, StopIntake, JoinIntake, StopResolver, JoinResolver
<1>2. InOrder'
  BY <1>1, OrderUntouched
<1>3. CASE Shutdown
  BY <1>2, <1>3 DEF Shutdown
<1>4. CASE StopAccepting
  <2>1. TypeOK'
    BY <1>4 DEF StopAccepting
  <2>2. PhasesAgree' /\ ThreadsAgree' /\ ClosedLast'
    BY <1>4 DEF StopAccepting
  <2> QED
    BY <1>2, <2>1, <2>2
<1>5. CASE StopIntake
  <2>1. TypeOK'
    BY <1>5 DEF StopIntake
  <2>2. PhasesAgree' /\ ThreadsAgree' /\ ClosedLast'
    BY <1>5 DEF StopIntake
  <2> QED
    BY <1>2, <2>1, <2>2
<1>6. CASE JoinIntake
  BY <1>2, <1>6 DEF JoinIntake
<1>7. CASE StopResolver
  BY <1>2, <1>7 DEF StopResolver
<1>8. CASE JoinResolver
  BY <1>2, <1>8 DEF JoinResolver
<1> QED
  BY <1>3, <1>4, <1>5, <1>6, <1>7, <1>8

(* Closing the clients. *)
LEMMA CloseKeeps ==
  ASSUME LifecycleInv, CloseNext
  PROVE  LifecycleInv'
<1>1. /\ main = "close" /\ main' \in Closing
      /\ UNCHANGED <<boundary, iworker, rworker, poisoned>>
      /\ clients' \in [1 .. NumClients -> {"unbuilt", "open", "closed"}]
      /\ main' = "done" => OpenClients = {} /\ clients' = clients
  BY DEF CloseNext, LifecycleInv, TypeOK, Closing
<1>2. TypeOK' /\ PhasesAgree' /\ ThreadsAgree'
  BY <1>1 DEF LifecycleInv, TypeOK, PhasesAgree, ThreadsAgree, Before, Closing, boundary, iworker, rworker
<1>3. ClosedLast'
  BY <1>1 DEF LifecycleInv, ClosedLast, Closing, Stopping, OpenClients, boundary
<1>4. InOrder'
  BY <1>1, OrderUntouched DEF LifecycleInv, boundary, iworker
<1> QED
  BY <1>2, <1>3, <1>4 DEF LifecycleInv

(* The intake thread. *)
LEMMA IntakeThreadKeeps ==
  ASSUME LifecycleInv, IntakeThread
  PROVE  LifecycleInv'
<1>1. queue \in Seq(Events) /\ accepted \in Seq(Events) /\ processed \in Seq(Events)
  BY DEF LifecycleInv, TypeOK
<1>2. ithread \notin {"none", "dead"} /\ intake \in {"RUNNING", "STOPPING"}
  BY DEF IntakeThread, Get, GetTimesOut, CheckAfterTimeout, BecomesCurrent, Processed,
         LifecycleInv, TypeOK, WorkerStates, ThreadsAgree
<1>3. CASE Get
  <2>1. Head(queue) \in Events /\ Tail(queue) \in Seq(Events) /\ Len(Tail(queue)) <= Capacity
    BY <1>1, <1>3, HeadTailProperties, LifecycleAssumption DEF Get, LifecycleInv, TypeOK
  <2>2. TypeOK' /\ PhasesAgree' /\ ThreadsAgree' /\ ClosedLast'
    BY <1>3, <2>1 DEF Get, LifecycleInv, TypeOK, PhasesAgree, ThreadsAgree, ClosedLast,
                OpenClients, rworker
  <2>3. Taken = <<>> /\ Taken' = <<Head(queue)>>
    BY <1>3 DEF Get, Taken
  <2>4. (processed \o <<>>) \o queue = (processed \o <<Head(queue)>>) \o Tail(queue)
    BY <1>1, <1>3, TakeHead DEF Get
  <2>5. InOrder'
    BY <1>2, <1>3, <2>1, <2>3, <2>4 DEF Get, LifecycleInv, InOrder
  <2> QED
    BY <2>2, <2>5 DEF LifecycleInv
<1>4. CASE GetTimesOut \/ CheckAfterTimeout
  <2>1. /\ ithread' \in {"empty", "get", "dead"} /\ (intake = "RUNNING" => ithread' # "dead")
        /\ UNCHANGED <<main, clients, boundary, intake, current, processed, rworker, poisoned>>
    BY <1>4 DEF GetTimesOut, CheckAfterTimeout
  <2>2. TypeOK'
    BY <2>1 DEF LifecycleInv, TypeOK, boundary, rworker
  <2>3. PhasesAgree' /\ ThreadsAgree' /\ ClosedLast'
    BY <1>2, <2>1 DEF LifecycleInv, PhasesAgree, ThreadsAgree, ClosedLast, OpenClients, boundary, rworker
  <2>4. Taken' = Taken /\ ithread' # "got" /\ UNCHANGED <<processed, queue, accepted, intake>>
    BY <1>4 DEF GetTimesOut, CheckAfterTimeout, Taken, boundary
  <2>5. InOrder'
    BY <2>4 DEF LifecycleInv, InOrder
  <2> QED
    BY <2>2, <2>3, <2>5 DEF LifecycleInv
<1>5. CASE BecomesCurrent
  <2>1. current \in Events /\ Taken = <<current>> /\ Taken' = <<>>
    BY <1>5 DEF BecomesCurrent, LifecycleInv, InOrder, Taken
  <2>2. processed' \in Seq(Events)
    <3>1. Append(processed, current) \in Seq(Events)
      BY <1>1, <2>1, AppendProperties
    <3> QED
      BY <1>1, <1>5, <3>1 DEF BecomesCurrent
  <2>3. TypeOK' /\ PhasesAgree' /\ ThreadsAgree' /\ ClosedLast'
    BY <1>2, <1>5, <2>1, <2>2 DEF BecomesCurrent, LifecycleInv, TypeOK, PhasesAgree, ThreadsAgree,
                ClosedLast, OpenClients, boundary, rworker
  <2>4. CASE intake = "RUNNING"
    <3>1. processed' = Append(processed, current) /\ UNCHANGED <<queue, accepted, intake>> /\ ithread' # "got"
      BY <1>5, <2>4 DEF BecomesCurrent, boundary
    <3>2. (processed \o <<current>>) \o queue = (processed' \o <<>>) \o queue
      BY <1>1, <2>1, <3>1, MoveOn
    <3>3. accepted' = (processed' \o Taken') \o queue'
      BY <2>1, <2>4, <3>1, <3>2 DEF LifecycleInv, InOrder
    <3>4. processed' \o <<>> = processed'
      BY <2>2, ConcatEmptySeq
    <3>5. IsPrefix(processed', processed' \o queue)
      BY <1>1, <2>2, PrefixOfConcat
    <3> QED
      BY <2>1, <2>3, <2>4, <3>1, <3>3, <3>4, <3>5 DEF LifecycleInv, InOrder
  <2>5. CASE intake # "RUNNING"
    <3>1. UNCHANGED <<processed, queue, accepted, intake>> /\ ithread' # "got"
      BY <1>5, <2>5 DEF BecomesCurrent, boundary
    <3> QED
      BY <1>2, <2>3, <2>5, <3>1 DEF LifecycleInv, InOrder
  <2> QED
    BY <2>4, <2>5
<1>6. CASE Processed
  <2>1. TypeOK' /\ PhasesAgree' /\ ThreadsAgree' /\ ClosedLast'
    BY <1>2, <1>6 DEF Processed, LifecycleInv, TypeOK, PhasesAgree, ThreadsAgree,
                ClosedLast, OpenClients, boundary, rworker
  <2>2. Taken' = Taken /\ ithread' # "got" /\ UNCHANGED <<processed, queue, accepted, intake>>
    BY <1>6 DEF Processed, Taken, boundary
  <2>3. InOrder'
    BY <2>2 DEF LifecycleInv, InOrder
  <2> QED
    BY <2>1, <2>3 DEF LifecycleInv
<1> QED
  BY <1>3, <1>4, <1>5, <1>6 DEF IntakeThread

(* The resolver thread, and the store that refuses its calls. *)
LEMMA ResolverThreadKeeps ==
  ASSUME LifecycleInv, ResolverThread \/ StorePoisoned
  PROVE  LifecycleInv'
<1> USE DEF LifecycleInv, TypeOK, WorkerStates, PhasesAgree, ThreadsAgree, ClosedLast,
            OpenClients, boundary, iworker, rworker
<1>1. CASE StorePoisoned
  <2>1. InOrder'
    BY <1>1, OrderUntouched DEF StorePoisoned
  <2> QED
    BY <1>1, <2>1 DEF StorePoisoned
<1>2. CASE CheckRunning
  <2>1. InOrder'
    BY <1>2, OrderUntouched DEF CheckRunning
  <2> QED
    BY <1>2, <2>1 DEF CheckRunning
<1>3. CASE ListPending
  <2>1. InOrder'
    BY <1>3, OrderUntouched DEF ListPending
  <2> QED
    BY <1>3, <2>1 DEF ListPending
<1>4. CASE NextPending
  <2>1. InOrder'
    BY <1>4, OrderUntouched DEF NextPending
  <2> QED
    BY <1>4, <2>1 DEF NextPending
<1>5. CASE WaitEnds
  <2>1. InOrder'
    BY <1>5, OrderUntouched DEF WaitEnds
  <2> QED
    BY <1>5, <2>1 DEF WaitEnds
<1>6. ASSUME NEW instance \in Instances, Attempt(instance) PROVE LifecycleInv'
  <2>1. InOrder'
    BY <1>6, OrderUntouched DEF Attempt
  <2> QED
    BY <1>6, <2>1 DEF Attempt
<1> QED
  BY <1>1, <1>2, <1>3, <1>4, <1>5, <1>6 DEF ResolverThread

(* Every step keeps the invariant. *)
LEMMA LifecycleStep == LifecycleInv /\ [Next]_vars => LifecycleInv'
<1> SUFFICES ASSUME LifecycleInv, [Next]_vars PROVE LifecycleInv'
  OBVIOUS
<1>1. CASE UNCHANGED vars
  <2>1. TypeOK' /\ PhasesAgree' /\ ThreadsAgree' /\ ClosedLast'
    BY <1>1 DEF vars, LifecycleInv, TypeOK, PhasesAgree, ThreadsAgree, ClosedLast, OpenClients,
                boundary, iworker, rworker
  <2>2. InOrder'
    BY <1>1, OrderUntouched DEF LifecycleInv, vars, boundary, iworker
  <2> QED
    BY <2>1, <2>2 DEF LifecycleInv
<1>2. ASSUME NEW event \in Events, ClosedBarWebhook(event) PROVE LifecycleInv'
  BY <1>2, WebhookKeeps
<1>3. CASE Lifespan
  BY <1>3, BuildKeeps, StartKeeps, StopKeeps, CloseKeeps DEF Lifespan
<1>4. CASE Shutdown
  BY <1>4, StopKeeps
<1>5. CASE IntakeThread
  BY <1>5, IntakeThreadKeeps
<1>6. CASE ResolverThread \/ StorePoisoned
  BY <1>6, ResolverThreadKeeps
<1> QED
  BY <1>1, <1>2, <1>3, <1>4, <1>5, <1>6 DEF Next, Ended

-----------------------------------------------------------------------------
(* Theorems. *)

(* The invariant of the lifespan, its threads, its clients and its queue   *)
(* holds for ever.                                                         *)
THEOREM LifecycleInvariance == Spec => []LifecycleInv
<1>1. Init => LifecycleInv
  BY LifecycleInitially
<1>2. LifecycleInv /\ [Next]_vars => LifecycleInv'
  BY LifecycleStep
<1> QED
  BY <1>1, <1>2, PTL DEF Spec

(* put_nowait and _run: bars are processed in the order they were          *)
(* accepted, none skipped and none repeated, for every capacity.           *)
THEOREM BarsInOrder == Spec => []AcceptedInOrder
<1>1. LifecycleInv => AcceptedInOrder
  BY DEF LifecycleInv, InOrder, AcceptedInOrder, Taken
<1> QED
  BY <1>1, LifecycleInvariance, PTL

(* _shutdown: the clients are closed after both threads have ended. *)
THEOREM ClosedAfterThreads == Spec => []ClientsOutliveThreads
<1>1. LifecycleInv => ClientsOutliveThreads
  BY DEF LifecycleInv, PhasesAgree, ThreadsAgree, ClosedLast, ClientsOutliveThreads
<1> QED
  BY <1>1, LifecycleInvariance, PTL

(* _run of both workers: a RUNNING intake has its thread; a RUNNING        *)
(* resolver whose thread is dead has a poisoned store, on which listing    *)
(* the pending instances raised outside the try.  Nothing else ends either *)
(* thread.                                                                 *)
THEOREM OnlyPoisonEndsAThread == Spec => []ThreadsAlive
<1>1. LifecycleInv => ThreadsAlive
  BY DEF LifecycleInv, ThreadsAgree, ThreadsAlive
<1> QED
  BY <1>1, LifecycleInvariance, PTL

(* build_application and the lifespan: however the service ended, nothing  *)
(* it built or started is left.                                            *)
THEOREM EndsClean == Spec => []NothingLeftBehind
<1>1. LifecycleInv => NothingLeftBehind
  BY DEF LifecycleInv, PhasesAgree, ThreadsAgree, ClosedLast, Closing, Stopping, NothingLeftBehind
<1> QED
  BY <1>1, LifecycleInvariance, PTL

(* stop_once: no event becomes current after the worker left RUNNING. *)
THEOREM StopIsAtomic == Spec => NoneCurrentAfterStop
<1>1. [Next]_vars => [intake # "RUNNING" => processed' = processed]_vars
  BY DEF Next, vars, ClosedBarWebhook, PutNowait, Lifespan, BuildClient, Assemble, RollBack, StartIntake,
         StartResolver, StopAccepting, StopIntake, JoinIntake, StopResolver, JoinResolver, CloseNext,
         Shutdown, IntakeThread, Get, GetTimesOut, CheckAfterTimeout, BecomesCurrent, Processed,
         ResolverThread, CheckRunning, ListPending, NextPending, WaitEnds, Attempt, StorePoisoned, Ended,
         iworker
<1> QED
  BY <1>1, PTL DEF Spec, NoneCurrentAfterStop
=============================================================================
