------------------------------ MODULE BarFanOut ------------------------------
(***************************************************************************)
(* CommittedBarOrchestrator.process with the catalog it reads and the      *)
(* locks it takes.  The bar thread lists the deployment files, reads them  *)
(* one by one, selects the enabled deployments of the bar's stream and     *)
(* processes them in ascending order, each under its instance's lock.      *)
(* Meanwhile people edit the files, operators' commands take the same      *)
(* locks with a timeout, and ABI webhooks and the resolver without one.    *)
(*                                                                         *)
(* A file is absent, a deployment, "invalid" (whatever the catalog reports *)
(* as that file's error), or "raising": text that is not UTF-8, or a value *)
(* the identity's canonical JSON cannot carry.                             *)
(***************************************************************************)
EXTENDS KeyedMutex, Sequences, Functions

CONSTANTS
  Names,      \* file names
  Streams,    \* instrument and timeframe
  StreamOf(_),\* the stream of an identity, which is derived from it
  Operators,  \* threads of operators' commands
  Bar,        \* the intake worker's thread
  MaxAsks,    \* bound: other threads ask for a lock this often
  MaxEdits    \* bound: changes of files

ASSUME FanOutAssumption ==
  /\ Names \subseteq Nat /\ Keys \subseteq Nat
  /\ \A k \in Keys : StreamOf(k) \in Streams
  /\ Bar \in Threads /\ Operators \subseteq Threads \ {Bar}
  /\ MaxAsks \in Nat /\ MaxEdits \in Nat

VARIABLES
  files,     \* the content of a name
  pc,        \* the point the bar thread has reached
  stream,    \* of its event
  unread,    \* names it has listed and not read
  read,      \* accepted_candidates
  queue,     \* selected identities it has not processed
  outcomes,
  asks,
  edits,
  enabled,   \* history: identities some file enabled at some time of this bar
  selected   \* history: the identities selected for this bar

catalog == <<files, edits, enabled>>
bar == <<pc, stream, unread, read, queue, outcomes, selected>>
vars == <<mutex, catalog, bar, asks>>

Deployments == [kind : {"deployment"}, id : Keys, enabled : BOOLEAN]
Contents ==
  Deployments \cup [kind : {"absent", "invalid", "raising"}, id : {None}, enabled : {FALSE}]

EnabledIn(f) == {f[n].id : n \in {m \in Names : f[m].enabled}}

Points == {"idle", "reading", "dispatching", "processing", "unprepared"}

TypeOK ==
  /\ MutexTypeOK
  /\ files \in [Names -> Contents]
  /\ pc \in Points
  /\ stream \in Streams \cup {None}
  /\ unread \subseteq Names
  /\ read \in Seq(Deployments)
  /\ queue \in Seq(Keys)
  /\ outcomes \in Seq([id : Keys, status : {"succeeded", "failed"}])
  /\ asks \in 0 .. MaxAsks /\ edits \in 0 .. MaxEdits
  /\ enabled \subseteq Keys /\ selected \subseteq Keys
  /\ held[Bar].point # "out" <=> pc = "processing"

Init ==
  /\ MutexInit
  /\ files \in [Names -> Contents]
  /\ pc = "idle" /\ stream = None
  /\ unread = {} /\ read = <<>> /\ queue = <<>> /\ outcomes = <<>>
  /\ asks = 0 /\ edits = 0
  /\ enabled = EnabledIn(files) /\ selected = {}

-----------------------------------------------------------------------------
(* The catalog. *)

(* The identities that exactly one of the deployments read has. *)
Unique(deployments) ==
  {d \in Range(deployments) :
     Cardinality({i \in DOMAIN deployments : deployments[i].id = d.id}) = 1}

(* Faulty variant: a disabled deployment is selected as well. *)
SelectDisabledToo(event, deployments) ==
  {d.id : d \in {e \in Unique(deployments) : StreamOf(e.id) = event}}

(* CommittedBarDeploymentSelector.select *)
Select(event, deployments) ==
  {d.id : d \in {e \in Unique(deployments) : e.enabled /\ StreamOf(e.id) = event}}

(* sorted by strategy_instance_id: the order in which they are processed. *)
Ascending(ids) ==
  CHOOSE s \in [1 .. Cardinality(ids) -> ids] : \A i, j \in DOMAIN s : i < j => s[i] < s[j]

(* A snapshot taken at one moment, for an operator's command; {} when      *)
(* load_snapshot raises.                                                   *)
Accepted(f) ==
  IF \E n \in Names : f[n].kind = "raising" THEN {}
  ELSE {f[n].id : n \in {m \in Names :
          f[m].kind = "deployment" /\ \A o \in Names : f[o].id = f[m].id => o = m}}

-----------------------------------------------------------------------------
(* The bar thread. *)

(* orchestration_started; _enumerate_candidates.  The directory cannot be  *)
(* listed: CommittedBarPreparationError.                                   *)
BarStarts(event) ==
  /\ pc = "idle"
  /\ stream' = event
  /\ enabled' = EnabledIn(files)
  /\ selected' = {} /\ read' = <<>> /\ queue' = <<>> /\ outcomes' = <<>>
  /\ \/ pc' = "reading" /\ unread' = {n \in Names : files[n].kind # "absent"}
     \/ pc' = "idle" /\ unread' = {}
  /\ UNCHANGED <<mutex, files, edits, asks>>

NextName(names) == CHOOSE n \in names : \A m \in names : n <= m

(* _read_document and _parse_deployment of the next name.  A file that is  *)
(* gone by now is reported like any other invalid file.                    *)
BarReads ==
  LET name == NextName(unread)
      content == files[name]
  IN
  /\ pc = "reading"
  /\ unread # {}
  /\ content.kind # "raising"
  /\ unread' = unread \ {name}
  /\ read' = IF content.kind = "deployment" THEN Append(read, content) ELSE read
  /\ UNCHANGED <<mutex, catalog, pc, stream, queue, outcomes, selected, asks>>

(* Faulty variant: the scan is tried again. *)
BarScansAgain ==
  /\ pc = "reading"
  /\ unread # {}
  /\ files[NextName(unread)].kind = "raising"
  /\ unread' = {n \in Names : files[n].kind # "absent"} /\ read' = <<>>
  /\ UNCHANGED <<mutex, catalog, pc, stream, queue, outcomes, selected, asks>>

(* An exception that is no _InvalidDeployment ends load_snapshot, and      *)
(* _prepare ends the bar.                                                  *)
BarRaises ==
  /\ pc = "reading"
  /\ unread # {}
  /\ files[NextName(unread)].kind = "raising"
  /\ pc' = "unprepared"
  /\ UNCHANGED <<mutex, catalog, stream, unread, read, queue, outcomes, selected, asks>>

BarSelects ==
  /\ pc = "reading"
  /\ unread = {}
  /\ selected' = Select(stream, read)
  /\ queue' = Ascending(selected')
  /\ pc' = "dispatching"
  /\ UNCHANGED <<mutex, catalog, stream, unread, read, outcomes, asks>>

BarAsks ==
  /\ pc = "dispatching"
  /\ queue # <<>>
  /\ LookUp(Bar, Head(queue))
  /\ pc' = "processing"
  /\ UNCHANGED <<catalog, stream, unread, read, queue, outcomes, selected, asks>>

BarEnters ==
  /\ Acquire(Bar)
  /\ UNCHANGED <<catalog, bar, asks>>

(* Faulty variant: the first failed unit ends the bar. *)
BarProcessedOrAborts(raised) ==
  /\ Release(Bar, raised)
  /\ outcomes' = Append(outcomes, [id |-> Head(queue),
                                   status |-> IF raised THEN "failed" ELSE "succeeded"])
  /\ queue' = IF raised THEN <<>> ELSE Tail(queue)
  /\ pc' = "dispatching"
  /\ UNCHANGED <<catalog, stream, unread, read, selected, asks>>

(* dispatch returned or raised; strategy_cycle_outcome. *)
BarProcessed(raised) ==
  /\ Release(Bar, raised)
  /\ outcomes' = Append(outcomes, [id |-> Head(queue),
                                   status |-> IF raised THEN "failed" ELSE "succeeded"])
  /\ queue' = Tail(queue)
  /\ pc' = "dispatching"
  /\ UNCHANGED <<catalog, stream, unread, read, selected, asks>>

(* orchestration_completed, or the error is handled by the worker: both    *)
(* end with the next event.                                                *)
BarEnds ==
  /\ pc = "unprepared" \/ (pc = "dispatching" /\ queue = <<>>)
  /\ pc' = "idle"
  /\ unread' = {}
  /\ UNCHANGED <<mutex, catalog, stream, read, queue, outcomes, selected, asks>>

BarSteps ==
  \/ BarReads \/ BarRaises \/ BarSelects \/ BarAsks \/ BarEnters
  \/ \E raised \in BOOLEAN : BarProcessed(raised)
  \/ BarEnds

-----------------------------------------------------------------------------
(* The other threads. *)

Others == Threads \ {Bar}

(* An operator's command asks the catalog before the registry; a first     *)
(* fill or the resolver uses the identity it has.                          *)
Asks(t, key) ==
  /\ t \in Others
  /\ asks < MaxAsks
  /\ t \in Operators => key \in Accepted(files)
  /\ LookUp(t, key)
  /\ asks' = asks + 1
  /\ UNCHANGED <<catalog, bar>>

Enters(t) == t \in Others /\ Acquire(t) /\ UNCHANGED <<catalog, bar, asks>>

(* Faulty variant: a command waits without a timeout. *)
WaitsOn(t) == t \in Operators /\ FALSE /\ UNCHANGED vars

GivesUp(t) == t \in Operators /\ Busy(t) /\ UNCHANGED <<catalog, bar, asks>>

(* Its work under the lock, which may raise.  Enabling, disabling and      *)
(* deleting change the file as an editor would: Edits.                     *)
Leaves(t) ==
  /\ t \in Others
  /\ \E raised \in BOOLEAN : Release(t, raised)
  /\ UNCHANGED <<catalog, bar, asks>>

(* People, Research and the operators' commands (external). *)
Edits(name, content) ==
  /\ edits < MaxEdits
  /\ content # files[name]
  /\ files' = [files EXCEPT ![name] = content]
  /\ enabled' = enabled \cup EnabledIn(files')
  /\ edits' = edits + 1
  /\ UNCHANGED <<mutex, bar, asks>>

Next ==
  \/ \E event \in Streams : BarStarts(event)
  \/ BarSteps
  \/ \E t \in Others : Enters(t) \/ GivesUp(t) \/ Leaves(t) \/ \E k \in Keys : Asks(t, k)
  \/ \E name \in Names, content \in Contents : Edits(name, content)

(* Every thread runs on; a lock that is free and asked for is acquired;    *)
(* an operator's timeout expires.                                          *)
Fairness ==
  /\ WF_vars(BarSteps)
  /\ \A t \in Others : WF_vars(Enters(t) \/ GivesUp(t)) /\ WF_vars(Leaves(t))

Spec == Init /\ [][Next]_vars

LiveSpec == Spec /\ Fairness

-----------------------------------------------------------------------------
(* Properties. *)

(* Fan-out: the units attempted so far and those still queued are the      *)
(* selected identities, each once, in ascending order; a unit that fails   *)
(* takes no other unit with it.                                            *)
EveryoneAttempted ==
  pc \in {"dispatching", "processing"} =>
    [i \in DOMAIN outcomes |-> outcomes[i].id] \o queue = Ascending(selected)

(* The bar thread is inside the critical section of a strategy only if a   *)
(* file enabled that strategy at some time since the bar began, and it     *)
(* belongs to the bar's stream: a scan torn by edits never dispatches a    *)
(* deployment nobody made.                                                 *)
OnlyDeployedProcessed ==
  pc = "processing" => held[Bar].key \in enabled /\ StreamOf(held[Bar].key) = stream

(* A bar ends, whatever raises and whoever else wants its locks.           *)
BarCompletes == (pc # "idle") ~> (pc = "idle")

(* An operator's command is let in or told the instance is busy; it does   *)
(* not wait for ever.                                                      *)
OperatorAnswered ==
  \A t \in Operators : (held[t].point # "out") ~> (held[t].point = "out")
=============================================================================
