----------------------------- MODULE KeyedMutex -----------------------------
(***************************************************************************)
(* StrategyInstanceKeyedMutexRegistry: one non-reentrant lock object per   *)
(* strategy instance, created under the registry's guard when a key is     *)
(* first asked for and kept for ever.                                      *)
(*                                                                         *)
(* hold has two steps another thread can come between: the look-up, which  *)
(* leaves the thread with a reference to a lock object, and the            *)
(* acquisition of that object.                                             *)
(***************************************************************************)
EXTENDS Naturals, FiniteSets

CONSTANTS
  Threads,
  Keys,      \* strategy instance ids
  Locks,     \* lock objects
  None

ASSUME KeyedMutexAssumption == None \notin Keys \cup Locks \cup Threads

VARIABLES
  registry,  \* _locks: the lock object of a key, or None
  owner,     \* the thread that holds a lock object, or None
  held       \* per thread, its call of hold

mutex == <<registry, owner, held>>

NotHolding == [point |-> "out", key |-> None, lock |-> None]

(* "waiting": it has the lock object and tries to acquire it; "inside": it *)
(* runs the body of the with statement.                                    *)
Holds ==
  [point : {"out", "waiting", "inside"}, key : Keys \cup {None}, lock : Locks \cup {None}]

MutexTypeOK ==
  /\ registry \in [Keys -> Locks \cup {None}]
  /\ owner \in [Locks -> Threads \cup {None}]
  /\ held \in [Threads -> Holds]

MutexInit ==
  /\ registry = [k \in Keys |-> None]
  /\ owner = [l \in Locks |-> None]
  /\ held = [t \in Threads |-> NotHolding]

(* A lock object nobody has a reference to. *)
Fresh(lock) ==
  /\ \A k \in Keys : registry[k] # lock
  /\ \A t \in Threads : held[t].lock # lock
  /\ owner[lock] = None

(* Faulty variant: a key whose lock nobody holds gets a new lock object. *)
LookUpReplacing(t, key) ==
  \E lock \in Locks :
    /\ held[t].point = "out"
    /\ IF registry[key] = None THEN Fresh(lock)
       ELSE IF owner[registry[key]] = None THEN Fresh(lock) ELSE lock = registry[key]
    /\ registry' = [registry EXCEPT ![key] = lock]
    /\ held' = [held EXCEPT ![t] = [point |-> "waiting", key |-> key, lock |-> lock]]
    /\ UNCHANGED owner

(* setdefault under the guard: the key's lock object, or a new one. *)
LookUp(t, key) ==
  \E lock \in Locks :
    /\ held[t].point = "out"
    /\ IF registry[key] = None THEN Fresh(lock) ELSE lock = registry[key]
    /\ registry' = [registry EXCEPT ![key] = lock]
    /\ held' = [held EXCEPT ![t] = [point |-> "waiting", key |-> key, lock |-> lock]]
    /\ UNCHANGED owner

Acquire(t) ==
  /\ held[t].point = "waiting"
  /\ owner[held[t].lock] = None
  /\ owner' = [owner EXCEPT ![held[t].lock] = t]
  /\ held' = [held EXCEPT ![t].point = "inside"]
  /\ UNCHANGED registry

(* acquire(timeout=...) gives up: StrategyInstanceBusy. *)
Busy(t) ==
  /\ held[t].point = "waiting"
  /\ owner[held[t].lock] # None
  /\ held' = [held EXCEPT ![t] = NotHolding]
  /\ UNCHANGED <<registry, owner>>

(* The body ended, with or without an exception. *)
Release(t, raised) ==
  /\ held[t].point = "inside"
  /\ owner' = [owner EXCEPT ![held[t].lock] = None]
  /\ held' = [held EXCEPT ![t] = NotHolding]
  /\ UNCHANGED registry

-----------------------------------------------------------------------------
(* Two threads are never inside the critical section of one strategy       *)
(* instance, even when both were the first to ask for its key.             *)
MutualExclusion ==
  \A t, u \in Threads :
    t # u /\ held[t].point = "inside" /\ held[u].point = "inside" =>
      held[t].key # held[u].key
=============================================================================
