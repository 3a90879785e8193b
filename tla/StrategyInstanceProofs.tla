----------------------- MODULE StrategyInstanceProofs -----------------------
(***************************************************************************)
(* Proofs about StrategyInstance: type correctness, and that no order or   *)
(* position is ever orphaned, for every set of trade cycles, protections   *)
(* and bars.                                                               *)
(***************************************************************************)
EXTENDS StrategyInstance, TLAPS

-----------------------------------------------------------------------------
(* The next values of the aggregate: their type, what they track, and that *)
(* they are well formed.                                                   *)

(* Setting or clearing the entry marker yields an aggregate. *)
LEMMA MarkEntryType ==
  ASSUME NEW s \in States, NEW id \in TradeCycleIds
  PROVE  MarkEntry(s, id) \in States /\ ClearEntryMarker(s) \in States
BY DEF MarkEntry, ClearEntryMarker, States

(* Setting the close marker of a current cycle yields an aggregate. *)
LEMMA MarkCloseType ==
  ASSUME NEW s \in States, s.current_trade_cycle # None
  PROVE  MarkClose(s) \in States
BY DEF MarkClose, States, Cycles

(* Adopting a confirmed or recovered entry yields an aggregate. *)
LEMMA WithCycleType ==
  ASSUME NEW s \in States, NEW id \in TradeCycleIds, NEW entry \in DesiredEntries
  PROVE  WithCycle(s, id, entry) \in States
<1>1. NewCycle(id, entry) \in Cycles
  BY DEF NewCycle, Cycles
<1> QED
  BY <1>1 DEF WithCycle, States

(* Dropping a cycle, with or without its marker, yields an aggregate. *)
LEMMA WithoutType ==
  ASSUME NEW s \in States
  PROVE  /\ WithoutEntry(s) \in States
         /\ WithoutPosition(s) \in States
         /\ WithoutCycle(s) \in States
BY DEF WithoutEntry, WithoutPosition, WithoutCycle, States

(* A confirmed protection or remainder of a current cycle yields an        *)
(* aggregate with the same identity and markers.                           *)
LEMMA WithFactType ==
  ASSUME NEW s \in States, s.current_trade_cycle # None, NEW p \in Protections \cup {None}
  PROVE  /\ WithProtection(s, p) \in States
         /\ WithProtection(s, p).current_trade_cycle # None
         /\ Agrees(WithProtection(s, p), s)
         /\ WithRemainderCancelled(s) \in States
         /\ WithRemainderCancelled(s).current_trade_cycle # None
         /\ Agrees(WithRemainderCancelled(s), s)
<1>1. s.current_trade_cycle \in Cycles
  BY DEF States
<1>2. [s.current_trade_cycle EXCEPT !.confirmed_protection = p] \in Cycles
  BY <1>1 DEF Cycles
<1>3. [s.current_trade_cycle EXCEPT !.entry_remainder_cancelled = TRUE] \in Cycles
  BY <1>1 DEF Cycles
<1>4. /\ WithProtection(s, p) \in States
      /\ WithProtection(s, p).current_trade_cycle # None
      /\ Agrees(WithProtection(s, p), s)
  BY <1>1, <1>2, NoneAssumption DEF WithProtection, States, Agrees, Cycles
<1>5. /\ WithRemainderCancelled(s) \in States
      /\ WithRemainderCancelled(s).current_trade_cycle # None
      /\ Agrees(WithRemainderCancelled(s), s)
  BY <1>1, <1>3, NoneAssumption DEF WithRemainderCancelled, States, Agrees, Cycles
<1> QED
  BY <1>4, <1>5

(* Freezing a first fill yields an aggregate with the same identity and    *)
(* markers.                                                                *)
LEMMA FirstFillType ==
  ASSUME NEW s \in States, s.current_trade_cycle # None, NEW fill \in Nat
  PROVE  /\ apply_first_fill(s, fill) \in States
         /\ apply_first_fill(s, fill).current_trade_cycle # None
         /\ Agrees(apply_first_fill(s, fill), s)
<1>1. s.current_trade_cycle \in Cycles
  BY DEF States
<1>2. PICK entry \in DesiredEntries : s.current_trade_cycle.desired_entry = entry
  BY <1>1 DEF Cycles
<1>3. entry_order_expiration(entry.source_plan_bar) \in Nat
  BY ConstantsAssumption DEF entry_order_expiration, DesiredEntries
<1>4. FrozenContext(entry, fill) \in FrozenContexts
  BY <1>3 DEF FrozenContext, FrozenContexts
<1>5. [s.current_trade_cycle EXCEPT !.frozen_entry_context = FrozenContext(entry, fill)]
        \in Cycles
  BY <1>1, <1>4 DEF Cycles
<1> QED
  BY <1>1, <1>2, <1>5, NoneAssumption DEF apply_first_fill, States, Agrees, Cycles

(* Aggregates that agree track the same cycles and are alike well formed.  *)
LEMMA AgreesFacts ==
  ASSUME NEW s \in States, NEW r \in States, Agrees(s, r)
  PROVE  /\ Tracked(s) = Tracked(r)
         /\ WellFormed(s) <=> WellFormed(r)
         /\ HasMarker(s) <=> HasMarker(r)
BY DEF Agrees, Tracked, WellFormed, HasMarker, States, Cycles

(* Agreement composes. *)
LEMMA AgreesTransitive ==
  ASSUME NEW s \in States, NEW r \in States, NEW q \in States, Agrees(s, r), Agrees(r, q)
  PROVE  Agrees(s, q)
BY DEF Agrees

-----------------------------------------------------------------------------
(* The invariant across a step. *)

(* A thread outside its handler needs nothing. *)
LEMMA OutsideOK ==
  ASSUME NEW t, NEW p \in {"idle", "selected", "exit", "closed", "ended", "op_ended", "op_write"},
         NEW s, NEW th, NEW c, NEW r, NEW a, NEW l
  PROVE  ThreadOK(t, p, s, th, c, r, a, l)
BY DEF ThreadOK, PointOK, AtWork

(* A step of one thread, which holds the mutex or takes it, needs to be    *)
(* looked at for that thread only.                                         *)
LEMMA OneThreadStep ==
  ASSUME InductiveInvariant,
         NEW t \in Threads,
         owner = t \/ owner = None,
         owner' = t \/ (owner' = None /\ pc'[t] = "idle"),
         \A u \in Threads \ {t} : pc'[u] = pc[u],
         TypeOK',
         ExchangeOK(abi'),
         WellFormed(store'),
         ExposedIn(abi', late') \subseteq Tracked(store'),
         ThreadOK(t, pc'[t], st'[t], then'[t], ctx'[t], store', abi', late')
  PROVE  InductiveInvariant'
<1>1. \A u \in Threads \ {t} : pc[u] \in {"idle", "selected"}
  BY ThreadsAssumption DEF InductiveInvariant, MutexOK
<1>2. MutexOK'
  BY <1>1 DEF MutexOK
<1>3. ASSUME NEW u \in Threads
      PROVE  ThreadOK(u, pc'[u], st'[u], then'[u], ctx'[u], store', abi', late')
  <2>1. CASE u = t
    BY <2>1
  <2>2. CASE u # t
    BY <1>1, <2>2, OutsideOK
  <2> QED
    BY <2>1, <2>2
<1> QED
  BY <1>2, <1>3 DEF InductiveInvariant

(* A step outside the handlers needs only not to expose anything new. *)
LEMMA OutsideStep ==
  ASSUME InductiveInvariant,
         UNCHANGED <<store, owner, pc, st, then, ctx>>,
         TypeOK',
         ExchangeOK(abi'),
         ExposedIn(abi', late') \subseteq ExposedIn(abi, late),
         \A id \in TradeCycleIds : FreshIn(id, abi, late) => FreshIn(id, abi', late')
  PROVE  InductiveInvariant'
<1>1. ASSUME NEW t \in Threads
      PROVE  ThreadOK(t, pc[t], st[t], then[t], ctx[t], store, abi', late')
  <2>1. ThreadOK(t, pc[t], st[t], then[t], ctx[t], store, abi, late)
    BY DEF InductiveInvariant
  <2>2. st[t] \in States
    BY DEF InductiveInvariant, TypeOK
  <2>3. ASSUME NEW p, PointOK(t, p, st[t], ctx[t], abi, late)
        PROVE  PointOK(t, p, st[t], ctx[t], abi', late')
    BY <2>2, <2>3 DEF PointOK, States
  <2> QED
    BY <2>1, <2>3 DEF ThreadOK
<1> QED
  BY <1>1 DEF InductiveInvariant, MutexOK

(* A thread inside its handler holds the mutex. *)
LEMMA InHandler ==
  ASSUME InductiveInvariant, NEW t \in Threads, pc[t] \notin {"idle", "selected"}
  PROVE  /\ owner = t
         /\ st[t] \in States
         /\ store \in States
         /\ ctx[t] \in Contexts
         /\ ThreadOK(t, pc[t], st[t], then[t], ctx[t], store, abi, late)
BY DEF InductiveInvariant, MutexOK, TypeOK

(* A thread at work relies on a state that agrees with the store. *)
LEMMA AtWorkFacts ==
  ASSUME InductiveInvariant, NEW t \in Threads, pc[t] \in AtWork
  PROVE  /\ owner = t
         /\ st[t] \in States
         /\ store \in States
         /\ ctx[t] \in Contexts
         /\ Agrees(st[t], store)
         /\ PointOK(t, pc[t], st[t], ctx[t], abi, late)
         /\ WellFormed(st[t])
         /\ Tracked(st[t]) = Tracked(store)
         /\ ExposedIn(abi, late) \subseteq Tracked(st[t])
<1>1. /\ owner = t
      /\ st[t] \in States
      /\ store \in States
      /\ ctx[t] \in Contexts
      /\ ThreadOK(t, pc[t], st[t], then[t], ctx[t], store, abi, late)
  BY InHandler DEF AtWork
<1>2. Agrees(st[t], store) /\ PointOK(t, pc[t], st[t], ctx[t], abi, late)
  BY <1>1 DEF ThreadOK, AtWork
<1>3. WellFormed(st[t]) /\ Tracked(st[t]) = Tracked(store)
  BY <1>1, <1>2, AgreesFacts DEF InductiveInvariant
<1> QED
  BY <1>1, <1>2, <1>3 DEF InductiveInvariant

(* A step to the save of s. *)
LEMMA SaveThenStep ==
  ASSUME InductiveInvariant,
         NEW t \in Threads, NEW s \in States, NEW c \in Continuations,
         owner = t \/ owner = None, owner' = t,
         SaveThen(t, s, c),
         UNCHANGED <<store, poisoned, clock, journal>>,
         file' \in {"enabled", "disabled", "absent"},
         ctx' \in [Threads -> Contexts],
         abi' \in [TradeCycleIds -> AbiCycles],
         late' \in SUBSET Creates,
         ExchangeOK(abi'),
         WellFormed(s),
         ExposedIn(abi', late') \subseteq Tracked(s),
         ExposedIn(abi', late') \subseteq Tracked(store),
         PointOK(t, c, s, ctx'[t], abi', late'),
         c = "engine_open" => Agrees(s, store)
  PROVE  InductiveInvariant'
<1>1. TypeOK
  BY DEF InductiveInvariant
<1>2. /\ pc'[t] = "save" /\ st'[t] = s /\ then'[t] = c
      /\ \A u \in Threads \ {t} : pc'[u] = pc[u]
  BY <1>1 DEF SaveThen, Goto, TypeOK
<1>3. TypeOK'
  BY <1>1 DEF SaveThen, Goto, TypeOK, Points
<1>4. ThreadOK(t, pc'[t], st'[t], then'[t], ctx'[t], store', abi', late')
  BY <1>2 DEF ThreadOK, AtWork
<1> QED
  BY <1>2, <1>3, <1>4, OneThreadStep DEF InductiveInvariant

(* A step to the save of s that touches nothing else. *)
LEMMA QuietSaveThenStep ==
  ASSUME InductiveInvariant,
         NEW t \in Threads, NEW s \in States, NEW c \in Continuations,
         owner = t \/ owner = None, owner' = t,
         SaveThen(t, s, c),
         UNCHANGED <<store, poisoned, file, abi, late, clock, journal>>,
         ctx' \in [Threads -> Contexts],
         WellFormed(s),
         ExposedIn(abi, late) \subseteq Tracked(s),
         PointOK(t, c, s, ctx'[t], abi, late),
         c = "engine_open" => Agrees(s, store)
  PROVE  InductiveInvariant'
<1>1. /\ file \in {"enabled", "disabled", "absent"}
      /\ abi \in [TradeCycleIds -> AbiCycles]
      /\ late \in SUBSET Creates
      /\ ExchangeOK(abi)
      /\ ExposedIn(abi, late) \subseteq Tracked(store)
  BY DEF InductiveInvariant, TypeOK
<1> QED
  BY <1>1, SaveThenStep

(* A step to a point other than a save, the store left as it is. *)
LEMMA GotoStep ==
  ASSUME InductiveInvariant,
         NEW t \in Threads, NEW p \in Points \ {"save"},
         owner = t \/ owner = None, owner' = t,
         Goto(t, p),
         UNCHANGED <<store, poisoned, then, clock>>,
         st' \in [Threads -> States],
         ctx' \in [Threads -> Contexts],
         file' \in {"enabled", "disabled", "absent"},
         journal' \in [TradeCycleIds -> [Kinds -> 0 .. 2]],
         abi' \in [TradeCycleIds -> AbiCycles],
         late' \in SUBSET Creates,
         ExchangeOK(abi'),
         ExposedIn(abi', late') \subseteq Tracked(store),
         p \in AtWork => Agrees(st'[t], store),
         PointOK(t, p, st'[t], ctx'[t], abi', late')
  PROVE  InductiveInvariant'
<1>1. TypeOK
  BY DEF InductiveInvariant
<1>2. /\ pc'[t] = p
      /\ \A u \in Threads \ {t} : pc'[u] = pc[u]
  BY <1>1 DEF Goto, TypeOK
<1>3. TypeOK'
  BY <1>1 DEF Goto, TypeOK
<1>4. ThreadOK(t, pc'[t], st'[t], then'[t], ctx'[t], store', abi', late')
  BY <1>2 DEF ThreadOK
<1> QED
  BY <1>2, <1>3, <1>4, OneThreadStep DEF InductiveInvariant

(* A step to a point other than a save that touches nothing else but what  *)
(* the thread knows.                                                       *)
LEMMA QuietGotoStep ==
  ASSUME InductiveInvariant,
         NEW t \in Threads, NEW p \in Points \ {"save"},
         owner = t \/ owner = None, owner' = t,
         Goto(t, p),
         UNCHANGED <<store, poisoned, file, then, abi, late, clock, journal>>,
         st' \in [Threads -> States],
         ctx' \in [Threads -> Contexts],
         p \in AtWork => Agrees(st'[t], store),
         PointOK(t, p, st'[t], ctx'[t], abi, late)
  PROVE  InductiveInvariant'
<1>1. /\ file \in {"enabled", "disabled", "absent"}
      /\ journal \in [TradeCycleIds -> [Kinds -> 0 .. 2]]
      /\ abi \in [TradeCycleIds -> AbiCycles]
      /\ late \in SUBSET Creates
      /\ ExchangeOK(abi)
      /\ ExposedIn(abi, late) \subseteq Tracked(store)
  BY DEF InductiveInvariant, TypeOK
<1> QED
  BY <1>1, GotoStep

-----------------------------------------------------------------------------
(* Steps every handler may take. *)

(* A point a thread goes on to after saving s agrees with the new store. *)
LEMMA SaveStep ==
  ASSUME InductiveInvariant, NEW t \in Threads, Save(t)
  PROVE  InductiveInvariant'
<1>1. pc[t] = "save"
  BY DEF Save
<1>2. /\ owner = t
      /\ st[t] \in States
      /\ ThreadOK(t, "save", st[t], then[t], ctx[t], store, abi, late)
  BY <1>1, InHandler
<1>3. /\ WellFormed(st[t])
      /\ ExposedIn(abi, late) \subseteq Tracked(st[t])
      /\ PointOK(t, then[t], st[t], ctx[t], abi, late)
  BY <1>2 DEF ThreadOK
<1>4. then[t] \in Points \ {"save"} /\ TypeOK
  BY DEF InductiveInvariant, TypeOK, Points, Continuations
<1>5. TypeOK'
  BY <1>2, <1>4 DEF Save, Goto, TypeOK
<1>6. pc'[t] = then[t] /\ \A u \in Threads \ {t} : pc'[u] = pc[u]
  BY <1>4 DEF Save, Goto, TypeOK
<1>7. ThreadOK(t, pc'[t], st'[t], then'[t], ctx'[t], store', abi', late')
  BY <1>2, <1>3, <1>4, <1>6 DEF Save, ThreadOK, Agrees
<1>8. UNCHANGED <<owner, abi, late>> /\ store' = st[t]
  BY DEF Save
<1> QED
  BY <1>2, <1>3, <1>5, <1>6, <1>7, <1>8, OneThreadStep DEF InductiveInvariant

(* A failed write: whichever record is on disk, it answers for everything  *)
(* exposed; a handler that goes on, goes on with the old state, which      *)
(* agrees with both.                                                       *)
LEMMA SaveFailsStep ==
  ASSUME InductiveInvariant, NEW t \in Threads, SaveFails(t)
  PROVE  InductiveInvariant'
<1>1. pc[t] = "save"
  BY DEF SaveFails
<1>2. /\ owner = t
      /\ st[t] \in States /\ store \in States
      /\ ThreadOK(t, "save", st[t], then[t], ctx[t], store, abi, late)
  BY <1>1, InHandler
<1>3. /\ WellFormed(st[t])
      /\ ExposedIn(abi, late) \subseteq Tracked(st[t])
      /\ PointOK(t, then[t], st[t], ctx[t], abi, late)
      /\ then[t] = "engine_open" => Agrees(st[t], store)
  BY <1>2 DEF ThreadOK
<1>4. /\ TypeOK
      /\ WellFormed(store)
      /\ ExposedIn(abi, late) \subseteq Tracked(store)
      /\ ExchangeOK(abi)
  BY DEF InductiveInvariant
<1>5. store' \in {store, st[t]} /\ UNCHANGED <<owner, then, ctx, abi, late>>
  BY DEF SaveFails
<1>6. TypeOK'
  BY <1>2, <1>4, <1>5 DEF SaveFails, Goto, TypeOK, Points
<1>7. \A u \in Threads \ {t} : pc'[u] = pc[u]
  BY <1>4 DEF SaveFails, Goto, TypeOK
<1>8. ThreadOK(t, pc'[t], st'[t], then'[t], ctx'[t], store', abi', late')
  <2>1. CASE then[t] = "engine_open"
    <3>1. pc'[t] = "engine_open" /\ st'[t] = store
      BY <1>4, <2>1 DEF SaveFails, Goto, TypeOK
    <3>2. Agrees(store, store')
      BY <1>2, <1>3, <1>5, <2>1 DEF Agrees
    <3>3. PointOK(t, "engine_open", store, ctx[t], abi, late)
      BY <1>2, <1>3, <2>1, AgreesFacts DEF PointOK, Agrees
    <3> QED
      BY <1>5, <3>1, <3>2, <3>3 DEF ThreadOK
  <2>2. CASE then[t] # "engine_open"
    <3>1. pc'[t] = "exit"
      BY <1>4, <2>2 DEF SaveFails, Goto, TypeOK
    <3> QED
      BY <3>1, OutsideOK
  <2> QED
    BY <2>1, <2>2
<1>9. WellFormed(store') /\ ExposedIn(abi', late') \subseteq Tracked(store') /\ ExchangeOK(abi')
  BY <1>3, <1>4, <1>5
<1> QED
  BY <1>2, <1>5, <1>6, <1>7, <1>8, <1>9, OneThreadStep

(* The mutex is released by a thread that relies on nothing any more. *)
LEMMA ReleaseStep ==
  ASSUME InductiveInvariant, NEW t \in Threads, Release(t)
  PROVE  InductiveInvariant'
<1>1. owner = t
  BY InHandler DEF Release
<1>2. TypeOK
  BY DEF InductiveInvariant
<1>3. InitialState \in States /\ NoContext \in Contexts
  BY DEF InitialState, States, NoContext, Contexts
<1>4. TypeOK'
  BY <1>2, <1>3 DEF Release, Goto, TypeOK, Points, Continuations
<1>5. pc'[t] = "idle" /\ \A u \in Threads \ {t} : pc'[u] = pc[u]
  BY <1>2 DEF Release, Goto, TypeOK
<1>6. ThreadOK(t, pc'[t], st'[t], then'[t], ctx'[t], store', abi', late')
  BY <1>5, OutsideOK
<1>7. owner' = None /\ UNCHANGED <<store, abi, late>>
  BY DEF Release
<1> QED
  BY <1>1, <1>4, <1>5, <1>6, <1>7, OneThreadStep DEF InductiveInvariant

(* A journal record changes nothing a handler relies on. *)
LEMMA WriteType ==
  ASSUME journal \in [TradeCycleIds -> [Kinds -> 0 .. 2]],
         NEW kind \in Kinds, NEW id, Write(kind, id)
  PROVE  journal' \in [TradeCycleIds -> [Kinds -> 0 .. 2]]
<1>1. CASE id \in TradeCycleIds
  <2>1. [journal[id] EXCEPT ![kind] = IF @ < 2 THEN @ + 1 ELSE @] \in [Kinds -> 0 .. 2]
    BY <1>1
  <2> QED
    BY <1>1, <2>1 DEF Write
<1>2. CASE id \notin TradeCycleIds
  BY <1>2 DEF Write
<1> QED
  BY <1>1, <1>2

(* Journaling a transition preserves the invariant. *)
LEMMA JournalSteps ==
  ASSUME InductiveInvariant, NEW t \in Threads,
         JournalOpened(t) \/ JournalClosed(t) \/ JournalEnded(t)
  PROVE  InductiveInvariant'
<1>0. /\ journal \in [TradeCycleIds -> [Kinds -> 0 .. 2]]
      /\ st \in [Threads -> States] /\ ctx \in [Threads -> Contexts]
      /\ file \in {"enabled", "disabled", "absent"}
      /\ abi \in [TradeCycleIds -> AbiCycles]
      /\ late \in SUBSET Creates
      /\ ExchangeOK(abi)
      /\ ExposedIn(abi, late) \subseteq Tracked(store)
  BY DEF InductiveInvariant, TypeOK
<1>1. owner = t
  BY InHandler DEF JournalOpened, JournalClosed, JournalEnded
<1>2. journal' \in [TradeCycleIds -> [Kinds -> 0 .. 2]]
  BY <1>0, WriteType DEF JournalOpened, JournalClosed, JournalEnded, Kinds
<1>3. CASE JournalOpened(t)
  <2>1. Agrees(st[t], store) /\ PointOK(t, "opened", st[t], ctx[t], abi, late)
    BY <1>3, AtWorkFacts DEF JournalOpened, AtWork
  <2>2. PICK p \in {"manage", "op_disable", "exit"} : Goto(t, p)
    BY <1>3 DEF JournalOpened, Threads
  <2>3. PointOK(t, p, st[t], ctx[t], abi, late)
    BY <2>1 DEF PointOK
  <2> QED
    BY <1>0, <1>1, <1>2, <1>3, <2>1, <2>2, <2>3, GotoStep DEF JournalOpened, Points
<1>4. CASE JournalClosed(t) \/ JournalEnded(t)
  <2>2. PICK p \in {"op_write", "exit"} : Goto(t, p)
    BY <1>4 DEF JournalClosed, JournalEnded
  <2>3. PointOK(t, p, st[t], ctx[t], abi, late)
    BY DEF PointOK
  <2>4. p \notin AtWork
    BY DEF AtWork
  <2> QED
    BY <1>0, <1>1, <1>2, <1>4, <2>2, <2>3, <2>4, GotoStep
    DEF JournalClosed, JournalEnded, Points
<1> QED
  BY <1>3, <1>4

(* A handler that gives up relies on nothing any more. *)
LEMMA CallFailsStep ==
  ASSUME InductiveInvariant, NEW t \in Threads, CallFails(t)
  PROVE  InductiveInvariant'
<1>1. owner = t
  BY InHandler DEF CallFails
<1>2. st \in [Threads -> States] /\ ctx \in [Threads -> Contexts]
  BY DEF InductiveInvariant, TypeOK
<1>3. PointOK(t, "exit", st[t], ctx[t], abi, late)
  BY DEF PointOK
<1> QED
  BY <1>1, <1>2, <1>3, QuietGotoStep DEF CallFails, Points, AtWork

(* Ending a cycle's exchange side, by a close or by a cancel, exposes      *)
(* nothing and makes no fresh identity stale except its own.               *)
LEMMA EndedFacts ==
  ASSUME InductiveInvariant,
         NEW id \in TradeCycleIds, NEW end \in {"cancelled", "ended"},
         end = "ended" => abi[id].entry # None /\ abi[id].fill # None,
         abi' = [abi EXCEPT ![id].status = end],
         UNCHANGED late
  PROVE  /\ abi' \in [TradeCycleIds -> AbiCycles]
         /\ ExchangeOK(abi')
         /\ ExposedIn(abi', late') \subseteq ExposedIn(abi, late) \ {id}
<1>1. abi \in [TradeCycleIds -> AbiCycles] /\ ExchangeOK(abi)
  BY DEF InductiveInvariant, TypeOK
<1>2. abi' \in [TradeCycleIds -> AbiCycles]
  BY <1>1 DEF AbiCycles
<1>3. ExchangeOK(abi')
  BY <1>1 DEF ExchangeOK, AbiCycles
<1>4. ExposedIn(abi', late') \subseteq ExposedIn(abi, late) \ {id}
  BY <1>1 DEF ExposedIn, AbiCycles
<1> QED
  BY <1>2, <1>3, <1>4

(* A confirmed close: the position is gone from the exchange before the    *)
(* cycle goes from the store.                                              *)
LEMMA CloseConfirmedStep ==
  ASSUME InductiveInvariant, NEW t \in Threads, CloseConfirmed(t)
  PROVE  InductiveInvariant'
<1> DEFINE id == st[t].pending_close_recovery
<1>1. pc[t] = "close"
  BY DEF CloseConfirmed
<1>2. /\ owner = t
      /\ st[t] \in States
      /\ PointOK(t, "close", st[t], ctx[t], abi, late)
      /\ WellFormed(st[t])
      /\ Tracked(st[t]) = Tracked(store)
      /\ ExposedIn(abi, late) \subseteq Tracked(st[t])
  BY <1>1, AtWorkFacts DEF AtWork
<1>3. id \in TradeCycleIds /\ Tracked(st[t]) = {id}
  BY <1>2 DEF PointOK, WellFormed, Tracked, States
<1>4. abi[id].entry # None /\ abi[id].fill # None
  BY <1>3 DEF CloseConfirmed, PositionOpen, InductiveInvariant, ExchangeOK
<1>5. abi' = [abi EXCEPT ![id].status = "ended"] /\ UNCHANGED <<late, ctx>>
  BY DEF CloseConfirmed
<1>6. /\ abi' \in [TradeCycleIds -> AbiCycles]
      /\ ExchangeOK(abi')
      /\ ExposedIn(abi', late') = {}
  BY <1>2, <1>3, <1>4, <1>5, EndedFacts
<1>7. WithoutPosition(st[t]) \in States /\ WellFormed(WithoutPosition(st[t]))
  BY <1>2, WithoutType DEF WithoutPosition, WellFormed, States
<1>8. PICK c \in {"closed", "exit"} : SaveThen(t, WithoutPosition(st[t]), c)
  BY DEF CloseConfirmed
<1>9. PointOK(t, c, WithoutPosition(st[t]), ctx'[t], abi', late')
  BY DEF PointOK
<1>10. /\ ctx \in [Threads -> Contexts] /\ late \in SUBSET Creates
       /\ file \in {"enabled", "disabled", "absent"}
  BY DEF InductiveInvariant, TypeOK
<1>11. c \in Continuations /\ c # "engine_open"
  BY DEF Continuations
<1> QED
  BY <1>2, <1>5, <1>6, <1>7, <1>8, <1>9, <1>10, <1>11, SaveThenStep DEF CloseConfirmed

(* A handler that gives up after a command, executed or not. *)
LEMMA GivesUpStep ==
  ASSUME InductiveInvariant, NEW t \in Threads, pc[t] \in AtWork,
         Goto(t, "exit"),
         UNCHANGED <<store, poisoned, file, owner, st, then, ctx, clock, journal>>,
         abi' \in [TradeCycleIds -> AbiCycles],
         late' \in SUBSET Creates,
         ExchangeOK(abi'),
         ExposedIn(abi', late') \subseteq Tracked(store)
  PROVE  InductiveInvariant'
<1>1. owner = t
  BY AtWorkFacts
<1>2. /\ st \in [Threads -> States] /\ ctx \in [Threads -> Contexts]
      /\ file \in {"enabled", "disabled", "absent"}
      /\ journal \in [TradeCycleIds -> [Kinds -> 0 .. 2]]
  BY DEF InductiveInvariant, TypeOK
<1>3. PointOK(t, "exit", st'[t], ctx'[t], abi', late')
  BY DEF PointOK
<1> QED
  BY <1>1, <1>2, <1>3, GotoStep DEF Points, AtWork

(* The same where the command could only end something. *)
LEMMA GivesUpEndingStep ==
  ASSUME InductiveInvariant, NEW t \in Threads, pc[t] \in AtWork,
         Goto(t, "exit"),
         UNCHANGED <<store, poisoned, file, owner, st, then, ctx, late, clock, journal>>,
         NEW id \in TradeCycleIds, NEW end \in {"cancelled", "ended"},
         end = "ended" => abi[id].entry # None /\ abi[id].fill # None,
         UNCHANGED abi \/ abi' = [abi EXCEPT ![id].status = end]
  PROVE  InductiveInvariant'
<1>1. /\ abi \in [TradeCycleIds -> AbiCycles]
      /\ late \in SUBSET Creates
      /\ ExchangeOK(abi)
      /\ ExposedIn(abi, late) \subseteq Tracked(store)
  BY DEF InductiveInvariant, TypeOK
<1>2. CASE UNCHANGED abi
  BY <1>1, <1>2, GivesUpStep
<1>3. CASE abi' = [abi EXCEPT ![id].status = end]
  <2>1. /\ abi' \in [TradeCycleIds -> AbiCycles]
        /\ ExchangeOK(abi')
        /\ ExposedIn(abi', late') \subseteq Tracked(store)
    BY <1>1, <1>3, EndedFacts
  <2> QED
    BY <1>1, <2>1, GivesUpStep
<1> QED
  BY <1>2, <1>3

(* A close without an answer. *)
LEMMA CloseFailsStep ==
  ASSUME InductiveInvariant, NEW t \in Threads, CloseFails(t)
  PROVE  InductiveInvariant'
<1> DEFINE id == st[t].pending_close_recovery
<1>1. pc[t] \in AtWork /\ pc[t] = "close"
  BY DEF CloseFails, AtWork
<1>2. st[t] \in States /\ PointOK(t, "close", st[t], ctx[t], abi, late)
  BY <1>1, AtWorkFacts
<1>3. id \in TradeCycleIds
  BY <1>2 DEF PointOK, States
<1>4. CASE UNCHANGED abi
  BY <1>1, <1>3, <1>4, GivesUpEndingStep DEF CloseFails
<1>5. CASE PositionOpen(id) /\ abi' = [abi EXCEPT ![id].status = "ended"]
  <2>1. abi[id].entry # None /\ abi[id].fill # None
    BY <1>3, <1>5 DEF PositionOpen, InductiveInvariant, ExchangeOK
  <2> QED
    BY <1>1, <1>3, <1>5, <2>1, GivesUpEndingStep DEF CloseFails
<1> QED
  BY <1>4, <1>5 DEF CloseFails

-----------------------------------------------------------------------------
(* What a thread writes into its context. *)

(* Remembering an identity yields a context. *)
LEMMA SourceType ==
  ASSUME NEW c \in [Threads -> Contexts], NEW t \in Threads, NEW id \in TradeCycleIds \cup {None}
  PROVE  /\ [c EXCEPT ![t].source = id] \in [Threads -> Contexts]
         /\ [c EXCEPT ![t].source = id][t].source = id
<1>1. c[t] \in Contexts
  OBVIOUS
<1>2. [c[t] EXCEPT !.source = id] \in Contexts
  BY <1>1 DEF Contexts
<1>3. [c[t] EXCEPT !.source = id].source = id
  BY <1>1 DEF Contexts
<1> QED
  BY <1>2, <1>3

(* So does remembering a desired entry. *)
LEMMA DesiredType ==
  ASSUME NEW c \in [Threads -> Contexts], NEW t \in Threads, NEW d \in DesiredEntries \cup {None}
  PROVE  /\ [c EXCEPT ![t].desired = d] \in [Threads -> Contexts]
         /\ [c EXCEPT ![t].desired = d][t].desired = d
<1>1. c[t] \in Contexts
  OBVIOUS
<1>2. [c[t] EXCEPT !.desired = d] \in Contexts
  BY <1>1 DEF Contexts
<1>3. [c[t] EXCEPT !.desired = d].desired = d
  BY <1>1 DEF Contexts
<1> QED
  BY <1>2, <1>3

(* So does remembering a protection. *)
LEMMA ProtectionType ==
  ASSUME NEW c \in [Threads -> Contexts], NEW t \in Threads, NEW p \in Protections \cup {None}
  PROVE  /\ [c EXCEPT ![t].protection = p] \in [Threads -> Contexts]
         /\ [c EXCEPT ![t].protection = p][t].protection = p
<1>1. c[t] \in Contexts
  OBVIOUS
<1>2. [c[t] EXCEPT !.protection = p] \in Contexts
  BY <1>1 DEF Contexts
<1>3. [c[t] EXCEPT !.protection = p].protection = p
  BY <1>1 DEF Contexts
<1> QED
  BY <1>2, <1>3

(* So does remembering an operator command. *)
LEMMA CommandType ==
  ASSUME NEW c \in [Threads -> Contexts], NEW t \in Threads, NEW k \in 
             {"none", "enable", "disable", "cancel_orders", "delete", "close"}
  PROVE  /\ [c EXCEPT ![t].command = k] \in [Threads -> Contexts]
         /\ [c EXCEPT ![t].command = k][t].command = k
<1>1. c[t] \in Contexts
  OBVIOUS
<1>2. [c[t] EXCEPT !.command = k] \in Contexts
  BY <1>1 DEF Contexts
<1>3. [c[t] EXCEPT !.command = k].command = k
  BY <1>1 DEF Contexts
<1> QED
  BY <1>2, <1>3

-----------------------------------------------------------------------------
(* The bar. *)

(* Selection and refusal happen outside the mutex. *)
LEMMA BarOutsideSteps ==
  ASSUME InductiveInvariant, (\E bar \in Bars : BarSelect(bar)) \/ BarRefused
  PROVE  InductiveInvariant'
<1>1. PICK p \in {"selected", "idle"} : pc' = [pc EXCEPT !["bar"] = p]
  BY DEF BarSelect, BarRefused, Goto
<1>2. /\ pc["bar"] \in {"idle", "selected"}
      /\ UNCHANGED <<store, poisoned, file, owner, st, then, abi, late, clock, journal>>
  BY DEF BarSelect, BarRefused
<1>3. TypeOK /\ NoContext \in Contexts
  BY DEF InductiveInvariant, NoContext, Contexts
<1>4. \A t \in Threads \ {"bar"} : ctx'[t] = ctx[t]
  BY <1>3 DEF BarSelect, BarRefused, TypeOK
<1>5. ctx' \in [Threads -> Contexts]
  <2>1. CASE BarRefused
    BY <1>3, <2>1 DEF BarRefused, TypeOK
  <2>2. CASE \E bar \in Bars : BarSelect(bar)
    <3>1. PICK bar \in Bars : ctx' = [ctx EXCEPT !["bar"].bar = bar]
      BY <2>2 DEF BarSelect
    <3>2. bar \in Nat
      BY MaxClockAssumption DEF Bars
    <3> QED
      BY <1>3, <3>1, <3>2 DEF TypeOK, Contexts
  <2> QED
    BY <2>1, <2>2
<1>6. TypeOK'
  BY <1>1, <1>2, <1>3, <1>5 DEF TypeOK, Points
<1>7. MutexOK'
  BY <1>1, <1>2, <1>3 DEF InductiveInvariant, MutexOK, TypeOK
<1>8. ASSUME NEW t \in Threads
      PROVE  ThreadOK(t, pc'[t], st'[t], then'[t], ctx'[t], store', abi', late')
  <2>1. CASE t = "bar"
    <3>1. pc'[t] \in {"idle", "selected"}
      BY <1>1, <1>3, <2>1 DEF TypeOK
    <3> QED
      BY <3>1, OutsideOK
  <2>2. CASE t # "bar"
    <3>1. pc'[t] = pc[t] /\ ctx'[t] = ctx[t]
      BY <1>1, <1>3, <1>4, <2>2 DEF TypeOK
    <3> QED
      BY <1>2, <3>1 DEF InductiveInvariant
  <2> QED
    BY <2>1, <2>2
<1> QED
  BY <1>2, <1>6, <1>7, <1>8 DEF InductiveInvariant

(* A handler starts from the stored state. *)
LEMMA BarBeginStep ==
  ASSUME InductiveInvariant, BarBegin
  PROVE  InductiveInvariant'
<1>1. TypeOK /\ "bar" \in Threads /\ store \in States
  BY DEF InductiveInvariant, TypeOK, Threads
<1>2. st' \in [Threads -> States] /\ st'["bar"] = store
  BY <1>1 DEF BarBegin, TypeOK
<1>3. owner = None /\ owner' = "bar"
  BY DEF BarBegin, Acquire, Lock
<1>4. Agrees(store, store)
  BY DEF Agrees
<1>5. CASE HasMarker(store)
  <2>1. Goto("bar", "exit") /\ UNCHANGED ctx
    BY <1>5 DEF BarBegin
  <2>2. PointOK("bar", "exit", st'["bar"], ctx'["bar"], abi, late)
    BY DEF PointOK
  <2> QED
    BY <1>1, <1>2, <1>3, <1>4, <2>1, <2>2, QuietGotoStep DEF BarBegin, Points, TypeOK
<1>6. CASE ~HasMarker(store) /\ store.current_trade_cycle = None
  <2>1. Goto("bar", "engine_entry") /\ UNCHANGED ctx
    BY <1>6 DEF BarBegin
  <2>2. PointOK("bar", "engine_entry", st'["bar"], ctx'["bar"], abi, late)
    BY <1>2, <1>6 DEF PointOK
  <2> QED
    BY <1>1, <1>2, <1>3, <1>4, <2>1, <2>2, QuietGotoStep DEF BarBegin, Points, TypeOK
<1>7. CASE ~HasMarker(store) /\ store.current_trade_cycle # None
  <2> DEFINE id == store.current_trade_cycle.trade_cycle_id
  <2>1. Goto("bar", "lookup") /\ ctx' = [ctx EXCEPT !["bar"].source = id]
    BY <1>7 DEF BarBegin
  <2>2. id \in TradeCycleIds
    BY <1>1, <1>7 DEF States, Cycles
  <2>3. ctx' \in [Threads -> Contexts] /\ ctx'["bar"].source = id
    <3>1. ctx \in [Threads -> Contexts]
      BY <1>1 DEF TypeOK
    <3>2. "bar" \in Threads /\ id \in TradeCycleIds \cup {None}
      BY <2>2 DEF Threads
    <3> HIDE DEF id
    <3> QED
      BY <2>1, <3>1, <3>2, SourceType, Zenon
  <2>4. PointOK("bar", "lookup", st'["bar"], ctx'["bar"], abi, late)
    BY <1>2, <1>7, <2>3 DEF PointOK
  <2> QED
    BY <1>1, <1>2, <1>3, <1>4, <2>1, <2>3, <2>4, QuietGotoStep DEF BarBegin, Points
<1> QED
  BY <1>5, <1>6, <1>7

(* A closure ABI proved: nothing of the cycle is exposed any more. *)
LEMMA BarFindsClosureStep ==
  ASSUME InductiveInvariant, BarFindsClosure
  PROVE  InductiveInvariant'
<1> DEFINE s == st["bar"]
<1>1. "bar" \in Threads /\ pc["bar"] = "lookup" /\ pc["bar"] \in AtWork
  BY DEF BarFindsClosure, Threads, AtWork
<1>2. /\ owner = "bar"
      /\ s \in States
      /\ PointOK("bar", "lookup", s, ctx["bar"], abi, late)
      /\ ExposedIn(abi, late) \subseteq Tracked(s)
  BY <1>1, AtWorkFacts
<1>3. Tracked(s) = {ctx["bar"].source} /\ ~HasMarker(s)
  BY <1>2 DEF PointOK, Tracked, HasMarker
<1>4. ExposedIn(abi, late) = {}
  BY <1>2, <1>3 DEF ExposedIn, BarFindsClosure
<1>5. WithoutPosition(s) \in States /\ WellFormed(WithoutPosition(s))
  BY <1>2, <1>3, WithoutType DEF WithoutPosition, WellFormed, HasMarker, States
<1>6. PointOK("bar", "closed", WithoutPosition(s), ctx'["bar"], abi, late)
  BY DEF PointOK
<1> QED
  BY <1>1, <1>2, <1>4, <1>5, <1>6, QuietSaveThenStep
  DEF BarFindsClosure, Continuations, InductiveInvariant, TypeOK

(* A save of new facts of the current cycle, at any point of its life.     *)
LEMMA FactSaveStep ==
  ASSUME InductiveInvariant, NEW t \in Threads, pc[t] \in AtWork,
         ~HasMarker(st[t]),
         NEW s \in States, s.current_trade_cycle # None, Agrees(s, st[t]),
         NEW c \in {"exit", "opened", "engine_open", "op_disable"},
         SaveThen(t, s, c),
         UNCHANGED <<store, poisoned, file, owner, ctx, late, clock, journal>>,
         abi' \in [TradeCycleIds -> AbiCycles],
         ExchangeOK(abi'),
         ExposedIn(abi', late') \subseteq ExposedIn(abi, late)
  PROVE  InductiveInvariant'
<1>1. /\ owner = t
      /\ st[t] \in States /\ store \in States
      /\ Agrees(st[t], store)
      /\ WellFormed(st[t])
      /\ Tracked(st[t]) = Tracked(store)
      /\ ExposedIn(abi, late) \subseteq Tracked(st[t])
  BY AtWorkFacts
<1>2. WellFormed(s) /\ ~HasMarker(s) /\ Tracked(s) = Tracked(st[t]) /\ Agrees(s, store)
  BY <1>1, AgreesFacts, AgreesTransitive
<1>3. PointOK(t, c, s, ctx'[t], abi', late')
  BY <1>2 DEF PointOK
<1>4. /\ ctx \in [Threads -> Contexts] /\ late \in SUBSET Creates
      /\ file \in {"enabled", "disabled", "absent"}
  BY DEF InductiveInvariant, TypeOK
<1> QED
  BY <1>1, <1>2, <1>3, <1>4, SaveThenStep DEF Continuations

(* The first fill, frozen by the bar or seen already. *)
LEMMA BarFindsPositionStep ==
  ASSUME InductiveInvariant, BarFindsPosition
  PROVE  InductiveInvariant'
<1> DEFINE s == st["bar"]
           id == ctx["bar"].source
<1>1. "bar" \in Threads /\ pc["bar"] = "lookup" /\ pc["bar"] \in AtWork
  BY DEF BarFindsPosition, Threads, AtWork
<1>2. /\ owner = "bar"
      /\ s \in States
      /\ Agrees(s, store)
      /\ PointOK("bar", "lookup", s, ctx["bar"], abi, late)
  BY <1>1, AtWorkFacts
<1>3. s.current_trade_cycle # None /\ ~HasMarker(s) /\ id = s.current_trade_cycle.trade_cycle_id
  BY <1>2 DEF PointOK
<1>4. /\ TypeOK
      /\ abi \in [TradeCycleIds -> AbiCycles] /\ ExchangeOK(abi)
  BY DEF InductiveInvariant, TypeOK
<1>5. CASE Goto("bar", "manage") /\ UNCHANGED <<st, then>>
  <2>1. PointOK("bar", "manage", st'["bar"], ctx'["bar"], abi, late)
    BY <1>3, <1>5 DEF PointOK
  <2> QED
    BY <1>1, <1>2, <1>4, <1>5, <2>1, QuietGotoStep DEF BarFindsPosition, Points, TypeOK
<1>6. CASE SaveThen("bar", apply_first_fill(s, abi[id].fill), "opened")
  <2>1. id \in TradeCycleIds
    BY <1>2, <1>3 DEF States, Cycles
  <2>2. abi[id].fill \in Nat
    BY <1>4, <2>1 DEF BarFindsPosition, PositionOpen, ExchangeOK, AbiCycles
  <2>3. /\ apply_first_fill(s, abi[id].fill) \in States
        /\ apply_first_fill(s, abi[id].fill).current_trade_cycle # None
        /\ Agrees(apply_first_fill(s, abi[id].fill), s)
    BY <1>2, <1>3, <2>2, FirstFillType
  <2> QED
    BY <1>1, <1>3, <1>4, <1>6, <2>3, FactSaveStep DEF BarFindsPosition
<1> QED
  BY <1>5, <1>6 DEF BarFindsPosition

(* The bar's choices that touch nothing. *)
LEMMA BarQuietSteps ==
  ASSUME InductiveInvariant, BarFindsFlat \/ BarManage
  PROVE  InductiveInvariant'
<1>1. "bar" \in Threads /\ pc["bar"] \in {"lookup", "manage"} /\ pc["bar"] \in AtWork
  BY DEF BarFindsFlat, BarManage, Threads, AtWork
<1>2. /\ owner = "bar"
      /\ Agrees(st["bar"], store)
      /\ PointOK("bar", pc["bar"], st["bar"], ctx["bar"], abi, late)
  BY <1>1, AtWorkFacts
<1>3. PICK p \in {"engine_entry", "exit", "remainder", "engine_open"} :
        Goto("bar", p) /\ (p \in {"remainder", "engine_open"} => pc["bar"] = "manage")
  BY DEF BarFindsFlat, BarManage
<1>4. PointOK("bar", p, st["bar"], ctx["bar"], abi, late)
  BY <1>1, <1>2, <1>3 DEF PointOK
<1>5. UNCHANGED <<store, poisoned, file, owner, st, then, ctx, abi, late, clock, journal>>
  BY DEF BarFindsFlat, BarManage
<1>6. st \in [Threads -> States] /\ ctx \in [Threads -> Contexts]
  BY DEF InductiveInvariant, TypeOK
<1> QED
  BY <1>1, <1>2, <1>3, <1>4, <1>5, <1>6, QuietGotoStep DEF Points

(* Cancelling the remainder of a filled entry leaves the position. *)
LEMMA RemainderFacts ==
  ASSUME InductiveInvariant, NEW id,
         UNCHANGED late,
         abi' \in {abi, [abi EXCEPT ![id].status = IF @ = "partial" THEN "open" ELSE @]}
  PROVE  /\ abi' \in [TradeCycleIds -> AbiCycles]
         /\ ExchangeOK(abi')
         /\ ExposedIn(abi', late') \subseteq ExposedIn(abi, late)
<1>1. abi \in [TradeCycleIds -> AbiCycles] /\ ExchangeOK(abi)
  BY DEF InductiveInvariant, TypeOK
<1>2. abi' \in [TradeCycleIds -> AbiCycles]
  BY <1>1 DEF AbiCycles
<1>3. ASSUME NEW i \in TradeCycleIds
      PROVE  /\ abi'[i].entry = abi[i].entry /\ abi'[i].fill = abi[i].fill
             /\ \/ abi'[i].status = abi[i].status
                \/ abi[i].status = "partial" /\ abi'[i].status = "open"
  BY <1>1 DEF AbiCycles
<1>4. ExchangeOK(abi')
  BY <1>1, <1>3 DEF ExchangeOK
<1>5. ExposedIn(abi', late') \subseteq ExposedIn(abi, late)
  BY <1>3 DEF ExposedIn
<1> QED
  BY <1>2, <1>4, <1>5

(* The remainder is cancelled and recorded, or the call fails and the bar  *)
(* goes on.                                                                *)
LEMMA RemainderSteps ==
  ASSUME InductiveInvariant, RemainderCancelled \/ RemainderFails
  PROVE  InductiveInvariant'
<1> DEFINE s == st["bar"]
<1>1. "bar" \in Threads /\ pc["bar"] = "remainder" /\ pc["bar"] \in AtWork
  BY DEF RemainderCancelled, RemainderFails, Threads, AtWork
<1>2. /\ owner = "bar"
      /\ s \in States
      /\ Agrees(s, store)
      /\ PointOK("bar", "remainder", s, ctx["bar"], abi, late)
  BY <1>1, AtWorkFacts
<1>3. s.current_trade_cycle # None /\ ~HasMarker(s)
  BY <1>2 DEF PointOK
<1>4. /\ abi' \in {abi, [abi EXCEPT ![ctx["bar"].source].status =
                           IF @ = "partial" THEN "open" ELSE @]}
      /\ UNCHANGED late
  BY DEF RemainderCancelled, RemainderFails
<1>5. /\ abi' \in [TradeCycleIds -> AbiCycles]
      /\ ExchangeOK(abi')
      /\ ExposedIn(abi', late') \subseteq ExposedIn(abi, late)
  BY <1>4, RemainderFacts
<1>6. CASE RemainderCancelled
  <2>1. /\ WithRemainderCancelled(s) \in States
        /\ WithRemainderCancelled(s).current_trade_cycle # None
        /\ Agrees(WithRemainderCancelled(s), s)
    BY <1>2, <1>3, WithFactType
  <2> QED
    BY <1>1, <1>3, <1>5, <1>6, <2>1, FactSaveStep DEF RemainderCancelled
<1>7. CASE RemainderFails
  <2>1. PointOK("bar", "engine_open", s, ctx["bar"], abi', late')
    BY <1>3 DEF PointOK
  <2>2. /\ TypeOK /\ late \in SUBSET Creates
        /\ ExposedIn(abi, late) \subseteq Tracked(store)
    BY DEF InductiveInvariant, TypeOK
  <2> QED
    BY <1>1, <1>2, <1>5, <1>7, <2>1, <2>2, GotoStep DEF RemainderFails, Points, TypeOK
<1> QED
  BY <1>6, <1>7

(* A state without a marker may be marked for its close. *)
LEMMA MarkCloseFacts ==
  ASSUME NEW s \in States, s.current_trade_cycle # None, ~HasMarker(s)
  PROVE  /\ MarkClose(s) \in States
         /\ WellFormed(MarkClose(s))
         /\ Tracked(MarkClose(s)) = Tracked(s)
         /\ MarkClose(s).pending_close_recovery # None
<1>1. s.current_trade_cycle.trade_cycle_id \in TradeCycleIds
  BY DEF States, Cycles
<1> QED
  BY <1>1, MarkCloseType, ConstantsAssumption
  DEF MarkClose, WellFormed, Tracked, HasMarker, States

(* Engine's open-trade answer. *)
LEMMA EngineOpenTradeStep ==
  ASSUME InductiveInvariant,
         NEW close_signal \in BOOLEAN, NEW protection \in Protections,
         EngineOpenTrade(close_signal, protection)
  PROVE  InductiveInvariant'
<1> DEFINE s == st["bar"]
<1>1. "bar" \in Threads /\ pc["bar"] = "engine_open" /\ pc["bar"] \in AtWork
  BY DEF EngineOpenTrade, Threads, AtWork
<1>2. /\ owner = "bar"
      /\ s \in States
      /\ Agrees(s, store)
      /\ PointOK("bar", "engine_open", s, ctx["bar"], abi, late)
      /\ ExposedIn(abi, late) \subseteq Tracked(s)
  BY <1>1, AtWorkFacts
<1>3. s.current_trade_cycle # None /\ ~HasMarker(s)
  BY <1>2 DEF PointOK
<1>4. TypeOK
  BY DEF InductiveInvariant
<1>5. UNCHANGED <<store, poisoned, file, owner, abi, late, clock, journal>>
  BY DEF EngineOpenTrade
<1>6. CASE Goto("bar", "exit") /\ UNCHANGED <<st, then, ctx>>
  <2>1. PointOK("bar", "exit", st'["bar"], ctx'["bar"], abi, late)
    BY DEF PointOK
  <2> QED
    BY <1>1, <1>2, <1>4, <1>5, <1>6, <2>1, QuietGotoStep DEF Points, AtWork, TypeOK
<1>7. CASE /\ Goto("bar", "protect")
           /\ ctx' = [ctx EXCEPT !["bar"].protection = protection]
           /\ UNCHANGED <<st, then>>
  <2>1. PointOK("bar", "protect", st'["bar"], ctx'["bar"], abi, late)
    BY <1>3, <1>7 DEF PointOK
  <2>2. ctx' \in [Threads -> Contexts]
    BY <1>1, <1>4, <1>7, ProtectionType DEF TypeOK
  <2> QED
    BY <1>1, <1>2, <1>4, <1>5, <1>7, <2>1, <2>2, QuietGotoStep DEF Points, TypeOK
<1>8. CASE SaveThen("bar", MarkClose(s), "close") /\ UNCHANGED ctx
  <2>1. /\ MarkClose(s) \in States
        /\ WellFormed(MarkClose(s))
        /\ Tracked(MarkClose(s)) = Tracked(s)
        /\ MarkClose(s).pending_close_recovery # None
    BY <1>2, <1>3, MarkCloseFacts
  <2>2. PointOK("bar", "close", MarkClose(s), ctx'["bar"], abi, late)
    BY <2>1 DEF PointOK
  <2> QED
    BY <1>1, <1>2, <1>4, <1>5, <1>8, <2>1, <2>2, QuietSaveThenStep
    DEF Continuations, TypeOK
<1> QED
  BY <1>6, <1>7, <1>8 DEF EngineOpenTrade

(* A confirmed protection. *)
LEMMA ProtectionAppliedStep ==
  ASSUME InductiveInvariant, ProtectionApplied
  PROVE  InductiveInvariant'
<1> DEFINE s == st["bar"]
           p == ctx["bar"].protection
<1>1. "bar" \in Threads /\ pc["bar"] = "protect" /\ pc["bar"] \in AtWork
  BY DEF ProtectionApplied, Threads, AtWork
<1>2. /\ s \in States
      /\ ctx["bar"] \in Contexts
      /\ PointOK("bar", "protect", s, ctx["bar"], abi, late)
  BY <1>1, AtWorkFacts
<1>3. s.current_trade_cycle # None /\ ~HasMarker(s) /\ p \in Protections \cup {None}
  BY <1>2 DEF PointOK, Contexts
<1>4. /\ WithProtection(s, p) \in States
      /\ WithProtection(s, p).current_trade_cycle # None
      /\ Agrees(WithProtection(s, p), s)
  BY <1>2, <1>3, WithFactType
<1>5. abi \in [TradeCycleIds -> AbiCycles] /\ ExchangeOK(abi)
  BY DEF InductiveInvariant, TypeOK
<1> QED
  BY <1>1, <1>3, <1>4, <1>5, FactSaveStep DEF ProtectionApplied

-----------------------------------------------------------------------------
(* Entry reconciliation. *)

(* What the decision says of the cycle it is taken on. *)
LEMMA DecisionFacts ==
  ASSUME NEW desired, NEW cycle, NEW bar
  PROVE  /\ EntryDecision(desired, cycle, bar) = "apply" => cycle = None /\ desired # None
         /\ EntryDecision(desired, cycle, bar) \in {"cancel", "replace"} => cycle # None
BY DEF EntryDecision, decide_entry_reconciliation, touch_trigger_entry_reconciliation

(* A state without a marker may be marked for an entry: its own, or a new  *)
(* one where there is none.                                                *)
LEMMA MarkEntryFacts ==
  ASSUME NEW s \in States, NEW id \in TradeCycleIds, ~HasMarker(s),
         s.current_trade_cycle # None => id = s.current_trade_cycle.trade_cycle_id
  PROVE  /\ MarkEntry(s, id) \in States
         /\ WellFormed(MarkEntry(s, id))
         /\ Tracked(MarkEntry(s, id)) = Tracked(s) \cup {id}
         /\ MarkEntry(s, id).pending_entry_recovery = id
         /\ MarkEntry(s, id).current_trade_cycle = s.current_trade_cycle
<1>1. MarkEntry(s, id) \in States
  BY MarkEntryType
<1>2. /\ MarkEntry(s, id).pending_entry_recovery = id
      /\ MarkEntry(s, id).current_trade_cycle = s.current_trade_cycle
      /\ MarkEntry(s, id).pending_close_recovery = None
      /\ id # None /\ s.pending_entry_recovery = None
  BY ConstantsAssumption DEF MarkEntry, HasMarker, States
<1> QED
  BY <1>1, <1>2 DEF WellFormed, Tracked

(* Engine's live-entry answer and the decision taken from it. *)
LEMMA EngineLiveEntryStep ==
  ASSUME InductiveInvariant,
         NEW desired \in EntriesOn(ctx["bar"].bar) \cup {None},
         EngineLiveEntry(desired)
  PROVE  InductiveInvariant'
<1> DEFINE s == st["bar"]
           cycle == s.current_trade_cycle
           decision == EntryDecision(desired, cycle, ctx["bar"].bar)
<1>1. "bar" \in Threads /\ pc["bar"] = "engine_entry" /\ pc["bar"] \in AtWork
  BY DEF EngineLiveEntry, Threads, AtWork
<1>2. /\ owner = "bar"
      /\ s \in States
      /\ ctx["bar"] \in Contexts
      /\ PointOK("bar", "engine_entry", s, ctx["bar"], abi, late)
      /\ ExposedIn(abi, late) \subseteq Tracked(s)
  BY <1>1, AtWorkFacts
<1>3. ~HasMarker(s)
  BY <1>2 DEF PointOK
<1>4. TypeOK
  BY DEF InductiveInvariant
<1>5. UNCHANGED <<store, poisoned, file, owner, abi, late, clock, journal>>
  BY DEF EngineLiveEntry
<1>6. desired \in DesiredEntries \cup {None}
  BY <1>2 DEF EntriesOn, DesiredEntries, Contexts
<1>7. CASE Goto("bar", "exit") /\ UNCHANGED <<st, then, ctx>>
  <2>1. PointOK("bar", "exit", st'["bar"], ctx'["bar"], abi, late)
    BY DEF PointOK
  <2> QED
    BY <1>1, <1>2, <1>4, <1>5, <1>7, <2>1, QuietGotoStep DEF Points, AtWork, TypeOK
<1>8. CASE /\ decision = "apply"
           /\ \E id \in TradeCycleIds : Fresh(id) /\ SaveThen("bar", MarkEntry(s, id), "create")
           /\ ctx' = [ctx EXCEPT !["bar"].desired = desired]
  <2>1. PICK id \in TradeCycleIds : Fresh(id) /\ SaveThen("bar", MarkEntry(s, id), "create")
    BY <1>8
  <2>2. cycle = None /\ desired # None
    BY <1>8, DecisionFacts
  <2>3. /\ MarkEntry(s, id) \in States
        /\ WellFormed(MarkEntry(s, id))
        /\ ExposedIn(abi, late) \subseteq Tracked(MarkEntry(s, id))
        /\ MarkEntry(s, id).pending_entry_recovery = id
        /\ MarkEntry(s, id).current_trade_cycle = None
    BY <1>2, <1>3, <2>2, MarkEntryFacts
  <2>4. ctx' \in [Threads -> Contexts] /\ ctx'["bar"].desired = desired
    <3>1. ctx \in [Threads -> Contexts]
      BY <1>4 DEF TypeOK
    <3> DEFINE new == [ctx EXCEPT !["bar"].desired = desired]
    <3>2. new \in [Threads -> Contexts]
      BY <1>1, <1>6, <3>1, DesiredType, Zenon
    <3>3. new["bar"].desired = desired
      <4>1. new["bar"] = [ctx["bar"] EXCEPT !.desired = desired]
        BY <1>1, <3>1
      <4>2. ctx["bar"] \in Contexts
        BY <1>2
      <4> HIDE DEF new
      <4> QED
        BY <4>1, <4>2 DEF Contexts
    <3>4. ctx' = new
      BY <1>8
    <3> HIDE DEF new
    <3> QED
      BY <3>2, <3>3, <3>4
  <2>5. FreshIn(id, abi, late)
    BY <2>1 DEF Fresh, FreshIn
  <2>6. PointOK("bar", "create", MarkEntry(s, id), ctx'["bar"], abi, late)
    BY <2>2, <2>3, <2>4, <2>5, ConstantsAssumption DEF PointOK
  <2> QED
    BY <1>1, <1>2, <1>5, <2>1, <2>3, <2>4, <2>6, QuietSaveThenStep DEF Continuations
<1>9. CASE /\ decision \in {"cancel", "replace"}
           /\ SaveThen("bar", MarkEntry(s, cycle.trade_cycle_id), "cancel")
           /\ ctx' = [ctx EXCEPT !["bar"].desired = IF decision = "replace" THEN desired ELSE None]
  <2> DEFINE id == cycle.trade_cycle_id
  <2>1. cycle # None
    BY <1>9, DecisionFacts
  <2>2. id \in TradeCycleIds
    BY <1>2, <2>1 DEF States, Cycles
  <2>3. /\ MarkEntry(s, id) \in States
        /\ WellFormed(MarkEntry(s, id))
        /\ ExposedIn(abi, late) \subseteq Tracked(MarkEntry(s, id))
        /\ MarkEntry(s, id).pending_entry_recovery = id
        /\ MarkEntry(s, id).current_trade_cycle = cycle
    BY <1>2, <1>3, <2>2, MarkEntryFacts
  <2>4. PICK d \in DesiredEntries \cup {None} : ctx' = [ctx EXCEPT !["bar"].desired = d]
    BY <1>6, <1>9
  <2>5. ctx' \in [Threads -> Contexts]
    <3>1. ctx \in [Threads -> Contexts]
      BY <1>4 DEF TypeOK
    <3> QED
      BY <1>1, <2>4, <3>1, DesiredType, Zenon
  <2>6. PointOK("bar", "cancel", MarkEntry(s, id), ctx'["bar"], abi, late)
    BY <2>1, <2>3 DEF PointOK
  <2> QED
    BY <1>1, <1>2, <1>5, <1>9, <2>3, <2>5, <2>6, QuietSaveThenStep DEF Continuations
<1> QED
  BY <1>7, <1>8, <1>9 DEF EngineLiveEntry

(* An order placed under an identity exposes that identity only. *)
LEMMA PlaceFacts ==
  ASSUME InductiveInvariant,
         NEW id \in TradeCycleIds, NEW entry \in DesiredEntries,
         abi' = Place(id, entry),
         late' \subseteq late
  PROVE  /\ abi' \in [TradeCycleIds -> AbiCycles]
         /\ ExchangeOK(abi')
         /\ ExposedIn(abi', late') \subseteq ExposedIn(abi, late) \cup {id}
<1>1. abi \in [TradeCycleIds -> AbiCycles] /\ ExchangeOK(abi)
  BY DEF InductiveInvariant, TypeOK
<1>2. [abi[id] EXCEPT !.status = "live", !.entry = entry] \in AbiCycles
  BY <1>1 DEF AbiCycles
<1>3. /\ abi' \in [TradeCycleIds -> AbiCycles]
      /\ abi'[id].status = "live" /\ abi'[id].entry = entry
      /\ \A i \in TradeCycleIds \ {id} : abi'[i] = abi[i]
  BY <1>1, <1>2 DEF Place, AbiCycles
<1>4. ExchangeOK(abi')
  BY <1>1, <1>3, ConstantsAssumption DEF ExchangeOK
<1>5. ExposedIn(abi', late') \subseteq ExposedIn(abi, late) \cup {id}
  BY <1>3 DEF ExposedIn
<1> QED
  BY <1>3, <1>4, <1>5

(* What the bar knows while a CREATE is under way. *)
LEMMA CreateFacts ==
  ASSUME InductiveInvariant, pc["bar"] = "create"
  PROVE  /\ "bar" \in Threads /\ pc["bar"] \in AtWork
         /\ owner = "bar"
         /\ st["bar"] \in States
         /\ ctx["bar"].desired \in DesiredEntries
         /\ st["bar"].current_trade_cycle = None
         /\ st["bar"].pending_entry_recovery \in TradeCycleIds
         /\ FreshIn(st["bar"].pending_entry_recovery, abi, late)
         /\ WellFormed(st["bar"])
         /\ st["bar"].pending_close_recovery = None
         /\ Tracked(store) = {st["bar"].pending_entry_recovery}
         /\ ExposedIn(abi, late) = {}
<1> DEFINE s == st["bar"]
<1>1. "bar" \in Threads /\ pc["bar"] \in AtWork
  BY DEF Threads, AtWork
<1>2. /\ owner = "bar"
      /\ s \in States
      /\ ctx["bar"] \in Contexts
      /\ PointOK("bar", "create", s, ctx["bar"], abi, late)
      /\ WellFormed(s)
      /\ Tracked(s) = Tracked(store)
      /\ ExposedIn(abi, late) \subseteq Tracked(s)
  BY <1>1, AtWorkFacts
<1>3. /\ s.current_trade_cycle = None
      /\ s.pending_entry_recovery \in TradeCycleIds
      /\ FreshIn(s.pending_entry_recovery, abi, late)
      /\ ctx["bar"].desired \in DesiredEntries
      /\ s.pending_close_recovery = None
  BY <1>2 DEF PointOK, States, Contexts, WellFormed
<1>4. Tracked(store) = {s.pending_entry_recovery}
  BY <1>2, <1>3, ConstantsAssumption DEF Tracked
<1>5. ExposedIn(abi, late) = {}
  BY <1>2, <1>3, <1>4 DEF ExposedIn, FreshIn
<1> QED
  BY <1>1, <1>2, <1>3, <1>4, <1>5

(* A state that adopts an entry answers for that entry. *)
LEMMA AdoptFacts ==
  ASSUME NEW s \in States, NEW id \in TradeCycleIds, NEW entry \in DesiredEntries,
         s.pending_close_recovery = None
  PROVE  /\ WithCycle(s, id, entry) \in States
         /\ WithCycle(s, id, entry).current_trade_cycle # None
         /\ WellFormed(WithCycle(s, id, entry))
         /\ Tracked(WithCycle(s, id, entry)) = {id}
         /\ ~HasMarker(WithCycle(s, id, entry))
<1> DEFINE new == WithCycle(s, id, entry)
<1>1. NewCycle(id, entry) \in Cycles /\ NewCycle(id, entry).trade_cycle_id = id
  BY DEF NewCycle, Cycles
<1>2. /\ new \in States
      /\ new.current_trade_cycle = NewCycle(id, entry)
      /\ new.pending_entry_recovery = None
      /\ new.pending_close_recovery = None
  <2>1. new \in States
    BY WithCycleType
  <2> QED
    BY <2>1 DEF WithCycle, States
<1> QED
  BY <1>1, <1>2, NoneAssumption DEF WellFormed, Tracked, HasMarker

(* A confirmed entry becomes the current cycle. *)
LEMMA CreateAppliedStep ==
  ASSUME InductiveInvariant, CreateApplied
  PROVE  InductiveInvariant'
<1> DEFINE s == st["bar"]
           id == s.pending_entry_recovery
           entry == ctx["bar"].desired
           new == WithCycle(s, id, entry)
<1>1. /\ "bar" \in Threads /\ owner = "bar"
      /\ s \in States /\ entry \in DesiredEntries /\ id \in TradeCycleIds
      /\ s.pending_close_recovery = None
      /\ Tracked(store) = {id}
      /\ ExposedIn(abi, late) = {}
  BY CreateFacts DEF CreateApplied
<1>2. /\ abi' \in [TradeCycleIds -> AbiCycles]
      /\ ExchangeOK(abi')
      /\ ExposedIn(abi', late') \subseteq {id}
  BY <1>1, PlaceFacts DEF CreateApplied
<1>3. new \in States /\ WellFormed(new) /\ Tracked(new) = {id}
  BY <1>1, AdoptFacts
<1>4. PICK c \in {"exit", "ended"} : SaveThen("bar", new, c)
  BY DEF CreateApplied, EntryContinuation
<1>5. PointOK("bar", c, new, ctx'["bar"], abi', late')
  BY DEF PointOK
<1>6. TypeOK
  BY DEF InductiveInvariant
<1> QED
  BY <1>1, <1>2, <1>3, <1>4, <1>5, <1>6, SaveThenStep
  DEF CreateApplied, Continuations, TypeOK

(* A CREATE without an answer: its identity stays marked. *)
LEMMA CreateFailsStep ==
  ASSUME InductiveInvariant, CreateFails
  PROVE  InductiveInvariant'
<1> DEFINE id == st["bar"].pending_entry_recovery
           entry == ctx["bar"].desired
<1>1. /\ "bar" \in Threads /\ pc["bar"] \in AtWork
      /\ entry \in DesiredEntries /\ id \in TradeCycleIds
      /\ Tracked(store) = {id}
      /\ ExposedIn(abi, late) = {}
  BY CreateFacts DEF CreateFails
<1>2. /\ abi \in [TradeCycleIds -> AbiCycles] /\ ExchangeOK(abi)
      /\ late \in SUBSET Creates
  BY DEF InductiveInvariant, TypeOK
<1>3. CASE UNCHANGED <<abi, late>>
  BY <1>1, <1>2, <1>3, GivesUpStep DEF CreateFails
<1>4. CASE abi' = Place(id, entry) /\ UNCHANGED late
  <2>1. /\ abi' \in [TradeCycleIds -> AbiCycles]
        /\ ExchangeOK(abi')
        /\ ExposedIn(abi', late') \subseteq {id}
    BY <1>1, <1>4, PlaceFacts
  <2> QED
    BY <1>1, <1>2, <1>4, <2>1, GivesUpStep DEF CreateFails
<1>5. CASE late' = late \cup {[id |-> id, entry |-> entry]} /\ UNCHANGED abi
  <2>1. late' \in SUBSET Creates
    BY <1>1, <1>2, <1>5 DEF Creates
  <2>2. ExposedIn(abi', late') \subseteq ExposedIn(abi, late) \cup {id}
    BY <1>5 DEF ExposedIn
  <2> QED
    BY <1>1, <1>2, <1>5, <2>1, <2>2, GivesUpStep DEF CreateFails
<1> QED
  BY <1>3, <1>4, <1>5 DEF CreateFails

(* A state whose entry marker is taken back. *)
LEMMA ClearFacts ==
  ASSUME NEW s \in States, WellFormed(s)
  PROVE  /\ ClearEntryMarker(s) \in States
         /\ WellFormed(ClearEntryMarker(s))
         /\ s.current_trade_cycle # None =>
              Tracked(ClearEntryMarker(s)) = {s.current_trade_cycle.trade_cycle_id}
<1>1. /\ ClearEntryMarker(s) \in States
      /\ ClearEntryMarker(s).current_trade_cycle = s.current_trade_cycle
      /\ ClearEntryMarker(s).pending_entry_recovery = None
      /\ ClearEntryMarker(s).pending_close_recovery = s.pending_close_recovery
  BY DEF ClearEntryMarker, States
<1> QED
  BY <1>1 DEF WellFormed, Tracked

(* A state that answers for nothing: no cycle and no entry marker. *)
LEMMA AbsentFacts ==
  ASSUME NEW s \in States, WellFormed(s), s.pending_entry_recovery # None
  PROVE  /\ WithoutEntry(s) \in States
         /\ WellFormed(WithoutEntry(s))
         /\ ~HasMarker(WithoutEntry(s))
         /\ WithoutEntry(s).current_trade_cycle = None
<1>1. s.pending_close_recovery = None
  BY DEF WellFormed
<1> QED
  BY <1>1, WithoutType DEF WithoutEntry, WellFormed, HasMarker, States

(* What the bar knows while a CANCEL is under way. *)
LEMMA CancelFacts ==
  ASSUME InductiveInvariant, pc["bar"] = "cancel"
  PROVE  /\ "bar" \in Threads /\ pc["bar"] \in AtWork
         /\ owner = "bar"
         /\ st["bar"] \in States
         /\ WellFormed(st["bar"])
         /\ st["bar"].current_trade_cycle # None
         /\ st["bar"].pending_entry_recovery = st["bar"].current_trade_cycle.trade_cycle_id
         /\ st["bar"].pending_entry_recovery \in TradeCycleIds
         /\ Tracked(store) = {st["bar"].pending_entry_recovery}
         /\ ExposedIn(abi, late) \subseteq {st["bar"].pending_entry_recovery}
<1> DEFINE s == st["bar"]
<1>1. "bar" \in Threads /\ pc["bar"] \in AtWork
  BY DEF Threads, AtWork
<1>2. /\ owner = "bar"
      /\ s \in States
      /\ PointOK("bar", "cancel", s, ctx["bar"], abi, late)
      /\ WellFormed(s)
      /\ Tracked(s) = Tracked(store)
      /\ ExposedIn(abi, late) \subseteq Tracked(s)
  BY <1>1, AtWorkFacts
<1>3. /\ s.current_trade_cycle # None
      /\ s.pending_entry_recovery = s.current_trade_cycle.trade_cycle_id
  BY <1>2 DEF PointOK
<1>4. s.pending_entry_recovery \in TradeCycleIds
  BY <1>2, <1>3 DEF States, Cycles
<1>5. Tracked(s) = {s.pending_entry_recovery}
  BY <1>3, <1>4, ConstantsAssumption DEF Tracked
<1> QED
  BY <1>1, <1>2, <1>3, <1>4, <1>5

(* A refusal takes the marker back: nothing was sent under it, or the      *)
(* cycle it named is still there.                                          *)
LEMMA EntryRefusedSteps ==
  ASSUME InductiveInvariant, CreateDeclined \/ EntryNotReady
  PROVE  InductiveInvariant'
<1> DEFINE s == st["bar"]
<1>1. pc["bar"] \in {"create", "cancel"}
  BY DEF CreateDeclined, EntryNotReady
<1>2. /\ "bar" \in Threads /\ owner = "bar"
      /\ s \in States /\ WellFormed(s)
      /\ \/ ExposedIn(abi, late) = {}
         \/ /\ s.current_trade_cycle # None
            /\ ExposedIn(abi, late) \subseteq {s.current_trade_cycle.trade_cycle_id}
  BY <1>1, CreateFacts, CancelFacts
<1>3. /\ ClearEntryMarker(s) \in States
      /\ WellFormed(ClearEntryMarker(s))
      /\ ExposedIn(abi, late) \subseteq Tracked(ClearEntryMarker(s))
  BY <1>2, ClearFacts
<1>4. PICK c \in {"exit", "ended"} : SaveThen("bar", ClearEntryMarker(s), c)
  BY DEF CreateDeclined, EntryNotReady, EntryContinuation
<1>5. PointOK("bar", c, ClearEntryMarker(s), ctx'["bar"], abi, late)
  BY DEF PointOK
<1>6. UNCHANGED <<store, poisoned, file, owner, ctx, abi, late, clock, journal>>
  BY DEF CreateDeclined, EntryNotReady
<1>7. ctx \in [Threads -> Contexts]
  BY DEF InductiveInvariant, TypeOK
<1> QED
  BY <1>2, <1>3, <1>4, <1>5, <1>6, <1>7, QuietSaveThenStep DEF Continuations

(* A confirmed cancel: nothing is exposed, and the second leg of a Replace *)
(* starts from a fresh identity.                                           *)
LEMMA CancelConfirmedStep ==
  ASSUME InductiveInvariant, CancelConfirmed
  PROVE  InductiveInvariant'
<1> DEFINE s == st["bar"]
           id == s.pending_entry_recovery
           absent == WithoutEntry(s)
<1>1. /\ "bar" \in Threads /\ owner = "bar"
      /\ s \in States /\ WellFormed(s)
      /\ id \in TradeCycleIds
      /\ ExposedIn(abi, late) \subseteq {id}
  BY CancelFacts DEF CancelConfirmed
<1>2. /\ UNCHANGED <<store, poisoned, file, owner, ctx, late, clock, journal>>
      /\ abi' = [abi EXCEPT ![id].status = "cancelled"]
  BY DEF CancelConfirmed, Cancelled
<1>3. /\ abi' \in [TradeCycleIds -> AbiCycles]
      /\ ExchangeOK(abi')
      /\ ExposedIn(abi', late') = {}
  BY <1>1, <1>2, EndedFacts
<1>4. /\ absent \in States /\ WellFormed(absent)
      /\ ~HasMarker(absent) /\ absent.current_trade_cycle = None
  BY <1>1, ConstantsAssumption, AbsentFacts
<1>5. /\ ctx \in [Threads -> Contexts] /\ late \in SUBSET Creates
      /\ file \in {"enabled", "disabled", "absent"}
      /\ abi \in [TradeCycleIds -> AbiCycles]
  BY DEF InductiveInvariant, TypeOK
<1>6. CASE SaveThen("bar", absent, "ended")
  <2>1. PointOK("bar", "ended", absent, ctx'["bar"], abi', late')
    BY DEF PointOK
  <2> QED
    BY <1>1, <1>2, <1>3, <1>4, <1>5, <1>6, <2>1, SaveThenStep DEF Continuations
<1>7. CASE /\ ctx["bar"].desired # None
           /\ \E new \in TradeCycleIds \ {id} :
                Fresh(new) /\ SaveThen("bar", MarkEntry(absent, new), "create")
  <2>1. PICK new \in TradeCycleIds \ {id} :
               Fresh(new) /\ SaveThen("bar", MarkEntry(absent, new), "create")
    BY <1>7
  <2>2. /\ MarkEntry(absent, new) \in States
        /\ WellFormed(MarkEntry(absent, new))
        /\ MarkEntry(absent, new).pending_entry_recovery = new
        /\ MarkEntry(absent, new).current_trade_cycle = None
    BY <1>4, <2>1, MarkEntryFacts
  <2>3. FreshIn(new, abi', late')
    BY <1>2, <1>5, <2>1 DEF Fresh, FreshIn
  <2>4. PointOK("bar", "create", MarkEntry(absent, new), ctx'["bar"], abi', late')
    BY <1>2, <1>7, <2>1, <2>2, <2>3, ConstantsAssumption DEF PointOK
  <2> QED
    BY <1>1, <1>2, <1>3, <1>5, <2>1, <2>2, <2>4, SaveThenStep DEF Continuations
<1> QED
  BY <1>6, <1>7 DEF CancelConfirmed

(* A cancel without an answer. *)
LEMMA CancelFailsStep ==
  ASSUME InductiveInvariant, CancelFails
  PROVE  InductiveInvariant'
<1> DEFINE id == st["bar"].pending_entry_recovery
<1>1. "bar" \in Threads /\ pc["bar"] \in AtWork /\ id \in TradeCycleIds
  BY CancelFacts DEF CancelFails
<1>2. UNCHANGED abi \/ abi' = [abi EXCEPT ![id].status = "cancelled"]
  BY DEF CancelFails, Cancelled
<1> QED
  BY <1>1, <1>2, GivesUpEndingStep DEF CancelFails

-----------------------------------------------------------------------------
(* The webhook. *)

(* A freeze of the stored cycle. *)
LEMMA FillCallbackStep ==
  ASSUME InductiveInvariant, NEW id \in TradeCycleIds, FillCallback(id)
  PROVE  InductiveInvariant'
<1> DEFINE new == apply_first_fill(store, abi[id].fill)
<1>1. TypeOK /\ store \in States /\ "fill" \in Threads
  BY DEF InductiveInvariant, TypeOK, Threads
<1>2. store.current_trade_cycle # None /\ abi[id].fill \in Nat
  BY <1>1 DEF FillCallback, CanFreeze, TypeOK, AbiCycles
<1>3. new \in States /\ Agrees(new, store)
  BY <1>1, <1>2, FirstFillType
<1>4. WellFormed(new) /\ ExposedIn(abi, late) \subseteq Tracked(new)
  BY <1>1, <1>3, AgreesFacts DEF InductiveInvariant
<1>5. PointOK("fill", "exit", new, ctx'["fill"], abi, late)
  BY DEF PointOK
<1>6. owner = None /\ owner' = "fill"
  BY DEF FillCallback, Acquire, Lock
<1> QED
  BY <1>1, <1>3, <1>4, <1>5, <1>6, QuietSaveThenStep
  DEF FillCallback, Continuations, TypeOK

-----------------------------------------------------------------------------
(* The resolver. *)

(* An attempt starts from the stored state and its marker. *)
LEMMA ResolverBeginStep ==
  ASSUME InductiveInvariant, ResolverBegin
  PROVE  InductiveInvariant'
<1> DEFINE closing == store.pending_close_recovery # None
           source == IF closing THEN store.pending_close_recovery
                                ELSE store.pending_entry_recovery
           p == IF closing THEN "close" ELSE "query"
<1>1. TypeOK /\ store \in States /\ "resolver" \in Threads
  BY DEF InductiveInvariant, TypeOK, Threads
<1>2. /\ owner = None /\ owner' = "resolver" /\ HasMarker(store)
      /\ Goto("resolver", p)
      /\ st' = [st EXCEPT !["resolver"] = store]
      /\ ctx' = [ctx EXCEPT !["resolver"].source = source]
      /\ UNCHANGED <<store, poisoned, file, then, abi, late, clock, journal>>
  BY DEF ResolverBegin, Acquire, Lock
<1>3. source \in TradeCycleIds
  BY <1>1, <1>2 DEF HasMarker, States
<1>4. /\ st' \in [Threads -> States] /\ st'["resolver"] = store
      /\ ctx' \in [Threads -> Contexts] /\ ctx'["resolver"].source = source
  <2>1. PICK id \in TradeCycleIds :
          id = source /\ ctx' = [ctx EXCEPT !["resolver"].source = id]
    BY <1>2, <1>3
  <2>2. ctx' \in [Threads -> Contexts] /\ ctx'["resolver"].source = id
    BY <1>1, <2>1, SourceType DEF TypeOK
  <2> QED
    BY <1>1, <1>2, <2>1, <2>2 DEF TypeOK
<1>5. Agrees(store, store)
  BY DEF Agrees
<1>6. PointOK("resolver", p, st'["resolver"], ctx'["resolver"], abi, late)
  BY <1>2, <1>4 DEF PointOK, HasMarker
<1> QED
  BY <1>1, <1>2, <1>4, <1>5, <1>6, QuietGotoStep DEF Points

(* What the resolver knows while it asks about an entry. *)
LEMMA QueryFacts ==
  ASSUME InductiveInvariant, pc["resolver"] \in {"query", "neutralize"}
  PROVE  /\ "resolver" \in Threads /\ pc["resolver"] \in AtWork
         /\ owner = "resolver"
         /\ st["resolver"] \in States
         /\ WellFormed(st["resolver"])
         /\ Agrees(st["resolver"], store)
         /\ ctx["resolver"].source \in TradeCycleIds
         /\ st["resolver"].pending_entry_recovery = ctx["resolver"].source
         /\ st["resolver"].pending_close_recovery = None
         /\ st["resolver"].current_trade_cycle # None =>
              st["resolver"].current_trade_cycle.trade_cycle_id = ctx["resolver"].source
         /\ Tracked(store) = {ctx["resolver"].source}
         /\ ExposedIn(abi, late) \subseteq {ctx["resolver"].source}
<1> DEFINE s == st["resolver"]
           id == ctx["resolver"].source
<1>1. "resolver" \in Threads /\ pc["resolver"] \in AtWork
  BY DEF Threads, AtWork
<1>2. /\ owner = "resolver"
      /\ s \in States
      /\ Agrees(s, store)
      /\ PointOK("resolver", pc["resolver"], s, ctx["resolver"], abi, late)
      /\ WellFormed(s)
      /\ Tracked(s) = Tracked(store)
      /\ ExposedIn(abi, late) \subseteq Tracked(s)
  BY <1>1, AtWorkFacts
<1>3. s.pending_entry_recovery # None /\ s.pending_entry_recovery = id
  BY <1>2 DEF PointOK
<1>4. /\ id \in TradeCycleIds
      /\ s.pending_close_recovery = None
      /\ s.current_trade_cycle # None => s.current_trade_cycle.trade_cycle_id = id
  BY <1>2, <1>3 DEF States, WellFormed
<1>5. Tracked(s) = {id}
  BY <1>3, <1>4 DEF Tracked
<1> QED
  BY <1>1, <1>2, <1>3, <1>4, <1>5

(* The order rests: it is adopted, or its removal is repeated. *)
LEMMA ResolverFindsLiveStep ==
  ASSUME InductiveInvariant, ResolverFindsLive
  PROVE  InductiveInvariant'
<1> DEFINE s == st["resolver"]
           id == ctx["resolver"].source
           new == WithCycle(s, id, abi[id].entry)
<1>1. /\ "resolver" \in Threads /\ owner = "resolver"
      /\ s \in States /\ Agrees(s, store)
      /\ id \in TradeCycleIds /\ s.pending_entry_recovery = id
      /\ s.pending_close_recovery = None
      /\ ExposedIn(abi, late) \subseteq {id}
  BY QueryFacts DEF ResolverFindsLive
<1>2. TypeOK
  BY DEF InductiveInvariant
<1>3. UNCHANGED <<store, poisoned, file, owner, ctx, abi, late, clock, journal>>
  BY DEF ResolverFindsLive
<1>4. CASE SaveThen("resolver", new, "exit")
  <2>1. abi[id].entry \in DesiredEntries
    BY <1>1, <1>2 DEF ResolverFindsLive, InductiveInvariant, ExchangeOK, TypeOK, AbiCycles
  <2>2. new \in States /\ WellFormed(new) /\ Tracked(new) = {id}
    BY <1>1, <2>1, AdoptFacts
  <2>3. PointOK("resolver", "exit", new, ctx'["resolver"], abi, late)
    BY DEF PointOK
  <2> QED
    BY <1>1, <1>2, <1>3, <1>4, <2>2, <2>3, QuietSaveThenStep DEF Continuations, TypeOK
<1>5. CASE Goto("resolver", "neutralize") /\ UNCHANGED <<st, then>>
  <2>1. PointOK("resolver", "neutralize", s, ctx["resolver"], abi, late)
    BY <1>1, ConstantsAssumption DEF PointOK
  <2> QED
    BY <1>1, <1>2, <1>3, <1>5, <2>1, QuietGotoStep DEF Points, TypeOK
<1> QED
  BY <1>4, <1>5 DEF ResolverFindsLive

(* A position is open: it is adopted and frozen, or the removal that lost  *)
(* to the fill is given up.                                                *)
LEMMA ResolverFindsPositionStep ==
  ASSUME InductiveInvariant, ResolverFindsPosition
  PROVE  InductiveInvariant'
<1> DEFINE s == st["resolver"]
           id == ctx["resolver"].source
           adopted == WithCycle(s, id, abi[id].entry)
           new == apply_first_fill(adopted, abi[id].fill)
<1>1. /\ "resolver" \in Threads /\ owner = "resolver"
      /\ s \in States /\ WellFormed(s)
      /\ id \in TradeCycleIds
      /\ s.pending_close_recovery = None
      /\ s.current_trade_cycle # None => s.current_trade_cycle.trade_cycle_id = id
      /\ ExposedIn(abi, late) \subseteq {id}
  BY QueryFacts DEF ResolverFindsPosition
<1>2. TypeOK
  BY DEF InductiveInvariant
<1>3. UNCHANGED <<store, poisoned, file, owner, ctx, abi, late, clock, journal>>
  BY DEF ResolverFindsPosition
<1>4. CASE SaveThen("resolver", new, "opened")
  <2>1. abi[id].entry \in DesiredEntries /\ abi[id].fill \in Nat
    BY <1>1, <1>2
    DEF ResolverFindsPosition, PositionOpen, InductiveInvariant, ExchangeOK, TypeOK, AbiCycles
  <2>2. /\ adopted \in States /\ adopted.current_trade_cycle # None
        /\ WellFormed(adopted) /\ Tracked(adopted) = {id} /\ ~HasMarker(adopted)
    BY <1>1, <2>1, AdoptFacts
  <2>3. new \in States /\ new.current_trade_cycle # None /\ Agrees(new, adopted)
    BY <2>1, <2>2, FirstFillType
  <2>4. WellFormed(new) /\ Tracked(new) = {id} /\ ~HasMarker(new)
    BY <2>2, <2>3, AgreesFacts
  <2>5. PointOK("resolver", "opened", new, ctx'["resolver"], abi, late)
    BY <2>3, <2>4 DEF PointOK
  <2> QED
    BY <1>1, <1>2, <1>3, <1>4, <2>3, <2>4, <2>5, QuietSaveThenStep DEF Continuations, TypeOK
<1>5. CASE /\ s.current_trade_cycle # None
           /\ SaveThen("resolver", ClearEntryMarker(s), "exit")
  <2>1. /\ ClearEntryMarker(s) \in States
        /\ WellFormed(ClearEntryMarker(s))
        /\ Tracked(ClearEntryMarker(s)) = {id}
    BY <1>1, <1>5, ClearFacts
  <2>2. PointOK("resolver", "exit", ClearEntryMarker(s), ctx'["resolver"], abi, late)
    BY DEF PointOK
  <2> QED
    BY <1>1, <1>2, <1>3, <1>5, <2>1, <2>2, QuietSaveThenStep DEF Continuations, TypeOK
<1> QED
  BY <1>4, <1>5 DEF ResolverFindsPosition

(* Nothing is exposed any more: ABI says terminal, or confirms a           *)
(* corrective CANCEL.                                                      *)
LEMMA ResolverDropsSteps ==
  ASSUME InductiveInvariant, ResolverFindsTerminal \/ NeutralizeAbsent
  PROVE  InductiveInvariant'
<1> DEFINE s == st["resolver"]
           id == ctx["resolver"].source
           absent == WithoutEntry(s)
<1>1. /\ "resolver" \in Threads /\ owner = "resolver"
      /\ s \in States /\ WellFormed(s)
      /\ id \in TradeCycleIds /\ s.pending_entry_recovery = id
      /\ ExposedIn(abi, late) \subseteq {id}
  BY QueryFacts DEF ResolverFindsTerminal, NeutralizeAbsent
<1>2. absent \in States /\ WellFormed(absent)
  BY <1>1, ConstantsAssumption, AbsentFacts
<1>3. UNCHANGED <<store, poisoned, file, owner, ctx, late, clock, journal>>
  BY DEF ResolverFindsTerminal, NeutralizeAbsent
<1>4. PICK c \in {"ended", "exit"} : SaveThen("resolver", absent, c)
  BY DEF ResolverFindsTerminal, NeutralizeAbsent
<1>5. TypeOK /\ ExchangeOK(abi)
  BY DEF InductiveInvariant
<1>6. /\ abi' \in [TradeCycleIds -> AbiCycles]
      /\ ExchangeOK(abi')
      /\ ExposedIn(abi', late') = {}
  <2>1. CASE ResolverFindsTerminal
    BY <1>1, <1>5, <2>1 DEF ResolverFindsTerminal, ExposedIn, TypeOK
  <2>2. CASE NeutralizeAbsent
    <3>1. abi' = [abi EXCEPT ![id].status = "cancelled"]
      BY <2>2 DEF NeutralizeAbsent, Cancelled
    <3> QED
      BY <1>1, <1>3, <3>1, EndedFacts
  <2> QED
    BY <2>1, <2>2
<1>7. PointOK("resolver", c, absent, ctx'["resolver"], abi', late')
  BY DEF PointOK
<1> QED
  BY <1>1, <1>2, <1>3, <1>4, <1>5, <1>6, <1>7, SaveThenStep DEF Continuations, TypeOK

(* An unknown identity is neutralised, not forgotten. *)
LEMMA ResolverFindsNothingStep ==
  ASSUME InductiveInvariant, ResolverFindsNothing
  PROVE  InductiveInvariant'
<1>1. /\ "resolver" \in Threads /\ owner = "resolver"
      /\ Agrees(st["resolver"], store)
      /\ ctx["resolver"].source \in TradeCycleIds
      /\ st["resolver"].pending_entry_recovery = ctx["resolver"].source
  BY QueryFacts DEF ResolverFindsNothing
<1>2. PointOK("resolver", "neutralize", st["resolver"], ctx["resolver"], abi, late)
  BY <1>1, ConstantsAssumption DEF PointOK
<1>3. TypeOK
  BY DEF InductiveInvariant
<1> QED
  BY <1>1, <1>2, <1>3, QuietGotoStep DEF ResolverFindsNothing, Points, TypeOK

(* A corrective CANCEL without an answer. *)
LEMMA NeutralizeFailsStep ==
  ASSUME InductiveInvariant, NeutralizeFails
  PROVE  InductiveInvariant'
<1> DEFINE id == ctx["resolver"].source
<1>1. "resolver" \in Threads /\ pc["resolver"] \in AtWork /\ id \in TradeCycleIds
  BY QueryFacts DEF NeutralizeFails
<1>2. UNCHANGED abi \/ abi' = [abi EXCEPT ![id].status = "cancelled"]
  BY DEF NeutralizeFails, Cancelled
<1> QED
  BY <1>1, <1>2, GivesUpEndingStep DEF NeutralizeFails

-----------------------------------------------------------------------------
(* The operator routes. *)

(* Enabling asks nothing of the state. *)
LEMMA OperatorEnablesStep ==
  ASSUME InductiveInvariant, OperatorEnables
  PROVE  InductiveInvariant'
<1>1. TypeOK /\ "operator" \in Threads
  BY DEF InductiveInvariant, Threads
<1>2. ctx' \in [Threads -> Contexts]
  <2>1. ctx \in [Threads -> Contexts]
    BY <1>1 DEF TypeOK
  <2>2. ctx' = [ctx EXCEPT !["operator"].command = "enable"]
    BY DEF OperatorEnables
  <2>3. "enable" \in {"none", "enable", "disable", "cancel_orders", "delete", "close"}
    OBVIOUS
  <2> QED
    BY <1>1, <2>1, <2>2, <2>3, CommandType, Zenon
<1>3. owner = None /\ owner' = "operator"
  BY DEF OperatorEnables, Lock
<1>4. PointOK("operator", "op_write", st'["operator"], ctx'["operator"], abi, late)
  BY DEF PointOK
<1> QED
  BY <1>1, <1>2, <1>3, <1>4, QuietGotoStep DEF OperatorEnables, Points, AtWork, TypeOK

(* A command starts from a stored state without a marker. *)
LEMMA OperatorBeginStep ==
  ASSUME InductiveInvariant,
         NEW command \in {"disable", "cancel_orders", "delete", "close"},
         OperatorBegin(command)
  PROVE  InductiveInvariant'
<1> DEFINE cycle == store.current_trade_cycle
           p == IF cycle = None THEN "op_write" ELSE "op_lookup"
<1>1. TypeOK /\ store \in States /\ "operator" \in Threads
  BY DEF InductiveInvariant, TypeOK, Threads
<1>2. /\ owner = None /\ owner' = "operator" /\ ~HasMarker(store)
      /\ Goto("operator", p)
      /\ st' = [st EXCEPT !["operator"] = store]
      /\ UNCHANGED <<store, poisoned, file, then, abi, late, clock, journal>>
  BY DEF OperatorBegin, Acquire, Lock
<1>3. PICK id \in TradeCycleIds \cup {None} :
        /\ cycle # None => id = cycle.trade_cycle_id
        /\ ctx' = [ctx EXCEPT !["operator"].command = command, !["operator"].source = id]
  <2>1. CASE cycle = None
    BY <2>1 DEF OperatorBegin
  <2>2. CASE cycle # None
    <3>1. cycle.trade_cycle_id \in TradeCycleIds
      BY <1>1, <2>2 DEF States, Cycles
    <3> QED
      BY <2>2, <3>1 DEF OperatorBegin
  <2> QED
    BY <2>1, <2>2
<1>4. ctx' \in [Threads -> Contexts] /\ ctx'["operator"].source = id
  <2>1. ctx \in [Threads -> Contexts]
    BY <1>1 DEF TypeOK
  <2>2. command \in {"none", "enable", "disable", "cancel_orders", "delete", "close"}
    OBVIOUS
  <2> DEFINE c == [ctx["operator"] EXCEPT !.command = command, !.source = id]
  <2>3. ctx["operator"] \in Contexts
    BY <1>1, <2>1
  <2>4. c \in Contexts /\ c.source = id
    BY <1>3, <2>2, <2>3 DEF Contexts
  <2>5. ctx' = [ctx EXCEPT !["operator"] = c]
    <3> HIDE DEF Contexts
    <3> QED
      BY <1>1, <1>3, <2>1
  <2> HIDE DEF c, Contexts
  <2> QED
    BY <1>1, <2>1, <2>4, <2>5
<1>5. st' \in [Threads -> States] /\ st'["operator"] = store
  BY <1>1, <1>2 DEF TypeOK
<1>6. Agrees(store, store)
  BY DEF Agrees
<1>7. PointOK("operator", p, st'["operator"], ctx'["operator"], abi, late)
  BY <1>2, <1>3, <1>4, <1>5 DEF PointOK
<1> QED
  BY <1>1, <1>2, <1>4, <1>5, <1>6, <1>7, QuietGotoStep DEF Points

(* What an operator command knows once it has begun. *)
LEMMA OperatorFacts ==
  ASSUME InductiveInvariant, pc["operator"] \in {"op_lookup", "op_cancel", "op_disable"}
  PROVE  /\ "operator" \in Threads /\ pc["operator"] \in AtWork
         /\ owner = "operator"
         /\ st["operator"] \in States
         /\ Agrees(st["operator"], store)
         /\ st["operator"].current_trade_cycle # None
         /\ ~HasMarker(st["operator"])
         /\ ExposedIn(abi, late) \subseteq Tracked(st["operator"])
         /\ Tracked(st["operator"]) = {st["operator"].current_trade_cycle.trade_cycle_id}
         /\ pc["operator"] # "op_disable" =>
              /\ ctx["operator"].source = st["operator"].current_trade_cycle.trade_cycle_id
              /\ ctx["operator"].source \in TradeCycleIds
<1> DEFINE s == st["operator"]
<1>1. "operator" \in Threads /\ pc["operator"] \in AtWork
  BY DEF Threads, AtWork
<1>2. /\ owner = "operator"
      /\ s \in States
      /\ Agrees(s, store)
      /\ PointOK("operator", pc["operator"], s, ctx["operator"], abi, late)
      /\ ExposedIn(abi, late) \subseteq Tracked(s)
  BY <1>1, AtWorkFacts
<1>3. /\ s.current_trade_cycle # None
      /\ ~HasMarker(s)
      /\ pc["operator"] # "op_disable" =>
           ctx["operator"].source = s.current_trade_cycle.trade_cycle_id
  BY <1>2 DEF PointOK
<1>4. s.current_trade_cycle.trade_cycle_id \in TradeCycleIds
  BY <1>2, <1>3 DEF States, Cycles
<1>5. Tracked(s) = {s.current_trade_cycle.trade_cycle_id}
  BY <1>3 DEF Tracked, HasMarker
<1> QED
  BY <1>1, <1>2, <1>3, <1>4, <1>5

(* No position: on to the CANCEL. *)
LEMMA OperatorFindsFlatStep ==
  ASSUME InductiveInvariant, OperatorFindsFlat
  PROVE  InductiveInvariant'
<1>1. /\ "operator" \in Threads /\ owner = "operator"
      /\ Agrees(st["operator"], store)
      /\ st["operator"].current_trade_cycle # None
      /\ ~HasMarker(st["operator"])
      /\ ctx["operator"].source = st["operator"].current_trade_cycle.trade_cycle_id
  BY OperatorFacts DEF OperatorFindsFlat
<1>2. PointOK("operator", "op_cancel", st["operator"], ctx["operator"], abi, late)
  BY <1>1 DEF PointOK
<1>3. TypeOK
  BY DEF InductiveInvariant
<1> QED
  BY <1>1, <1>2, <1>3, QuietGotoStep DEF OperatorFindsFlat, Points, TypeOK

(* A position to close: frozen first, if no bar has done so. *)
LEMMA OperatorFindsPositionStep ==
  ASSUME InductiveInvariant, OperatorFindsPosition
  PROVE  InductiveInvariant'
<1> DEFINE s == st["operator"]
           id == ctx["operator"].source
           new == apply_first_fill(s, abi[id].fill)
<1>1. /\ "operator" \in Threads /\ pc["operator"] \in AtWork /\ owner = "operator"
      /\ s \in States /\ Agrees(s, store)
      /\ s.current_trade_cycle # None /\ ~HasMarker(s)
      /\ id \in TradeCycleIds
  BY OperatorFacts DEF OperatorFindsPosition
<1>2. /\ TypeOK
      /\ abi \in [TradeCycleIds -> AbiCycles] /\ ExchangeOK(abi)
  BY DEF InductiveInvariant, TypeOK
<1>3. UNCHANGED <<store, poisoned, file, owner, ctx, abi, late, clock, journal>>
  BY DEF OperatorFindsPosition
<1>4. CASE Goto("operator", "op_disable") /\ UNCHANGED <<st, then>>
  <2>1. PointOK("operator", "op_disable", s, ctx["operator"], abi, late)
    BY <1>1 DEF PointOK
  <2> QED
    BY <1>1, <1>2, <1>3, <1>4, <2>1, QuietGotoStep DEF Points, TypeOK
<1>5. CASE \E c \in {"opened", "op_disable"} : SaveThen("operator", new, c)
  <2>1. abi[id].fill \in Nat
    BY <1>1, <1>2 DEF OperatorFindsPosition, PositionOpen, ExchangeOK, AbiCycles
  <2>2. new \in States /\ new.current_trade_cycle # None /\ Agrees(new, s)
    BY <1>1, <2>1, FirstFillType
  <2>3. PICK c \in {"opened", "op_disable"} : SaveThen("operator", new, c)
    BY <1>5
  <2> QED
    BY <1>1, <1>2, <1>3, <2>2, <2>3, FactSaveStep
<1> QED
  BY <1>4, <1>5 DEF OperatorFindsPosition

(* A confirmed CANCEL: nothing is exposed when the cycle is dropped. *)
LEMMA OperatorCancelledStep ==
  ASSUME InductiveInvariant, OperatorCancelled
  PROVE  InductiveInvariant'
<1> DEFINE s == st["operator"]
           id == ctx["operator"].source
<1>1. /\ "operator" \in Threads /\ owner = "operator"
      /\ s \in States /\ ~HasMarker(s)
      /\ id \in TradeCycleIds
      /\ ExposedIn(abi, late) \subseteq {id}
  BY OperatorFacts DEF OperatorCancelled
<1>2. /\ UNCHANGED <<store, poisoned, file, owner, ctx, late, clock, journal>>
      /\ abi' = [abi EXCEPT ![id].status = "cancelled"]
      /\ SaveThen("operator", WithoutCycle(s), "op_ended")
  BY DEF OperatorCancelled, Cancelled
<1>3. /\ abi' \in [TradeCycleIds -> AbiCycles]
      /\ ExchangeOK(abi')
      /\ ExposedIn(abi', late') = {}
  BY <1>1, <1>2, EndedFacts
<1>4. WithoutCycle(s) \in States /\ WellFormed(WithoutCycle(s))
  BY <1>1, WithoutType DEF WithoutCycle, WellFormed, HasMarker, States
<1>5. PointOK("operator", "op_ended", WithoutCycle(s), ctx'["operator"], abi', late')
  BY DEF PointOK
<1>6. TypeOK
  BY DEF InductiveInvariant
<1> QED
  BY <1>1, <1>2, <1>3, <1>4, <1>5, <1>6, SaveThenStep DEF Continuations, TypeOK

(* A CANCEL without an answer. *)
LEMMA OperatorCancelFailsStep ==
  ASSUME InductiveInvariant, OperatorCancelFails
  PROVE  InductiveInvariant'
<1> DEFINE id == ctx["operator"].source
<1>1. "operator" \in Threads /\ pc["operator"] \in AtWork /\ id \in TradeCycleIds
  BY OperatorFacts DEF OperatorCancelFails
<1>2. UNCHANGED abi \/ abi' = [abi EXCEPT ![id].status = "cancelled"]
  BY DEF OperatorCancelFails, Cancelled
<1> QED
  BY <1>1, <1>2, GivesUpEndingStep DEF OperatorCancelFails

(* The deployment file is written. *)
LEMMA OperatorWritesStep ==
  ASSUME InductiveInvariant, OperatorWrites
  PROVE  InductiveInvariant'
<1>1. TypeOK /\ "operator" \in Threads
  BY DEF InductiveInvariant, Threads
<1>2. owner = "operator"
  BY <1>1, InHandler DEF OperatorWrites
<1>3. file' \in {"enabled", "disabled", "absent"}
  BY <1>1 DEF OperatorWrites, FileAfter, TypeOK
<1>4. PointOK("operator", "exit", st'["operator"], ctx'["operator"], abi, late)
  BY DEF PointOK
<1>5. ExchangeOK(abi) /\ ExposedIn(abi, late) \subseteq Tracked(store)
  BY DEF InductiveInvariant
<1> QED
  BY <1>1, <1>2, <1>3, <1>4, <1>5, GotoStep DEF OperatorWrites, Points, AtWork, TypeOK

(* The close command disables the strategy and marks the close. *)
LEMMA OperatorDisablesStep ==
  ASSUME InductiveInvariant, OperatorDisables
  PROVE  InductiveInvariant'
<1> DEFINE s == st["operator"]
<1>1. /\ "operator" \in Threads /\ owner = "operator"
      /\ s \in States
      /\ s.current_trade_cycle # None /\ ~HasMarker(s)
      /\ ExposedIn(abi, late) \subseteq Tracked(s)
  BY OperatorFacts DEF OperatorDisables
<1>2. TypeOK /\ ExchangeOK(abi) /\ ExposedIn(abi, late) \subseteq Tracked(store)
  BY DEF InductiveInvariant
<1>3. UNCHANGED <<store, poisoned, owner, ctx, abi, late, clock, journal>>
  BY DEF OperatorDisables
<1>4. CASE file' = "disabled" /\ SaveThen("operator", MarkClose(s), "close")
  <2>1. /\ MarkClose(s) \in States
        /\ WellFormed(MarkClose(s))
        /\ Tracked(MarkClose(s)) = Tracked(s)
        /\ MarkClose(s).pending_close_recovery # None
    BY <1>1, MarkCloseFacts
  <2>2. PointOK("operator", "close", MarkClose(s), ctx'["operator"], abi, late)
    BY <2>1 DEF PointOK
  <2> QED
    BY <1>1, <1>2, <1>3, <1>4, <2>1, <2>2, SaveThenStep DEF Continuations, TypeOK
<1>5. CASE Goto("operator", "exit") /\ UNCHANGED <<file, st, then>>
  <2>1. PointOK("operator", "exit", st'["operator"], ctx'["operator"], abi, late)
    BY DEF PointOK
  <2> QED
    BY <1>1, <1>2, <1>3, <1>5, <2>1, QuietGotoStep DEF Points, AtWork, TypeOK
<1> QED
  BY <1>4, <1>5 DEF OperatorDisables

-----------------------------------------------------------------------------
(* The exchange, the network and the process. *)

(* The exchange moves a cycle it knows, or a late request goes: nothing    *)
(* new is exposed and no fresh identity is touched.                        *)
LEMMA ExchangeStep ==
  ASSUME InductiveInvariant, Exchange
  PROVE  InductiveInvariant'
<1>1. /\ TypeOK /\ ExchangeOK(abi)
      /\ abi \in [TradeCycleIds -> AbiCycles]
      /\ late \in SUBSET Creates
      /\ clock \in Nat
  BY DEF InductiveInvariant, TypeOK
<1>2. ASSUME NEW id \in TradeCycleIds, Fill(id)
      PROVE  InductiveInvariant'
  <2>1. PICK status \in {"partial", "open"} :
          abi' = [abi EXCEPT ![id] = [@ EXCEPT !.status = status, !.fill = clock]]
    BY <1>2 DEF Fill
  <2>2. [abi[id] EXCEPT !.status = status, !.fill = clock] \in AbiCycles
    BY <1>1 DEF AbiCycles
  <2>3. /\ abi' \in [TradeCycleIds -> AbiCycles]
        /\ abi'[id].status = status /\ abi'[id].fill = clock
        /\ abi'[id].entry = abi[id].entry
        /\ \A i \in TradeCycleIds \ {id} : abi'[i] = abi[i]
    BY <1>1, <2>1, <2>2 DEF AbiCycles
  <2>4. abi[id].status = "live" /\ UNCHANGED <<runtime, late, clock>>
    BY <1>2 DEF Fill
  <2>5. ExchangeOK(abi')
    BY <1>1, <2>3, <2>4, ConstantsAssumption DEF ExchangeOK
  <2>6. ExposedIn(abi', late') \subseteq ExposedIn(abi, late)
    BY <2>3, <2>4 DEF ExposedIn
  <2>7. \A i \in TradeCycleIds : FreshIn(i, abi, late) => FreshIn(i, abi', late')
    BY <2>3, <2>4 DEF FreshIn
  <2>8. TypeOK'
    BY <1>1, <2>3, <2>4 DEF TypeOK, runtime
  <2> QED
    BY <2>4, <2>5, <2>6, <2>7, <2>8, OutsideStep DEF runtime
<1>3. ASSUME NEW id \in TradeCycleIds, FillRest(id)
      PROVE  InductiveInvariant'
  <2>1. /\ abi' = [abi EXCEPT ![id].status = "open"]
        /\ abi[id].status = "partial"
        /\ UNCHANGED <<runtime, late, clock>>
    BY <1>3 DEF FillRest
  <2>2. /\ abi' \in [TradeCycleIds -> AbiCycles]
        /\ abi'[id].status = "open" /\ abi'[id].fill = abi[id].fill
        /\ abi'[id].entry = abi[id].entry
        /\ \A i \in TradeCycleIds \ {id} : abi'[i] = abi[i]
    BY <1>1, <2>1 DEF AbiCycles
  <2>3. ExchangeOK(abi')
    BY <1>1, <2>1, <2>2 DEF ExchangeOK
  <2>4. ExposedIn(abi', late') \subseteq ExposedIn(abi, late)
    BY <2>1, <2>2 DEF ExposedIn
  <2>5. \A i \in TradeCycleIds : FreshIn(i, abi, late) => FreshIn(i, abi', late')
    BY <2>1, <2>2 DEF FreshIn
  <2>6. TypeOK'
    BY <1>1, <2>1, <2>2 DEF TypeOK, runtime
  <2> QED
    BY <2>1, <2>3, <2>4, <2>5, <2>6, OutsideStep DEF runtime
<1>4. ASSUME NEW id \in TradeCycleIds, EntryDies(id) \/ PositionEnds(id)
      PROVE  InductiveInvariant'
  <2>1. PICK end \in {"cancelled", "ended"} :
          /\ abi' = [abi EXCEPT ![id].status = end]
          /\ end = "ended" => PositionOpen(id)
    BY <1>4 DEF EntryDies, PositionEnds, Cancelled
  <2>2. abi[id].status \in {"live", "partial", "open"} /\ UNCHANGED <<runtime, late, clock>>
    BY <1>4 DEF EntryDies, PositionEnds, PositionOpen
  <2>3. end = "ended" => abi[id].entry # None /\ abi[id].fill # None
    BY <1>1, <2>1 DEF PositionOpen, ExchangeOK
  <2>4. /\ abi' \in [TradeCycleIds -> AbiCycles]
        /\ ExchangeOK(abi')
        /\ ExposedIn(abi', late') \subseteq ExposedIn(abi, late)
    BY <2>1, <2>2, <2>3, EndedFacts
  <2>5. \A i \in TradeCycleIds : FreshIn(i, abi, late) => FreshIn(i, abi', late')
    BY <1>1, <2>1, <2>2 DEF FreshIn
  <2>6. TypeOK'
    BY <1>1, <2>2, <2>4 DEF TypeOK, runtime
  <2> QED
    BY <2>2, <2>4, <2>5, <2>6, OutsideStep DEF runtime
<1>5. ASSUME NEW r \in late, LateArrives(r)
      PROVE  InductiveInvariant'
  <2>1. /\ abi[r.id].status = "none" /\ abi' = Place(r.id, r.entry)
        /\ late' = late \ {r} /\ UNCHANGED <<runtime, clock>>
        /\ r.id \in TradeCycleIds /\ r.entry \in DesiredEntries
    BY <1>1, <1>5 DEF LateArrives, Creates
  <2>2. r.id \in ExposedIn(abi, late)
    BY <2>1 DEF ExposedIn
  <2>3. /\ abi' \in [TradeCycleIds -> AbiCycles]
        /\ ExchangeOK(abi')
        /\ ExposedIn(abi', late') \subseteq ExposedIn(abi, late)
    BY <2>1, <2>2, PlaceFacts
  <2>4. \A i \in TradeCycleIds : FreshIn(i, abi, late) => FreshIn(i, abi', late')
    BY <1>1, <2>1 DEF FreshIn, Place
  <2>5. TypeOK'
    BY <1>1, <2>1, <2>3 DEF TypeOK, runtime
  <2> QED
    BY <2>1, <2>3, <2>4, <2>5, OutsideStep DEF runtime
<1>6. ASSUME NEW r \in late, LateLost(r)
      PROVE  InductiveInvariant'
  <2>1. late' = late \ {r} /\ UNCHANGED <<runtime, abi, clock>>
    BY <1>6 DEF LateLost
  <2>2. /\ ExposedIn(abi', late') \subseteq ExposedIn(abi, late)
        /\ \A i \in TradeCycleIds : FreshIn(i, abi, late) => FreshIn(i, abi', late')
    BY <2>1 DEF ExposedIn, FreshIn
  <2>3. TypeOK'
    BY <1>1, <2>1 DEF TypeOK, runtime
  <2> QED
    BY <1>1, <2>1, <2>2, <2>3, OutsideStep DEF runtime
<1>7. CASE Tick
  <2>1. TypeOK'
    BY <1>1, <1>7 DEF Tick, TypeOK, runtime
  <2> QED
    BY <1>1, <1>7, <2>1, OutsideStep DEF Tick, runtime
<1> QED
  BY <1>2, <1>3, <1>4, <1>5, <1>6, <1>7 DEF Exchange

(* A write of another instance fails. *)
LEMMA StorePoisonedStep ==
  ASSUME InductiveInvariant, StorePoisoned
  PROVE  InductiveInvariant'
<1>1. TypeOK'
  BY DEF InductiveInvariant, StorePoisoned, TypeOK, local
<1>2. ExchangeOK(abi)
  BY DEF InductiveInvariant
<1> QED
  BY <1>1, <1>2, OutsideStep DEF StorePoisoned, local

(* A restart: no handler is under way, and a CREATE that was being sent is *)
(* named by the marker in the store.                                       *)
LEMMA CrashStep ==
  ASSUME InductiveInvariant, Crash
  PROVE  InductiveInvariant'
<1>1. TypeOK
  BY DEF InductiveInvariant
<1>2. InitialState \in States /\ NoContext \in Contexts
  BY DEF InitialState, States, NoContext, Contexts
<1>3. late' \in SUBSET Creates /\ ExposedIn(abi, late') \subseteq Tracked(store)
  <2>1. CASE UNCHANGED late
    BY <1>1, <2>1 DEF TypeOK, InductiveInvariant
  <2>2. CASE /\ pc["bar"] = "create"
             /\ late' = late \cup {[id |-> st["bar"].pending_entry_recovery,
                                    entry |-> ctx["bar"].desired]}
    <3>1. /\ ctx["bar"].desired \in DesiredEntries
          /\ st["bar"].pending_entry_recovery \in TradeCycleIds
          /\ Tracked(store) = {st["bar"].pending_entry_recovery}
          /\ ExposedIn(abi, late) = {}
      BY <2>2, CreateFacts
    <3>2. late' \in SUBSET Creates
      BY <1>1, <2>2, <3>1 DEF TypeOK, Creates
    <3>3. ExposedIn(abi, late')
            \subseteq ExposedIn(abi, late) \cup {st["bar"].pending_entry_recovery}
      BY <2>2 DEF ExposedIn
    <3> QED
      BY <3>1, <3>2, <3>3
  <2> QED
    BY <2>1, <2>2 DEF Crash
<1>4. TypeOK'
  BY <1>1, <1>2, <1>3 DEF Crash, TypeOK, Points, Continuations
<1>5. \A t \in Threads : pc'[t] = "idle"
  BY DEF Crash
<1>6. MutexOK'
  BY <1>5 DEF MutexOK
<1>7. \A t \in Threads : ThreadOK(t, pc'[t], st'[t], then'[t], ctx'[t], store', abi', late')
  BY <1>5, OutsideOK
<1>8. UNCHANGED <<store, abi>>
  BY DEF Crash
<1> QED
  BY <1>3, <1>4, <1>6, <1>7, <1>8 DEF InductiveInvariant

-----------------------------------------------------------------------------
(* The theorems. *)

(* The invariant holds of a fresh instance. *)
LEMMA InitInvariant ==
  Init => InductiveInvariant
<1> SUFFICES ASSUME Init PROVE InductiveInvariant
  OBVIOUS
<1>1. InitialState \in States /\ NoContext \in Contexts /\ NoAbiCycle \in AbiCycles
  BY DEF InitialState, States, NoContext, Contexts, NoAbiCycle, AbiCycles
<1>2. TypeOK
  <2>1. journal \in [TradeCycleIds -> [Kinds -> 0 .. 2]]
    BY DEF Init
  <2>2. /\ owner \in Threads \cup {None}
        /\ pc \in [Threads -> Points]
        /\ then \in [Threads -> Continuations]
    BY DEF Init, Points, Continuations
  <2>3. /\ store \in States
        /\ st \in [Threads -> States]
        /\ ctx \in [Threads -> Contexts]
        /\ abi \in [TradeCycleIds -> AbiCycles]
        /\ late \in SUBSET Creates
    BY <1>1 DEF Init
  <2>4. poisoned \in BOOLEAN /\ file \in {"enabled", "disabled", "absent"} /\ clock \in Nat
    BY DEF Init
  <2> QED
    BY <2>1, <2>2, <2>3, <2>4 DEF TypeOK
<1>3. ExchangeOK(abi)
  BY DEF Init, ExchangeOK, NoAbiCycle
<1>4. MutexOK
  BY DEF Init, MutexOK
<1>5. WellFormed(store)
  BY DEF Init, WellFormed, InitialState
<1>6. ExposedIn(abi, late) = {}
  BY DEF Init, ExposedIn, NoAbiCycle
<1>7. \A t \in Threads : ThreadOK(t, pc[t], st[t], then[t], ctx[t], store, abi, late)
  BY OutsideOK DEF Init
<1> QED
  BY <1>2, <1>3, <1>4, <1>5, <1>6, <1>7 DEF InductiveInvariant

(* Every step of every thread, of the exchange and of the process keeps    *)
(* the invariant.                                                          *)
LEMMA StepInvariant ==
  InductiveInvariant /\ [Next]_vars => InductiveInvariant'
<1> SUFFICES ASSUME InductiveInvariant, [Next]_vars PROVE InductiveInvariant'
  OBVIOUS
<1>1. ASSUME NEW t \in Threads, Handler(t) PROVE InductiveInvariant'
  BY <1>1, SaveStep, SaveFailsStep, ReleaseStep, JournalSteps, CallFailsStep,
     CloseConfirmedStep, CloseFailsStep DEF Handler
<1>2. CASE Bar
  BY <1>2, BarOutsideSteps, BarBeginStep, BarFindsClosureStep, BarFindsPositionStep,
     BarQuietSteps, RemainderSteps, EngineOpenTradeStep, ProtectionAppliedStep,
     EngineLiveEntryStep, CreateAppliedStep, EntryRefusedSteps, CreateFailsStep,
     CancelConfirmedStep, CancelFailsStep DEF Bar
<1>3. ASSUME NEW id \in TradeCycleIds, FillCallback(id) PROVE InductiveInvariant'
  BY <1>3, FillCallbackStep
<1>4. CASE Resolver
  BY <1>4, ResolverBeginStep, ResolverFindsLiveStep, ResolverFindsPositionStep,
     ResolverDropsSteps, ResolverFindsNothingStep, NeutralizeFailsStep DEF Resolver
<1>5. CASE Operator
  BY <1>5, OperatorEnablesStep, OperatorBeginStep, OperatorFindsFlatStep,
     OperatorFindsPositionStep, OperatorCancelledStep, OperatorCancelFailsStep,
     OperatorWritesStep, OperatorDisablesStep DEF Operator
<1>6. CASE Exchange \/ StorePoisoned \/ Crash
  BY <1>6, ExchangeStep, StorePoisonedStep, CrashStep
<1>7. CASE UNCHANGED vars
  BY <1>7 DEF vars, InductiveInvariant, TypeOK, MutexOK
<1> QED
  BY <1>1, <1>2, <1>3, <1>4, <1>5, <1>6, <1>7 DEF Next

(* The inductive invariant holds in every reachable state, for every set   *)
(* of trade cycles, protections and bars and in both live-entry modes.     *)
THEOREM Invariance == Spec => []InductiveInvariant
<1> QED
  BY InitInvariant, StepInvariant, PTL DEF Spec

(* Type correctness of the strategy instance. *)
THEOREM TypeCorrect == Spec => []TypeOK
<1>1. InductiveInvariant => TypeOK
  BY DEF InductiveInvariant
<1> QED
  BY <1>1, Invariance, PTL

(* Every durable record passes StrategyInstanceRuntimeState.__post_init__, *)
(* so that no handler raises while it builds a state and a replay refuses  *)
(* none.                                                                   *)
THEOREM WellFormedStates == Spec => []StatesWellFormed
<1>1. InductiveInvariant => StatesWellFormed
  BY DEF InductiveInvariant, StatesWellFormed
<1> QED
  BY <1>1, Invariance, PTL

(* No order and no position is ever left on the exchange under a trade     *)
(* cycle the durable state of the runtime does not name.                   *)
THEOREM OrphanFree == Spec => []NoOrphan
<1>1. InductiveInvariant => NoOrphan
  <2>1. Exposed = ExposedIn(abi, late)
    BY DEF Exposed, ExposedIn, Active, PositionOpen
  <2> QED
    BY <2>1 DEF InductiveInvariant, NoOrphan
<1> QED
  BY <1>1, Invariance, PTL

(* A CREATE, a CANCEL of a bar or of the resolver, and a CLOSE are under   *)
(* way only while the durable record carries their recovery marker.        *)
THEOREM MarkersPrecedeCommands == Spec => []MarkedBeforeSent
<1>1. InductiveInvariant => MarkedBeforeSent
  <2> SUFFICES ASSUME InductiveInvariant, NEW t \in Threads,
                      pc[t] \in {"create", "cancel", "neutralize", "close"}
               PROVE  /\ pc[t] # "close" =>
                           /\ store.pending_entry_recovery # None
                           /\ store.pending_entry_recovery = st[t].pending_entry_recovery
                      /\ pc[t] = "close" =>
                           /\ store.pending_close_recovery # None
                           /\ store.pending_close_recovery = st[t].pending_close_recovery
    BY DEF MarkedBeforeSent
  <2>1. /\ st[t] \in States
        /\ Agrees(st[t], store)
        /\ PointOK(t, pc[t], st[t], ctx[t], abi, late)
    BY AtWorkFacts DEF AtWork
  <2>2. pc[t] = "cancel" => st[t].pending_entry_recovery \in TradeCycleIds
    BY <2>1 DEF PointOK, States, Cycles
  <2> QED
    BY <2>1, <2>2, ConstantsAssumption DEF PointOK, Agrees
<1> QED
  BY <1>1, Invariance, PTL
=============================================================================
