--------------------------- MODULE TradeCycleProofs ---------------------------
(***************************************************************************)
(* More about StrategyInstance, on top of the invariant that               *)
(* StrategyInstanceProofs establishes: the stored cycle is the truth about *)
(* the exchange, no save undoes a fact, the journal says what happened,    *)
(* an order lives as long as it should, and the whole implements the       *)
(* trader's ledger.  Last, about ExchangeProtection: the protection the    *)
(* store acknowledges is the one in force.                                 *)
(***************************************************************************)
EXTENDS StrategyInstanceProofs, ExchangeProtection

-----------------------------------------------------------------------------
(* The invariant, in parts. *)

Filled == {"partial", "open", "ended"}

(* Only an entry that filled has the bar of a fill. *)
FillKnown(a) == \A id \in TradeCycleIds : a[id].fill # None => a[id].status \in Filled

(* What an aggregate holds of its cycle is so on the exchange. *)
Matches(s, a) ==
  LET cycle == s.current_trade_cycle
      known == a[cycle.trade_cycle_id]
  IN cycle # None =>
       /\ known.status # "none"
       /\ known.entry = cycle.desired_entry
       /\ cycle.frozen_entry_context # None =>
            /\ known.status \in Filled
            /\ cycle.frozen_entry_context.entry_bar = known.fill
            /\ cycle.frozen_entry_context.desired_entry = known.entry
       /\ cycle.entry_remainder_cancelled => known.status \in {"open", "ended"}

(* What is still to be recorded of the cycles an aggregate answers for. *)
Unrecorded(s, j) ==
  LET cycle == s.current_trade_cycle
      marked == s.pending_entry_recovery
  IN /\ cycle # None =>
          /\ j[cycle.trade_cycle_id]["closed"] = 0
          /\ j[cycle.trade_cycle_id]["ended"] = 0
          /\ cycle.frozen_entry_context = None => j[cycle.trade_cycle_id]["opened"] = 0
     /\ cycle = None /\ marked # None =>
          \A kind \in Kinds : j[marked][kind] = 0

(* A cycle that ended with this status is let go and not yet reported. *)
Unreported(id, status, kind, s, a, j) ==
  /\ id \in TradeCycleIds
  /\ a[id].status = status
  /\ j[id][kind] = 0
  /\ id \notin Tracked(s)

(* What a later aggregate may not undo of an earlier one. *)
Keeps(old, new, a) ==
  LET was == old.current_trade_cycle
      is == new.current_trade_cycle
  IN was # None /\ was.frozen_entry_context # None =>
       IF is # None /\ is.trade_cycle_id = was.trade_cycle_id
       THEN /\ is.frozen_entry_context = was.frozen_entry_context
            /\ was.confirmed_protection # None => is.confirmed_protection # None
            /\ was.entry_remainder_cancelled => is.entry_remainder_cancelled
       ELSE a[was.trade_cycle_id].status = "ended"

(* The cycle an aggregate answers for. *)
Name(s) ==
  IF s.current_trade_cycle # None THEN s.current_trade_cycle.trade_cycle_id
  ELSE s.pending_entry_recovery

(* What a handler knows at a point, besides what PointOK says. *)
PointFacts(point, s, c, a, j) ==
  LET cycle == s.current_trade_cycle IN
  /\ point \in AtWork \ {"create", "query", "neutralize"} /\ cycle # None =>
       c.source = cycle.trade_cycle_id
  /\ point = "engine_entry" /\ cycle = None => c.source = None
  /\ point \in {"opened", "manage", "remainder", "engine_open", "protect", "op_disable"} =>
       cycle.frozen_entry_context # None
  /\ point = "opened" => j[cycle.trade_cycle_id]["opened"] = 0
  /\ point = "protect" => c.protection # None
  /\ point = "closed" => Unreported(c.source, "ended", "closed", s, a, j)
  /\ point \in {"ended", "op_ended"} => Unreported(c.source, "cancelled", "ended", s, a, j)
  /\ point = "create" /\ c.source # None => Unreported(c.source, "cancelled", "ended", s, a, j)
  /\ point = "cancel" /\ LiveEntryMode = "touch_trigger" =>
       c.bar > cycle.desired_entry.source_plan_bar + OrderLifetimeBars

(***************************************************************************)
(* A thread at point p with state s, about to go on at th; r is the store  *)
(* and bad whether it is poisoned.  A handler works on the stored state;   *)
(* only after a failed write may it go on with the one before, and then    *)
(* nothing of it will be stored.                                           *)
(***************************************************************************)
ThreadFacts(p, s, th, c, r, a, j, bad) ==
  /\ Matches(s, a)
  /\ Unrecorded(s, j)
  /\ p \in {"idle", "selected"} => s = InitialState /\ c.source = None
  /\ p # "save" => PointFacts(p, s, c, a, j)
  /\ p \in AtWork \cup {"closed", "ended", "op_ended"} =>
       s = r \/ (bad /\ p \in {"engine_open", "protect"})
  /\ p = "save" =>
       /\ PointFacts(th, s, c, a, j)
       /\ bad \/ Keeps(r, s, a)
       /\ Name(s) \in {None, Name(r)} \/ th = "create"
       /\ th = "engine_open" => r.current_trade_cycle.frozen_entry_context # None

CycleInv ==
  /\ FillKnown(abi)
  /\ Matches(store, abi)
  /\ Unrecorded(store, journal)
  /\ JournalTruthful
  /\ \A t \in Threads :
       ThreadFacts(pc[t], st[t], then[t], ctx[t], store, abi, journal, poisoned)
-----------------------------------------------------------------------------
(* The exchange only moves on. *)

(* What was placed keeps its entry, what filled keeps its fill, what is    *)
(* over stays over.                                                        *)
Advances(a, b) ==
  \A id \in TradeCycleIds :
    /\ a[id].status # "none" => b[id].status # "none" /\ b[id].entry = a[id].entry
    /\ a[id].status \in Filled => b[id].status \in Filled /\ b[id].fill = a[id].fill
    /\ a[id].status \in {"open", "ended"} => b[id].status \in {"open", "ended"}
    /\ a[id].status = "ended" => b[id].status = "ended"
    /\ a[id].status = "cancelled" => b[id].status = "cancelled"

(* An exchange that does not move advances. *)
LEMMA AdvancesSame == \A a : Advances(a, a)
BY DEF Advances

(* A position that ends, an entry that is cancelled unfilled, a remainder  *)
(* that fills or is cancelled.                                             *)
LEMMA StatusAdvances ==
  ASSUME NEW a \in [TradeCycleIds -> AbiCycles], FillKnown(a), NEW id \in TradeCycleIds,
         NEW status \in {"cancelled", "open", "ended"},
         status = "cancelled" => a[id].status \in {"none", "live", "cancelled"},
         status = "open" => a[id].status = "partial",
         status = "ended" => a[id].status \in Filled,
         NEW b, b = [a EXCEPT ![id].status = status]
  PROVE  /\ Advances(a, b)
         /\ FillKnown(b)
         /\ b[id].status = status
<1>1. /\ b[id].status = status /\ b[id].entry = a[id].entry /\ b[id].fill = a[id].fill
      /\ \A o \in TradeCycleIds : o # id => b[o] = a[o]
  BY DEF AbiCycles
<1>2. status = "cancelled" => a[id].fill = None
  BY DEF FillKnown, Filled
<1>3. FillKnown(b)
  BY <1>1, <1>2 DEF FillKnown, Filled
<1>4. Advances(a, b)
  BY <1>1 DEF Advances, Filled
<1> QED
  BY <1>1, <1>3, <1>4

(* A position ends. *)
LEMMA EndedAdvances ==
  ASSUME InductiveInvariant, CycleInv, NEW id \in TradeCycleIds, abi[id].status \in Filled,
         abi' = [abi EXCEPT ![id].status = "ended"]
  PROVE  Advances(abi, abi') /\ FillKnown(abi') /\ abi'[id].status = "ended"
<1>1. abi \in [TradeCycleIds -> AbiCycles] /\ FillKnown(abi)
  BY DEF InductiveInvariant, TypeOK, CycleInv
<1>2. abi'[id].status = "ended"
  BY <1>1 DEF AbiCycles
<1> QED
  BY <1>1, <1>2, StatusAdvances

(* An entry without a fill is cancelled. *)
LEMMA CancelledAdvances ==
  ASSUME InductiveInvariant, CycleInv, NEW id \in TradeCycleIds, Cancellable(id),
         abi' = Cancelled(id)
  PROVE  /\ Advances(abi, abi') /\ FillKnown(abi') /\ abi'[id].status = "cancelled"
         /\ \A o \in TradeCycleIds : o # id => abi'[o] = abi[o]
<1>1. abi \in [TradeCycleIds -> AbiCycles] /\ FillKnown(abi)
  BY DEF InductiveInvariant, TypeOK, CycleInv
<1>2. /\ abi'[id].status = "cancelled" /\ abi[id].status \in {"none", "live", "cancelled"}
      /\ \A o \in TradeCycleIds : o # id => abi'[o] = abi[o]
  BY <1>1 DEF AbiCycles, Cancelled, Cancellable
<1>3. abi' = [abi EXCEPT ![id].status = "cancelled"]
  BY DEF Cancelled
<1> QED
  BY <1>1, <1>2, <1>3, StatusAdvances

(* An order is placed under an identity of which the exchange had nothing. *)
LEMMA PlaceAdvances ==
  ASSUME abi \in [TradeCycleIds -> AbiCycles], FillKnown(abi), NEW id \in TradeCycleIds,
         abi[id].status = "none", NEW entry, abi' = Place(id, entry)
  PROVE  /\ Advances(abi, abi')
         /\ FillKnown(abi')
         /\ abi'[id].status = "live" /\ abi'[id].entry = entry
         /\ \A o \in TradeCycleIds : o # id => abi'[o] = abi[o]
<1>1. /\ abi'[id].status = "live" /\ abi'[id].entry = entry /\ abi'[id].fill = abi[id].fill
      /\ \A o \in TradeCycleIds : o # id => abi'[o] = abi[o]
  BY DEF Place, AbiCycles
<1>2. abi[id].fill = None
  BY DEF FillKnown, Filled
<1> QED
  BY <1>1, <1>2 DEF FillKnown, Advances, Filled

(* An order fills, wholly or in part. *)
LEMMA FillAdvances ==
  ASSUME NEW a \in [TradeCycleIds -> AbiCycles], FillKnown(a), NEW id \in TradeCycleIds,
         a[id].status = "live", NEW status \in {"partial", "open"}, NEW bar,
         NEW b, b = [a EXCEPT ![id] = [@ EXCEPT !.status = status, !.fill = bar]]
  PROVE  Advances(a, b) /\ FillKnown(b)
<1>1. /\ b[id].status = status /\ b[id].entry = a[id].entry /\ b[id].fill = bar
      /\ \A o \in TradeCycleIds : o # id => b[o] = a[o]
  BY DEF AbiCycles
<1> QED
  BY <1>1 DEF FillKnown, Advances, Filled

(* What an aggregate holds stays the truth. *)
LEMMA MatchesAdvance ==
  ASSUME NEW s \in States, NEW a, NEW b, Advances(a, b), Matches(s, a)
  PROVE  Matches(s, b)
<1> SUFFICES ASSUME s.current_trade_cycle # None PROVE Matches(s, b)
  BY DEF Matches
<1>1. s.current_trade_cycle.trade_cycle_id \in TradeCycleIds
  BY DEF States, Cycles
<1> QED
  BY <1>1 DEF Matches, Advances

(* What a handler knows stays so. *)
LEMMA PointFactsAdvance ==
  ASSUME NEW p, NEW s, NEW c, NEW a, NEW b, NEW j, Advances(a, b), PointFacts(p, s, c, a, j)
  PROVE  PointFacts(p, s, c, b, j)
<1>1. \A id, kind : /\ Unreported(id, "ended", kind, s, a, j) => Unreported(id, "ended", kind, s, b, j)
                    /\ Unreported(id, "cancelled", kind, s, a, j) =>
                         Unreported(id, "cancelled", kind, s, b, j)
  BY DEF Unreported, Advances
<1> QED
  BY <1>1 DEF PointFacts

(* What may be saved may still be saved. *)
LEMMA KeepsAdvance ==
  ASSUME NEW r \in States, NEW s, NEW a, NEW b, Advances(a, b), Keeps(r, s, a)
  PROVE  Keeps(r, s, b)
<1> SUFFICES ASSUME r.current_trade_cycle # None PROVE Keeps(r, s, b)
  BY DEF Keeps
<1>1. r.current_trade_cycle.trade_cycle_id \in TradeCycleIds
  BY DEF States, Cycles
<1> QED
  BY <1>1 DEF Keeps, Advances

(* The journal stays true. *)
LEMMA JournalAdvance ==
  ASSUME JournalTruthful, FillKnown(abi), Advances(abi, abi'), UNCHANGED journal
  PROVE  JournalTruthful'
<1> SUFFICES ASSUME NEW id \in TradeCycleIds
             PROVE  /\ \A kind \in Kinds : journal[id][kind] <= 1
                    /\ journal[id]["ended"] > 0 => abi'[id].status = "cancelled"
                    /\ journal[id]["closed"] > 0 => abi'[id].status = "ended"
                    /\ journal[id]["opened"] > 0 => abi'[id].fill # None
  BY DEF JournalTruthful
<1> QED
  BY DEF JournalTruthful, FillKnown, Advances

-----------------------------------------------------------------------------
(* The invariant across a step. *)

(* Outside the handlers a thread has nothing. *)
LEMMA OutsideFacts ==
  ASSUME NEW p \in {"idle", "selected"}, NEW th, NEW c, c.source = None,
         NEW r, NEW a, NEW j, NEW bad
  PROVE  ThreadFacts(p, InitialState, th, c, r, a, j, bad)
BY DEF ThreadFacts, InitialState, Matches, Unrecorded, PointFacts, AtWork

(* A step of one thread, which holds the mutex or takes it, needs to be    *)
(* looked at for that thread only.                                         *)
LEMMA OneThreadFacts ==
  ASSUME InductiveInvariant, CycleInv, NEW t \in Threads,
         owner = t \/ owner = None,
         \A u \in Threads \ {t} : pc'[u] = pc[u] /\ st'[u] = st[u] /\ ctx'[u] = ctx[u],
         FillKnown(abi'), Matches(store', abi'), Unrecorded(store', journal'), JournalTruthful',
         ThreadFacts(pc'[t], st'[t], then'[t], ctx'[t], store', abi', journal', poisoned')
  PROVE  CycleInv'
<1>1. \A u \in Threads \ {t} : pc[u] \in {"idle", "selected"}
  BY ThreadsAssumption DEF InductiveInvariant, MutexOK
<1>2. ASSUME NEW u \in Threads
      PROVE  ThreadFacts(pc'[u], st'[u], then'[u], ctx'[u], store', abi', journal', poisoned')
  <2>1. CASE u = t
    BY <2>1
  <2>2. CASE u # t
    <3>1. /\ pc'[u] \in {"idle", "selected"}
          /\ st'[u] = InitialState /\ ctx'[u].source = None
      BY <1>1, <2>2 DEF CycleInv, ThreadFacts
    <3> QED
      BY <3>1, OutsideFacts
  <2> QED
    BY <2>1, <2>2
<1> QED
  BY <1>2 DEF CycleInv

(* A step of the exchange, or a poisoned store. *)
LEMMA WorldFacts ==
  ASSUME InductiveInvariant, CycleInv, UNCHANGED <<store, pc, st, then, ctx, journal>>,
         poisoned' \in {poisoned, TRUE}, Advances(abi, abi'), FillKnown(abi')
  PROVE  CycleInv'
<1>1. store \in States /\ st \in [Threads -> States]
  BY DEF InductiveInvariant, TypeOK
<1>2. Matches(store, abi') /\ Unrecorded(store, journal) /\ JournalTruthful'
  BY <1>1, MatchesAdvance, JournalAdvance DEF CycleInv
<1>3. ASSUME NEW t \in Threads
      PROVE  ThreadFacts(pc[t], st[t], then[t], ctx[t], store, abi', journal, poisoned')
  <2>1. ThreadFacts(pc[t], st[t], then[t], ctx[t], store, abi, journal, poisoned)
    BY DEF CycleInv
  <2>2. Matches(st[t], abi')
    BY <1>1, <2>1, MatchesAdvance DEF ThreadFacts
  <2>3. \A p : PointFacts(p, st[t], ctx[t], abi, journal) => PointFacts(p, st[t], ctx[t], abi', journal)
    BY PointFactsAdvance
  <2>4. Keeps(store, st[t], abi) => Keeps(store, st[t], abi')
    BY <1>1, KeepsAdvance
  <2> QED
    BY <2>1, <2>2, <2>3, <2>4 DEF ThreadFacts
<1> QED
  BY <1>2, <1>3 DEF CycleInv

(* What a handler at work knows, of both invariants. *)
LEMMA WorkFacts ==
  ASSUME InductiveInvariant, CycleInv, NEW t \in Threads, pc[t] \in AtWork
  PROVE  /\ owner = t
         /\ st[t] \in States /\ store \in States /\ ctx[t] \in Contexts
         /\ abi \in [TradeCycleIds -> AbiCycles]
         /\ Agrees(st[t], store)
         /\ PointOK(t, pc[t], st[t], ctx[t], abi, late)
         /\ WellFormed(st[t])
         /\ Matches(st[t], abi)
         /\ Unrecorded(st[t], journal)
         /\ PointFacts(pc[t], st[t], ctx[t], abi, journal)
         /\ st[t] = store \/ (poisoned /\ pc[t] \in {"engine_open", "protect"})
         /\ Name(st[t]) = Name(store)
         /\ FillKnown(abi)
<1>1. /\ owner = t
      /\ st[t] \in States /\ store \in States /\ ctx[t] \in Contexts
      /\ Agrees(st[t], store)
      /\ PointOK(t, pc[t], st[t], ctx[t], abi, late)
      /\ WellFormed(st[t])
  BY AtWorkFacts
<1>2. abi \in [TradeCycleIds -> AbiCycles]
  BY DEF InductiveInvariant, TypeOK
<1>3. ThreadFacts(pc[t], st[t], then[t], ctx[t], store, abi, journal, poisoned) /\ FillKnown(abi)
  BY DEF CycleInv
<1>4. Name(st[t]) = Name(store)
  BY <1>1 DEF Name, Agrees
<1>5. pc[t] # "save"
  BY DEF AtWork
<1>6. /\ Matches(st[t], abi)
      /\ Unrecorded(st[t], journal)
      /\ PointFacts(pc[t], st[t], ctx[t], abi, journal)
      /\ st[t] = store \/ (poisoned /\ pc[t] \in {"engine_open", "protect"})
  BY <1>3, <1>5 DEF ThreadFacts
<1> QED
  BY <1>1, <1>2, <1>3, <1>4, <1>6

(* A step to the save of s. *)
LEMMA SaveThenFacts ==
  ASSUME InductiveInvariant, CycleInv, NEW t \in Threads, NEW s \in States, NEW c,
         owner = t \/ owner = None, SaveThen(t, s, c),
         UNCHANGED <<store, poisoned, journal>>,
         \A u \in Threads \ {t} : ctx'[u] = ctx[u],
         Advances(abi, abi'), FillKnown(abi'),
         Matches(s, abi'), Unrecorded(s, journal),
         PointFacts(c, s, ctx'[t], abi', journal),
         poisoned \/ Keeps(store, s, abi'),
         Name(s) \in {None, Name(store)} \/ c = "create",
         c = "engine_open" => store.current_trade_cycle.frozen_entry_context # None
  PROVE  CycleInv'
<1>1. TypeOK
  BY DEF InductiveInvariant
<1>2. /\ pc'[t] = "save" /\ st'[t] = s /\ then'[t] = c
      /\ \A u \in Threads \ {t} : pc'[u] = pc[u] /\ st'[u] = st[u]
  BY <1>1 DEF SaveThen, Goto, TypeOK
<1>3. ThreadFacts(pc'[t], st'[t], then'[t], ctx'[t], store', abi', journal', poisoned')
  BY <1>2 DEF ThreadFacts, AtWork
<1>4. Matches(store', abi') /\ Unrecorded(store', journal') /\ JournalTruthful'
  BY <1>1, MatchesAdvance, JournalAdvance DEF CycleInv, TypeOK
<1> QED
  BY <1>2, <1>3, <1>4, OneThreadFacts

(* The same, by a handler at work. *)
LEMMA WorkSaves ==
  ASSUME InductiveInvariant, CycleInv, NEW t \in Threads, pc[t] \in AtWork,
         NEW s \in States, NEW c, SaveThen(t, s, c),
         UNCHANGED <<store, poisoned, journal>>,
         \A u \in Threads \ {t} : ctx'[u] = ctx[u],
         Advances(abi, abi'), FillKnown(abi'),
         Matches(s, abi'), Unrecorded(s, journal),
         PointFacts(c, s, ctx'[t], abi', journal),
         Keeps(st[t], s, abi'),
         Name(s) \in {None, Name(st[t])} \/ c = "create",
         c = "engine_open" => pc[t] = "remainder"
  PROVE  CycleInv'
<1>1. /\ owner = t /\ Name(st[t]) = Name(store)
      /\ st[t] = store \/ (poisoned /\ pc[t] \in {"engine_open", "protect"})
      /\ PointFacts(pc[t], st[t], ctx[t], abi, journal)
  BY WorkFacts
<1>2. poisoned \/ Keeps(store, s, abi')
  BY <1>1
<1>3. c = "engine_open" => store.current_trade_cycle.frozen_entry_context # None
  BY <1>1 DEF PointFacts
<1> QED
  BY <1>1, <1>2, <1>3, SaveThenFacts

(* A step to a point other than a save that neither reports nor follows a  *)
(* save.                                                                   *)
LEMMA GotoFacts ==
  ASSUME InductiveInvariant, CycleInv, NEW t \in Threads, NEW p, NEW s \in States,
         p \notin {"idle", "selected", "save", "opened", "closed", "ended", "op_ended"},
         owner = t \/ owner = None, Goto(t, p),
         UNCHANGED <<store, poisoned, journal>>,
         st'[t] = s,
         \A u \in Threads \ {t} : st'[u] = st[u] /\ ctx'[u] = ctx[u],
         Advances(abi, abi'), FillKnown(abi'),
         Matches(s, abi'), Unrecorded(s, journal),
         PointFacts(p, s, ctx'[t], abi', journal),
         p \in AtWork => s = store \/ (poisoned /\ p \in {"engine_open", "protect"})
  PROVE  CycleInv'
<1>1. TypeOK
  BY DEF InductiveInvariant
<1>2. pc'[t] = p /\ \A u \in Threads \ {t} : pc'[u] = pc[u]
  BY <1>1 DEF Goto, TypeOK
<1>3. ThreadFacts(pc'[t], st'[t], then'[t], ctx'[t], store', abi', journal', poisoned')
  BY <1>2 DEF ThreadFacts
<1>4. Matches(store', abi') /\ Unrecorded(store', journal') /\ JournalTruthful'
  BY <1>1, MatchesAdvance, JournalAdvance DEF CycleInv, TypeOK
<1> QED
  BY <1>2, <1>3, <1>4, OneThreadFacts

(* The same, by a handler at work that keeps its state. *)
LEMMA WorkGoes ==
  ASSUME InductiveInvariant, CycleInv, NEW t \in Threads, pc[t] \in AtWork, NEW p,
         p \notin {"idle", "selected", "save", "opened", "closed", "ended", "op_ended"},
         Goto(t, p), UNCHANGED <<store, poisoned, journal, st>>,
         \A u \in Threads \ {t} : ctx'[u] = ctx[u],
         Advances(abi, abi'), FillKnown(abi'),
         PointFacts(p, st[t], ctx'[t], abi', journal),
         pc[t] \in {"engine_open", "protect"} => p \in {"protect", "exit"}
  PROVE  CycleInv'
<1>1. /\ owner = t /\ st[t] \in States
      /\ Matches(st[t], abi) /\ Unrecorded(st[t], journal)
      /\ st[t] = store \/ (poisoned /\ pc[t] \in {"engine_open", "protect"})
  BY WorkFacts
<1>2. Matches(st[t], abi')
  BY <1>1, MatchesAdvance
<1> QED
  BY <1>1, <1>2, GotoFacts DEF AtWork

(* A handler gives up: it returns or raises. *)
LEMMA WorkExits ==
  ASSUME InductiveInvariant, CycleInv, NEW t \in Threads, pc[t] \in AtWork,
         Goto(t, "exit"), UNCHANGED <<store, poisoned, journal, st, ctx>>,
         Advances(abi, abi'), FillKnown(abi')
  PROVE  CycleInv'
<1>1. PointFacts("exit", st[t], ctx'[t], abi', journal)
  BY DEF PointFacts, AtWork
<1> QED
  BY <1>1, WorkGoes
-----------------------------------------------------------------------------
(* Steps every handler may take. *)

(* A record becomes durable and the handler goes on. *)
LEMMA SaveFacts ==
  ASSUME InductiveInvariant, CycleInv, NEW t \in Threads, Save(t)
  PROVE  CycleInv'
<1>1. /\ pc[t] = "save" /\ store' = st[t] /\ Goto(t, then[t])
      /\ UNCHANGED <<poisoned, owner, st, then, ctx, abi, late, journal>>
  BY DEF Save
<1>2. owner = t
  BY <1>1, InHandler
<1>3. ThreadFacts(pc[t], st[t], then[t], ctx[t], store, abi, journal, poisoned)
  BY DEF CycleInv
<1>4. /\ Matches(st[t], abi) /\ Unrecorded(st[t], journal)
      /\ PointFacts(then[t], st[t], ctx[t], abi, journal)
  BY <1>1, <1>3 DEF ThreadFacts
<1>5. then[t] \in Continuations /\ pc \in [Threads -> Points]
  BY DEF InductiveInvariant, TypeOK
<1>6. pc'[t] = then[t] /\ \A u \in Threads \ {t} : pc'[u] = pc[u]
  BY <1>1, <1>5 DEF Goto
<1>7. ThreadFacts(pc'[t], st'[t], then'[t], ctx'[t], store', abi', journal', poisoned')
  BY <1>1, <1>4, <1>5, <1>6 DEF ThreadFacts, Continuations
<1>8. JournalTruthful' /\ FillKnown(abi')
  BY <1>1 DEF CycleInv, JournalTruthful
<1> QED
  BY <1>1, <1>2, <1>4, <1>6, <1>7, <1>8, OneThreadFacts

(* A write fails; the handler raises, or goes on with the state before it. *)
LEMMA SaveFailsFacts ==
  ASSUME InductiveInvariant, CycleInv, NEW t \in Threads, SaveFails(t)
  PROVE  CycleInv'
<1>1. /\ pc[t] = "save" /\ poisoned' = TRUE /\ store' \in {store, st[t]}
      /\ UNCHANGED <<owner, then, ctx, abi, late, journal>>
  BY DEF SaveFails
<1>2. owner = t /\ ThreadOK(t, "save", st[t], then[t], ctx[t], store, abi, late)
  BY <1>1, InHandler
<1>3. ThreadFacts(pc[t], st[t], then[t], ctx[t], store, abi, journal, poisoned)
  BY DEF CycleInv
<1>4. /\ Matches(st[t], abi) /\ Unrecorded(st[t], journal)
      /\ PointFacts(then[t], st[t], ctx[t], abi, journal)
  BY <1>1, <1>3 DEF ThreadFacts
<1>5. Matches(store, abi) /\ Unrecorded(store, journal) /\ FillKnown(abi) /\ JournalTruthful
  BY DEF CycleInv
<1>6. TypeOK
  BY DEF InductiveInvariant
<1>7. /\ Matches(store', abi') /\ Unrecorded(store', journal') /\ FillKnown(abi')
      /\ JournalTruthful'
  BY <1>1, <1>4, <1>5 DEF JournalTruthful
<1>8. \A u \in Threads \ {t} : pc'[u] = pc[u] /\ st'[u] = st[u] /\ ctx'[u] = ctx[u]
  BY <1>1, <1>6 DEF SaveFails, Goto, TypeOK
<1>9. ThreadFacts(pc'[t], st'[t], then'[t], ctx'[t], store', abi', journal', poisoned')
  <2>1. CASE then[t] = "engine_open"
    <3>1. pc'[t] = "engine_open" /\ st'[t] = store
      BY <1>6, <2>1 DEF SaveFails, Goto, TypeOK
    <3>2. PointFacts("engine_open", store, ctx[t], abi, journal)
      <4>1. Agrees(st[t], store) /\ PointOK(t, "engine_open", st[t], ctx[t], abi, late)
        BY <1>2, <2>1 DEF ThreadOK
      <4>2. /\ store.current_trade_cycle # None
            /\ ctx[t].source = store.current_trade_cycle.trade_cycle_id
        BY <1>4, <2>1, <4>1 DEF Agrees, PointOK, PointFacts, AtWork
      <4>3. store.current_trade_cycle.frozen_entry_context # None
        BY <1>1, <1>3, <2>1 DEF ThreadFacts
      <4> QED
        BY <4>2, <4>3 DEF PointFacts
    <3> QED
      BY <1>1, <1>5, <3>1, <3>2 DEF ThreadFacts
  <2>2. CASE then[t] # "engine_open"
    <3>1. pc'[t] = "exit" /\ st'[t] = st[t]
      BY <1>6, <2>2 DEF SaveFails, Goto, TypeOK
    <3> QED
      BY <1>1, <1>4, <3>1 DEF ThreadFacts, PointFacts, AtWork
  <2> QED
    BY <2>1, <2>2
<1> QED
  BY <1>2, <1>7, <1>8, <1>9, OneThreadFacts

(* The mutex is released. *)
LEMMA ReleaseFacts ==
  ASSUME InductiveInvariant, CycleInv, NEW t \in Threads, Release(t)
  PROVE  CycleInv'
<1>1. owner = t
  BY InHandler DEF Release
<1>2. TypeOK
  BY DEF InductiveInvariant
<1>3. /\ pc'[t] = "idle" /\ st'[t] = InitialState /\ ctx'[t] = NoContext
      /\ \A u \in Threads \ {t} : pc'[u] = pc[u] /\ st'[u] = st[u] /\ ctx'[u] = ctx[u]
      /\ UNCHANGED <<store, poisoned, abi, journal>>
  BY <1>2 DEF Release, Goto, TypeOK
<1>4. ThreadFacts(pc'[t], st'[t], then'[t], ctx'[t], store', abi', journal', poisoned')
  BY <1>3, OutsideFacts DEF NoContext
<1>5. /\ Matches(store', abi') /\ Unrecorded(store', journal') /\ FillKnown(abi')
      /\ JournalTruthful'
  BY <1>3 DEF CycleInv, JournalTruthful
<1> QED
  BY <1>1, <1>3, <1>4, <1>5, OneThreadFacts

(* The first record of a kind, and no other, is written. *)
LEMMA WriteFacts ==
  ASSUME InductiveInvariant, NEW kind \in Kinds, NEW id \in TradeCycleIds,
         journal[id][kind] = 0, Write(kind, id)
  PROVE  /\ journal'[id][kind] = 1
         /\ \A k \in Kinds : k # kind => journal'[id][k] = journal[id][k]
         /\ \A i \in TradeCycleIds : i # id => journal'[i] = journal[i]
<1>1. journal \in [TradeCycleIds -> [Kinds -> 0 .. 2]]
  BY DEF InductiveInvariant, TypeOK
<1> QED
  BY <1>1 DEF Write

(* A record of a cycle that the state no longer answers for. *)
LEMMA UnrecordedElsewhere ==
  ASSUME InductiveInvariant, NEW kind \in Kinds, NEW id \in TradeCycleIds,
         journal[id][kind] = 0, Write(kind, id),
         NEW s \in States, Unrecorded(s, journal), id \notin Tracked(s)
  PROVE  Unrecorded(s, journal')
<1>1. \A i \in TradeCycleIds : i # id => journal'[i] = journal[i]
  BY WriteFacts
<1>2. /\ s.current_trade_cycle # None =>
           s.current_trade_cycle.trade_cycle_id \in TradeCycleIds \ {id}
      /\ s.pending_entry_recovery # None => s.pending_entry_recovery \in TradeCycleIds \ {id}
  BY DEF Tracked, States, Cycles
<1> QED
  BY <1>1, <1>2 DEF Unrecorded

(* The end of a cycle is reported. *)
LEMMA EndReported ==
  ASSUME InductiveInvariant, CycleInv, NEW t \in Threads, JournalClosed(t) \/ JournalEnded(t)
  PROVE  CycleInv'
<1>1. /\ pc[t] \in {"closed", "ended", "op_ended"}
      /\ UNCHANGED <<store, poisoned, st, then, ctx, abi>>
  BY DEF JournalClosed, JournalEnded
<1>2. owner = t /\ st[t] \in States
  BY <1>1, InHandler
<1>3. /\ st[t] = store /\ Matches(st[t], abi) /\ Unrecorded(st[t], journal)
      /\ PointFacts(pc[t], st[t], ctx[t], abi, journal)
  BY <1>1 DEF CycleInv, ThreadFacts
<1> DEFINE id == ctx[t].source
           kind == IF pc[t] = "closed" THEN "closed" ELSE "ended"
           status == IF pc[t] = "closed" THEN "ended" ELSE "cancelled"
<1>4. Unreported(id, status, kind, st[t], abi, journal)
  BY <1>1, <1>3 DEF PointFacts
<1>5. Write(kind, id) /\ kind \in Kinds
  BY DEF JournalClosed, JournalEnded, Kinds
<1> HIDE DEF id, kind, status
<1>6. id \in TradeCycleIds /\ abi[id].status = status /\ journal[id][kind] = 0 /\ id \notin Tracked(st[t])
  BY <1>4 DEF Unreported
<1>7. Unrecorded(st[t], journal')
  BY <1>2, <1>3, <1>5, <1>6, UnrecordedElsewhere
<1>8. JournalTruthful'
  <2>1. /\ journal'[id][kind] = 1
        /\ \A k \in Kinds : k # kind => journal'[id][k] = journal[id][k]
        /\ \A i \in TradeCycleIds : i # id => journal'[i] = journal[i]
    BY <1>5, <1>6, WriteFacts
  <2> SUFFICES ASSUME NEW i \in TradeCycleIds
               PROVE  /\ \A k \in Kinds : journal'[i][k] <= 1
                      /\ journal'[i]["ended"] > 0 => abi[i].status = "cancelled"
                      /\ journal'[i]["closed"] > 0 => abi[i].status = "ended"
                      /\ journal'[i]["opened"] > 0 => abi[i].fill # None
    BY <1>1 DEF JournalTruthful
  <2>2. /\ \A k \in Kinds : journal[i][k] <= 1
        /\ journal[i]["ended"] > 0 => abi[i].status = "cancelled"
        /\ journal[i]["closed"] > 0 => abi[i].status = "ended"
        /\ journal[i]["opened"] > 0 => abi[i].fill # None
    BY DEF CycleInv, JournalTruthful
  <2>3. CASE i # id
    BY <2>1, <2>2, <2>3
  <2>4. CASE i = id
    <3>1. CASE pc[t] = "closed"
      BY <1>6, <2>1, <2>2, <2>4, <3>1 DEF Kinds, kind, status
    <3>2. CASE pc[t] # "closed"
      BY <1>6, <2>1, <2>2, <2>4, <3>2 DEF Kinds, kind, status
    <3> QED
      BY <3>1, <3>2
  <2> QED
    BY <2>3, <2>4
<1>9. PICK p \in {"op_write", "exit"} : Goto(t, p)
  BY DEF JournalClosed, JournalEnded
<1>10. pc'[t] = p /\ \A u \in Threads \ {t} : pc'[u] = pc[u]
  BY <1>9 DEF Goto, InductiveInvariant, TypeOK
<1>11. ThreadFacts(pc'[t], st'[t], then'[t], ctx'[t], store', abi', journal', poisoned')
  BY <1>1, <1>3, <1>7, <1>10 DEF ThreadFacts, PointFacts, AtWork
<1>12. FillKnown(abi') /\ Matches(store', abi') /\ Unrecorded(store', journal')
  BY <1>1, <1>3, <1>7 DEF CycleInv
<1> QED
  BY <1>1, <1>2, <1>8, <1>10, <1>11, <1>12, OneThreadFacts

(* An opened position is reported. *)
LEMMA OpenReported ==
  ASSUME InductiveInvariant, CycleInv, NEW t \in Threads, JournalOpened(t)
  PROVE  CycleInv'
<1> DEFINE id == st[t].current_trade_cycle.trade_cycle_id
<1>1. /\ pc[t] = "opened" /\ UNCHANGED <<store, poisoned, st, then, ctx, abi>>
      /\ Write("opened", id)
  BY DEF JournalOpened
<1>2. /\ owner = t /\ st[t] \in States /\ st[t] = store
      /\ PointOK(t, "opened", st[t], ctx[t], abi, late)
      /\ Matches(st[t], abi) /\ Unrecorded(st[t], journal)
      /\ PointFacts("opened", st[t], ctx[t], abi, journal)
  BY <1>1, WorkFacts DEF AtWork
<1>3. /\ st[t].current_trade_cycle # None /\ id \in TradeCycleIds
      /\ st[t].current_trade_cycle.frozen_entry_context # None
      /\ journal[id]["opened"] = 0 /\ ctx[t].source = id
  BY <1>2 DEF PointOK, PointFacts, AtWork, States, Cycles
<1>4. abi[id].fill # None
  BY <1>2, <1>3 DEF Matches, Filled, InductiveInvariant, ExchangeOK
<1> HIDE DEF id
<1>5. /\ journal'[id]["opened"] = 1
      /\ \A k \in Kinds : k # "opened" => journal'[id][k] = journal[id][k]
      /\ \A i \in TradeCycleIds : i # id => journal'[i] = journal[i]
  BY <1>1, <1>3, WriteFacts DEF Kinds
<1>6. Unrecorded(st[t], journal')
  BY <1>2, <1>3, <1>5 DEF Unrecorded, Kinds, id
<1>7. JournalTruthful'
  BY <1>1, <1>4, <1>5 DEF CycleInv, JournalTruthful, Kinds
<1>8. PICK p \in {"manage", "op_disable", "exit"} : Goto(t, p)
  BY DEF JournalOpened, Threads
<1>9. pc'[t] = p /\ \A u \in Threads \ {t} : pc'[u] = pc[u]
  BY <1>8 DEF Goto, InductiveInvariant, TypeOK
<1>10. PointFacts(p, st[t], ctx[t], abi, journal')
  BY <1>3 DEF PointFacts, id
<1>11. ThreadFacts(pc'[t], st'[t], then'[t], ctx'[t], store', abi', journal', poisoned')
  BY <1>1, <1>2, <1>6, <1>9, <1>10 DEF ThreadFacts
<1>12. FillKnown(abi') /\ Matches(store', abi') /\ Unrecorded(store', journal')
  BY <1>1, <1>2, <1>6 DEF CycleInv
<1> QED
  BY <1>1, <1>2, <1>7, <1>9, <1>11, <1>12, OneThreadFacts

(* A call that only reads fails. *)
LEMMA CallFailsFacts ==
  ASSUME InductiveInvariant, CycleInv, NEW t \in Threads, CallFails(t)
  PROVE  CycleInv'
<1>1. /\ pc[t] \in AtWork /\ Goto(t, "exit")
      /\ UNCHANGED <<store, poisoned, journal, st, ctx, abi>>
  BY DEF CallFails, AtWork
<1> QED
  BY <1>1, WorkExits, AdvancesSame DEF CycleInv

-----------------------------------------------------------------------------
(* Next values of the aggregate. *)

(* A cycle is dropped: a frozen one only when its position is gone. *)
LEMMA Dropped ==
  ASSUME NEW s \in States, NEW a, NEW j, NEW new,
         \/ new = WithoutEntry(s)
         \/ new \in {WithoutPosition(s), WithoutCycle(s)} /\ s.pending_entry_recovery = None,
         s.current_trade_cycle # None /\ s.current_trade_cycle.frozen_entry_context # None =>
           a[s.current_trade_cycle.trade_cycle_id].status = "ended"
  PROVE  /\ new \in States
         /\ Matches(new, a) /\ Unrecorded(new, j) /\ Keeps(s, new, a)
         /\ Name(new) = None /\ Tracked(new) = {}
<1>1. new \in States
  BY WithoutType
<1>2. new.current_trade_cycle = None /\ new.pending_entry_recovery = None
  BY DEF WithoutEntry, WithoutPosition, WithoutCycle, States
<1> QED
  BY <1>1, <1>2 DEF Matches, Unrecorded, Keeps, Name, Tracked

(* The cycle stays as it is: only a marker is set or cleared. *)
LEMMA SameCycle ==
  ASSUME NEW s \in States, NEW a, NEW j, NEW new,
         new.current_trade_cycle = s.current_trade_cycle,
         Matches(s, a), Unrecorded(s, j),
         s.current_trade_cycle = None /\ new.pending_entry_recovery # None =>
           \A kind \in Kinds : j[new.pending_entry_recovery][kind] = 0
  PROVE  Matches(new, a) /\ Unrecorded(new, j) /\ Keeps(s, new, a)
BY DEF Matches, Unrecorded, Keeps

(* An identity of which the exchange has nothing has no record either. *)
LEMMA FreshUnrecorded ==
  ASSUME InductiveInvariant, CycleInv, NEW id \in TradeCycleIds, abi[id].status = "none"
  PROVE  \A kind \in Kinds : journal[id][kind] = 0
<1>1. journal[id] \in [Kinds -> 0 .. 2]
  BY DEF InductiveInvariant, TypeOK
<1>2. abi[id].fill = None
  BY DEF CycleInv, FillKnown, Filled
<1>3. ~(journal[id]["ended"] > 0) /\ ~(journal[id]["closed"] > 0) /\ ~(journal[id]["opened"] > 0)
  BY <1>2 DEF CycleInv, JournalTruthful
<1> QED
  BY <1>1, <1>3 DEF Kinds

-----------------------------------------------------------------------------
(* The close command. *)

(* What a thread that sends a close knows. *)
LEMMA CloseFacts ==
  ASSUME InductiveInvariant, CycleInv, NEW t \in Threads, pc[t] = "close"
  PROVE  LET id == st[t].pending_close_recovery IN
         /\ pc[t] \in AtWork
         /\ st[t] \in States /\ id \in TradeCycleIds
         /\ st[t].current_trade_cycle # None /\ st[t].current_trade_cycle.trade_cycle_id = id
         /\ st[t].pending_entry_recovery = None
         /\ ctx[t].source = id
         /\ journal[id]["closed"] = 0
<1>1. /\ pc[t] \in AtWork /\ st[t] \in States
      /\ PointOK(t, "close", st[t], ctx[t], abi, late) /\ WellFormed(st[t])
      /\ PointFacts("close", st[t], ctx[t], abi, journal) /\ Unrecorded(st[t], journal)
  BY WorkFacts DEF AtWork
<1>2. /\ st[t].pending_close_recovery # None
      /\ st[t].pending_close_recovery \in TradeCycleIds \cup {None}
  BY <1>1 DEF PointOK, States
<1> QED
  BY <1>1, <1>2 DEF WellFormed, PointFacts, Unrecorded, AtWork

(* A confirmed close. *)
LEMMA CloseConfirmedFacts ==
  ASSUME InductiveInvariant, CycleInv, NEW t \in Threads, CloseConfirmed(t)
  PROVE  CycleInv'
<1> DEFINE id == st[t].pending_close_recovery
           new == WithoutPosition(st[t])
<1>1. /\ pc[t] = "close" /\ abi' = [abi EXCEPT ![id].status = "ended"]
      /\ abi[id].status \in Filled
      /\ UNCHANGED <<store, poisoned, ctx, journal>>
  BY DEF CloseConfirmed, PositionOpen, Filled
<1>2. /\ pc[t] \in AtWork /\ st[t] \in States /\ id \in TradeCycleIds
      /\ st[t].current_trade_cycle # None /\ st[t].current_trade_cycle.trade_cycle_id = id
      /\ st[t].pending_entry_recovery = None /\ ctx[t].source = id
      /\ journal[id]["closed"] = 0
  BY <1>1, CloseFacts
<1>3. PICK c \in {"closed", "exit"} : SaveThen(t, new, c)
  BY DEF CloseConfirmed
<1> HIDE DEF id
<1>5. Advances(abi, abi') /\ FillKnown(abi') /\ abi'[id].status = "ended"
  BY <1>1, <1>2, EndedAdvances
<1>6. /\ new \in States /\ Matches(new, abi') /\ Unrecorded(new, journal)
      /\ Keeps(st[t], new, abi') /\ Name(new) = None /\ Tracked(new) = {}
  BY <1>2, <1>5, Dropped
<1>7. PointFacts(c, new, ctx'[t], abi', journal)
  BY <1>1, <1>2, <1>5, <1>6 DEF PointFacts, Unreported, AtWork
<1> HIDE DEF new
<1> QED
  BY <1>1, <1>2, <1>3, <1>5, <1>6, <1>7, WorkSaves

(* A close without an answer. *)
LEMMA CloseFailsFacts ==
  ASSUME InductiveInvariant, CycleInv, NEW t \in Threads, CloseFails(t)
  PROVE  CycleInv'
<1> DEFINE id == st[t].pending_close_recovery
<1>1. /\ pc[t] = "close" /\ Goto(t, "exit")
      /\ UNCHANGED <<store, poisoned, st, ctx, journal>>
      /\ \/ UNCHANGED abi
         \/ abi[id].status \in Filled /\ abi' = [abi EXCEPT ![id].status = "ended"]
  BY DEF CloseFails, PositionOpen, Filled
<1>2. pc[t] \in AtWork /\ id \in TradeCycleIds
  BY <1>1, CloseFacts
<1>3. abi \in [TradeCycleIds -> AbiCycles] /\ FillKnown(abi)
  BY DEF InductiveInvariant, TypeOK, CycleInv
<1>4. Advances(abi, abi') /\ FillKnown(abi')
  BY <1>1, <1>2, <1>3, StatusAdvances, AdvancesSame
<1> QED
  BY <1>1, <1>2, <1>4, WorkExits

-----------------------------------------------------------------------------
(* The bar. *)

(* Selection and refusal happen outside the mutex. *)
LEMMA BarOutsideFacts ==
  ASSUME InductiveInvariant, CycleInv, (\E bar \in Bars : BarSelect(bar)) \/ BarRefused
  PROVE  CycleInv'
<1>1. PICK p \in {"selected", "idle"} : pc' = [pc EXCEPT !["bar"] = p]
  BY DEF BarSelect, BarRefused, Goto
<1>2. /\ pc["bar"] \in {"idle", "selected"}
      /\ UNCHANGED <<store, poisoned, st, then, abi, journal>>
  BY DEF BarSelect, BarRefused
<1>3. "bar" \in Threads /\ pc \in [Threads -> Points] /\ ctx \in [Threads -> Contexts]
  BY DEF InductiveInvariant, TypeOK, Threads
<1>4. st["bar"] = InitialState /\ ctx["bar"].source = None
  BY <1>2, <1>3 DEF CycleInv, ThreadFacts
<1>5. ctx'["bar"].source = None /\ \A u \in Threads \ {"bar"} : ctx'[u] = ctx[u]
  <2>1. CASE BarRefused
    BY <1>3, <2>1 DEF BarRefused, NoContext
  <2>2. CASE \E bar \in Bars : BarSelect(bar)
    <3>1. PICK bar \in Bars : ctx' = [ctx EXCEPT !["bar"].bar = bar]
      BY <2>2 DEF BarSelect
    <3> QED
      BY <1>3, <1>4, <3>1 DEF Contexts
  <2> QED
    BY <2>1, <2>2
<1>6. ASSUME NEW t \in Threads
      PROVE  ThreadFacts(pc'[t], st'[t], then'[t], ctx'[t], store', abi', journal', poisoned')
  <2>1. CASE t = "bar"
    <3>1. pc'[t] \in {"idle", "selected"}
      BY <1>1, <1>3, <2>1
    <3> QED
      BY <1>2, <1>4, <1>5, <2>1, <3>1, OutsideFacts
  <2>2. CASE t # "bar"
    <3>1. pc'[t] = pc[t] /\ ctx'[t] = ctx[t]
      BY <1>1, <1>3, <1>5, <2>2
    <3> QED
      BY <1>2, <3>1 DEF CycleInv
  <2> QED
    BY <2>1, <2>2
<1>7. JournalTruthful'
  BY <1>2 DEF CycleInv, JournalTruthful
<1> QED
  BY <1>2, <1>6, <1>7 DEF CycleInv

(* The bar starts from the stored state. *)
LEMMA BarBeginFacts ==
  ASSUME InductiveInvariant, CycleInv, BarBegin
  PROVE  CycleInv'
<1>1. /\ "bar" \in Threads /\ pc["bar"] = "selected" /\ owner = None
      /\ UNCHANGED <<store, poisoned, abi, journal>>
  BY DEF BarBegin, Acquire, Lock, Threads
<1>2. TypeOK /\ store \in States /\ ctx \in [Threads -> Contexts]
  BY DEF InductiveInvariant, TypeOK
<1>3. st'["bar"] = store /\ \A u \in Threads \ {"bar"} : st'[u] = st[u]
  BY <1>1, <1>2 DEF BarBegin, TypeOK
<1>4. ctx["bar"].source = None
  BY <1>1 DEF CycleInv, ThreadFacts
<1>5. PICK p \in {"exit", "engine_entry", "lookup"} :
        /\ Goto("bar", p)
        /\ p # "lookup" => UNCHANGED ctx
        /\ p = "engine_entry" => store.current_trade_cycle = None
        /\ p = "lookup" =>
             ctx' = [ctx EXCEPT !["bar"].source = store.current_trade_cycle.trade_cycle_id]
  BY DEF BarBegin
<1>6. /\ \A u \in Threads \ {"bar"} : ctx'[u] = ctx[u]
      /\ p # "lookup" => ctx'["bar"].source = None
      /\ p = "lookup" => ctx'["bar"].source = store.current_trade_cycle.trade_cycle_id
  <2>1. CASE p = "lookup"
    BY <1>1, <1>2, <1>5, <2>1 DEF Contexts
  <2>2. CASE p # "lookup"
    BY <1>4, <1>5, <2>2
  <2> QED
    BY <2>1, <2>2
<1>7. PointFacts(p, store, ctx'["bar"], abi', journal)
  BY <1>5, <1>6 DEF PointFacts, AtWork
<1>8. Matches(store, abi') /\ Unrecorded(store, journal) /\ FillKnown(abi') /\ Advances(abi, abi')
  BY <1>1, AdvancesSame DEF CycleInv
<1> QED
  BY <1>1, <1>2, <1>3, <1>5, <1>6, <1>7, <1>8, GotoFacts

(* What the bar knows when it asks for the position. *)
LEMMA LookupFacts ==
  ASSUME InductiveInvariant, CycleInv, NEW t \in Threads,
         pc[t] \in {"lookup", "opened", "manage", "remainder", "engine_open", "protect",
                    "op_lookup", "op_cancel", "op_disable"}
  PROVE  LET cycle == st[t].current_trade_cycle IN
         /\ pc[t] \in AtWork
         /\ st[t] \in States /\ ctx[t] \in Contexts
         /\ cycle # None /\ cycle.trade_cycle_id = ctx[t].source /\ ctx[t].source \in TradeCycleIds
         /\ cycle \in Cycles
         /\ st[t].pending_entry_recovery = None /\ st[t].pending_close_recovery = None
         /\ Matches(st[t], abi) /\ Unrecorded(st[t], journal)
         /\ PointFacts(pc[t], st[t], ctx[t], abi, journal)
         /\ abi \in [TradeCycleIds -> AbiCycles] /\ FillKnown(abi) /\ Advances(abi, abi)
<1>1. /\ pc[t] \in AtWork
      /\ st[t] \in States /\ ctx[t] \in Contexts /\ abi \in [TradeCycleIds -> AbiCycles]
      /\ PointOK(t, pc[t], st[t], ctx[t], abi, late)
      /\ Matches(st[t], abi) /\ Unrecorded(st[t], journal)
      /\ PointFacts(pc[t], st[t], ctx[t], abi, journal) /\ FillKnown(abi)
  BY WorkFacts DEF AtWork
<1>2. /\ st[t].current_trade_cycle # None
      /\ st[t].pending_entry_recovery = None /\ st[t].pending_close_recovery = None
  BY <1>1 DEF PointOK, HasMarker
<1>3. st[t].current_trade_cycle.trade_cycle_id = ctx[t].source
  BY <1>1, <1>2 DEF PointFacts, AtWork
<1>4. st[t].current_trade_cycle \in Cycles /\ ctx[t].source \in TradeCycleIds
  BY <1>1, <1>2, <1>3 DEF States, Cycles
<1> QED
  BY <1>1, <1>2, <1>3, <1>4, AdvancesSame

(* A closure ABI proved. *)
LEMMA BarFindsClosureFacts ==
  ASSUME InductiveInvariant, CycleInv, BarFindsClosure
  PROVE  CycleInv'
<1> DEFINE s == st["bar"]
           new == WithoutPosition(s)
           id == ctx["bar"].source
<1>1. /\ "bar" \in Threads /\ pc["bar"] = "lookup" /\ abi[id].status = "ended"
      /\ SaveThen("bar", new, "closed") /\ UNCHANGED <<store, poisoned, ctx, abi, journal>>
  BY DEF BarFindsClosure, Threads
<1>2. /\ pc["bar"] \in AtWork /\ s \in States /\ s.current_trade_cycle # None
      /\ s.current_trade_cycle.trade_cycle_id = id /\ id \in TradeCycleIds
      /\ s.pending_entry_recovery = None
      /\ Unrecorded(s, journal) /\ FillKnown(abi) /\ Advances(abi, abi)
  BY <1>1, LookupFacts
<1>3. /\ new \in States /\ Matches(new, abi) /\ Unrecorded(new, journal)
      /\ Keeps(s, new, abi) /\ Name(new) = None /\ Tracked(new) = {}
  BY <1>1, <1>2, Dropped
<1>4. PointFacts("closed", new, ctx["bar"], abi, journal)
  BY <1>1, <1>2, <1>3 DEF PointFacts, Unreported, Unrecorded, AtWork
<1> HIDE DEF new, id
<1> QED
  BY <1>1, <1>2, <1>3, <1>4, WorkSaves

(* A first fill is frozen into the cycle. *)
LEMMA Frozen ==
  ASSUME NEW s \in States, NEW id \in TradeCycleIds, NEW a \in [TradeCycleIds -> AbiCycles],
         NEW j, NEW fill \in Nat,
         CanFreeze(s, id, fill), a[id].fill = fill, a[id].status \in Filled,
         Matches(s, a), Unrecorded(s, j)
  PROVE  LET new == apply_first_fill(s, fill)
             cycle == new.current_trade_cycle
         IN /\ new \in States
            /\ Matches(new, a) /\ Unrecorded(new, j) /\ Keeps(s, new, a)
            /\ Name(new) = Name(s)
            /\ cycle # None /\ cycle.trade_cycle_id = id /\ cycle.frozen_entry_context # None
            /\ j[id]["opened"] = 0
<1> DEFINE was == s.current_trade_cycle
           context == FrozenContext(was.desired_entry, fill)
           cycle == [was EXCEPT !.frozen_entry_context = context]
           new == apply_first_fill(s, fill)
<1>1. /\ was # None /\ was \in Cycles /\ was.trade_cycle_id = id
      /\ was.frozen_entry_context = None /\ was.desired_entry \in DesiredEntries
  BY DEF CanFreeze, States, Cycles
<1>2. /\ context \in FrozenContexts /\ context # None
      /\ context.entry_bar = fill /\ context.desired_entry = was.desired_entry
  <2>1. entry_order_expiration(was.desired_entry.source_plan_bar) \in Nat
    BY <1>1, ConstantsAssumption DEF entry_order_expiration, DesiredEntries
  <2>2. context \in FrozenContexts
    BY <1>1, <2>1 DEF FrozenContext, FrozenContexts
  <2> QED
    BY <2>2, NoneAssumption DEF FrozenContext
<1> HIDE DEF context
<1>3. /\ cycle \in Cycles /\ cycle.trade_cycle_id = id /\ cycle.frozen_entry_context = context
      /\ cycle.desired_entry = was.desired_entry
      /\ cycle.entry_remainder_cancelled = was.entry_remainder_cancelled
  BY <1>1, <1>2 DEF Cycles
<1>4. /\ new \in States /\ new.current_trade_cycle = cycle
      /\ new.pending_entry_recovery = s.pending_entry_recovery
  <2>1. new = [s EXCEPT !.current_trade_cycle = cycle]
    BY DEF apply_first_fill, context, States
  <2> HIDE DEF new, cycle
  <2> QED
    BY <1>3, <2>1 DEF States
<1>5. cycle # None
  BY <1>3, NoneAssumption
<1> HIDE DEF new, cycle
<1>6. Matches(new, a)
  BY <1>1, <1>2, <1>3, <1>4, <1>5 DEF Matches
<1>7. Unrecorded(new, j) /\ j[id]["opened"] = 0
  BY <1>1, <1>3, <1>4, <1>5 DEF Unrecorded
<1>8. Keeps(s, new, a) /\ Name(new) = Name(s)
  BY <1>1, <1>3, <1>4, <1>5 DEF Keeps, Name
<1> QED
  BY <1>2, <1>3, <1>4, <1>5, <1>6, <1>7, <1>8 DEF new

(* The exchange knows the bar of a fill. *)
LEMMA FillIsABar ==
  ASSUME InductiveInvariant, CycleInv, NEW id \in TradeCycleIds,
         abi[id].fill # None \/ abi[id].status \in Filled
  PROVE  abi[id].fill \in Nat /\ abi[id].status \in Filled
<1>1. abi[id] \in AbiCycles
  BY DEF InductiveInvariant, TypeOK
<1>2. abi[id].status \in Filled
  BY DEF CycleInv, FillKnown
<1> QED
  BY <1>1, <1>2 DEF AbiCycles, InductiveInvariant, ExchangeOK, Filled

(* The first fill, frozen by the bar or seen already. *)
LEMMA BarFindsPositionFacts ==
  ASSUME InductiveInvariant, CycleInv, BarFindsPosition
  PROVE  CycleInv'
<1> DEFINE s == st["bar"]
           id == ctx["bar"].source
           fill == abi[id].fill
           new == apply_first_fill(s, fill)
<1>1. /\ "bar" \in Threads /\ pc["bar"] = "lookup" /\ abi[id].status \in Filled
      /\ UNCHANGED <<store, poisoned, ctx, abi, journal>>
  BY DEF BarFindsPosition, Threads, PositionOpen, Filled
<1>2. /\ pc["bar"] \in AtWork /\ s \in States /\ s.current_trade_cycle # None
      /\ s.current_trade_cycle.trade_cycle_id = id /\ id \in TradeCycleIds
      /\ Matches(s, abi) /\ Unrecorded(s, journal)
      /\ abi \in [TradeCycleIds -> AbiCycles] /\ FillKnown(abi) /\ Advances(abi, abi)
  BY <1>1, LookupFacts
<1>3. CASE /\ AlreadyFrozen(s, id, fill) /\ Goto("bar", "manage") /\ UNCHANGED st
  <2>1. PointFacts("manage", s, ctx["bar"], abi, journal)
    BY <1>2, <1>3 DEF PointFacts, AlreadyFrozen
  <2> QED
    BY <1>1, <1>2, <1>3, <2>1, WorkGoes
<1>4. CASE CanFreeze(s, id, fill) /\ SaveThen("bar", new, "opened")
  <2>1. fill \in Nat
    BY <1>1, <1>2, FillIsABar
  <2>2. /\ new \in States /\ Matches(new, abi) /\ Unrecorded(new, journal)
        /\ Keeps(s, new, abi) /\ Name(new) = Name(s)
        /\ new.current_trade_cycle # None /\ new.current_trade_cycle.trade_cycle_id = id
        /\ new.current_trade_cycle.frozen_entry_context # None
        /\ journal[id]["opened"] = 0
    BY <1>1, <1>2, <1>4, <2>1, Frozen
  <2> HIDE DEF new
  <2>3. PointFacts("opened", new, ctx["bar"], abi, journal)
    BY <2>2 DEF PointFacts, AtWork
  <2> QED
    BY <1>1, <1>2, <1>4, <2>2, <2>3, WorkSaves
<1> QED
  BY <1>3, <1>4 DEF BarFindsPosition

(* The bar's choices that touch nothing. *)
LEMMA BarQuietFacts ==
  ASSUME InductiveInvariant, CycleInv, BarFindsFlat \/ BarManage
  PROVE  CycleInv'
<1>1. /\ "bar" \in Threads /\ pc["bar"] \in {"lookup", "manage"}
      /\ UNCHANGED <<store, poisoned, st, ctx, abi, journal>>
  BY DEF BarFindsFlat, BarManage, Threads
<1>2. /\ pc["bar"] \in AtWork /\ st["bar"].current_trade_cycle # None
      /\ st["bar"].current_trade_cycle.trade_cycle_id = ctx["bar"].source
      /\ PointFacts(pc["bar"], st["bar"], ctx["bar"], abi, journal)
      /\ FillKnown(abi) /\ Advances(abi, abi)
  BY <1>1, LookupFacts
<1>3. PICK p \in {"engine_entry", "exit", "remainder", "engine_open"} :
        Goto("bar", p) /\ (p \in {"remainder", "engine_open"} => pc["bar"] = "manage")
  BY DEF BarFindsFlat, BarManage
<1>4. PointFacts(p, st["bar"], ctx["bar"], abi, journal)
  BY <1>1, <1>2, <1>3 DEF PointFacts, AtWork
<1> QED
  BY <1>1, <1>2, <1>3, <1>4, WorkGoes

(* Cancelling what is left of an entry moves the exchange on, and nothing  *)
(* of the entry rests afterwards.                                          *)
LEMMA RemainderAdvances ==
  ASSUME InductiveInvariant, CycleInv, NEW id \in TradeCycleIds, abi[id].status \in Filled,
         abi' = [abi EXCEPT ![id].status = IF @ = "partial" THEN "open" ELSE @]
  PROVE  Advances(abi, abi') /\ FillKnown(abi') /\ abi'[id].status \in {"open", "ended"}
<1>1. abi \in [TradeCycleIds -> AbiCycles] /\ FillKnown(abi)
  BY DEF InductiveInvariant, TypeOK, CycleInv
<1>2. /\ abi'[id].status = IF abi[id].status = "partial" THEN "open" ELSE abi[id].status
      /\ abi'[id].entry = abi[id].entry /\ abi'[id].fill = abi[id].fill
      /\ \A o \in TradeCycleIds : o # id => abi'[o] = abi[o]
  BY <1>1 DEF AbiCycles
<1> QED
  BY <1>1, <1>2 DEF Advances, FillKnown, Filled

(* A fact is added to the cycle: a confirmed protection, or that nothing   *)
(* of the entry is left.                                                   *)
LEMMA FactAdded ==
  ASSUME NEW s \in States, s.current_trade_cycle # None, NEW a, NEW j,
         Matches(s, a), Unrecorded(s, j), NEW new,
         \/ \E p \in Protections : new = WithProtection(s, p)
         \/ /\ new = WithRemainderCancelled(s)
            /\ a[s.current_trade_cycle.trade_cycle_id].status \in {"open", "ended"}
  PROVE  LET cycle == new.current_trade_cycle
             was == s.current_trade_cycle
         IN /\ new \in States
            /\ Matches(new, a) /\ Unrecorded(new, j) /\ Keeps(s, new, a)
            /\ Name(new) = Name(s)
            /\ cycle # None /\ cycle.trade_cycle_id = was.trade_cycle_id
            /\ cycle.frozen_entry_context = was.frozen_entry_context
<1> DEFINE was == s.current_trade_cycle
<1>1. was \in Cycles
  BY DEF States
<1>2. PICK cycle \in Cycles :
        /\ new = [s EXCEPT !.current_trade_cycle = cycle]
        /\ cycle.trade_cycle_id = was.trade_cycle_id
        /\ cycle.desired_entry = was.desired_entry
        /\ cycle.frozen_entry_context = was.frozen_entry_context
        /\ was.confirmed_protection # None => cycle.confirmed_protection # None
        /\ was.entry_remainder_cancelled => cycle.entry_remainder_cancelled
        /\ cycle.entry_remainder_cancelled =>
             was.entry_remainder_cancelled \/ a[was.trade_cycle_id].status \in {"open", "ended"}
  <2>1. CASE \E p \in Protections : new = WithProtection(s, p)
    <3>1. PICK p \in Protections : new = WithProtection(s, p)
      BY <2>1
    <3> DEFINE cycle == [was EXCEPT !.confirmed_protection = p]
    <3>2. new = [s EXCEPT !.current_trade_cycle = cycle]
      BY <3>1 DEF WithProtection, States
    <3>3. /\ cycle \in Cycles
          /\ cycle.trade_cycle_id = was.trade_cycle_id
          /\ cycle.desired_entry = was.desired_entry
          /\ cycle.frozen_entry_context = was.frozen_entry_context
          /\ cycle.confirmed_protection # None
          /\ cycle.entry_remainder_cancelled = was.entry_remainder_cancelled
      BY <1>1, ConstantsAssumption DEF Cycles
    <3> HIDE DEF cycle
    <3> QED
      BY <3>2, <3>3
  <2>2. CASE /\ new = WithRemainderCancelled(s)
             /\ a[was.trade_cycle_id].status \in {"open", "ended"}
    <3> DEFINE cycle == [was EXCEPT !.entry_remainder_cancelled = TRUE]
    <3>2. new = [s EXCEPT !.current_trade_cycle = cycle]
      BY <2>2 DEF WithRemainderCancelled, States
    <3>3. /\ cycle \in Cycles
          /\ cycle.trade_cycle_id = was.trade_cycle_id
          /\ cycle.desired_entry = was.desired_entry
          /\ cycle.frozen_entry_context = was.frozen_entry_context
          /\ cycle.confirmed_protection = was.confirmed_protection
          /\ cycle.entry_remainder_cancelled
      BY <1>1 DEF Cycles
    <3> HIDE DEF cycle
    <3> QED
      BY <2>2, <3>2, <3>3
  <2> QED
    BY <2>1, <2>2
<1>3. /\ new \in States /\ new.current_trade_cycle = cycle /\ cycle # None
      /\ new.pending_entry_recovery = s.pending_entry_recovery
  BY <1>2, NoneAssumption DEF States
<1>4. Matches(new, a)
  BY <1>2, <1>3 DEF Matches
<1>5. Unrecorded(new, j) /\ Keeps(s, new, a) /\ Name(new) = Name(s)
  BY <1>2, <1>3 DEF Unrecorded, Keeps, Name
<1> QED
  BY <1>2, <1>3, <1>4, <1>5

(* The remainder of the entry is cancelled, or the call fails. *)
LEMMA RemainderStepFacts ==
  ASSUME InductiveInvariant, CycleInv, RemainderCancelled \/ RemainderFails
  PROVE  CycleInv'
<1> DEFINE s == st["bar"]
           id == ctx["bar"].source
           moved == [abi EXCEPT ![id].status = IF @ = "partial" THEN "open" ELSE @]
<1>1. /\ "bar" \in Threads /\ pc["bar"] = "remainder"
      /\ UNCHANGED <<store, poisoned, ctx, journal>>
  BY DEF RemainderCancelled, RemainderFails, Threads
<1>2. /\ pc["bar"] \in AtWork /\ s \in States /\ s.current_trade_cycle # None
      /\ s.current_trade_cycle.trade_cycle_id = id /\ id \in TradeCycleIds
      /\ Matches(s, abi) /\ Unrecorded(s, journal)
      /\ PointFacts("remainder", s, ctx["bar"], abi, journal)
      /\ FillKnown(abi) /\ Advances(abi, abi)
  BY <1>1, LookupFacts
<1>3. s.current_trade_cycle.frozen_entry_context # None /\ abi[id].status \in Filled
  BY <1>2 DEF PointFacts, Matches
<1>4. CASE RemainderCancelled
  <2> DEFINE new == WithRemainderCancelled(s)
  <2>1. abi' = moved /\ SaveThen("bar", new, "engine_open")
    BY <1>4 DEF RemainderCancelled
  <2>2. Advances(abi, abi') /\ FillKnown(abi') /\ abi'[id].status \in {"open", "ended"}
    BY <1>2, <1>3, <2>1, RemainderAdvances
  <2>3. Matches(s, abi')
    BY <1>2, <2>2, MatchesAdvance
  <2>4. /\ new \in States /\ Matches(new, abi') /\ Unrecorded(new, journal)
        /\ Keeps(s, new, abi') /\ Name(new) = Name(s)
        /\ new.current_trade_cycle # None /\ new.current_trade_cycle.trade_cycle_id = id
        /\ new.current_trade_cycle.frozen_entry_context # None
    BY <1>2, <1>3, <2>2, <2>3, FactAdded
  <2> HIDE DEF new, id
  <2>5. PointFacts("engine_open", new, ctx["bar"], abi', journal)
    BY <2>4 DEF PointFacts, id
  <2> QED
    BY <1>1, <1>2, <2>1, <2>2, <2>4, <2>5, WorkSaves
<1>5. CASE RemainderFails
  <2>1. abi' \in {abi, moved} /\ Goto("bar", "engine_open") /\ UNCHANGED st
    BY <1>5 DEF RemainderFails
  <2>2. Advances(abi, abi') /\ FillKnown(abi')
    BY <1>2, <1>3, <2>1, RemainderAdvances
  <2>3. PointFacts("engine_open", s, ctx["bar"], abi', journal)
    BY <1>2, <1>3 DEF PointFacts
  <2> QED
    BY <1>1, <1>2, <2>1, <2>2, <2>3, WorkGoes
<1> QED
  BY <1>4, <1>5

(* What a thread adds to its context leaves the rest of it alone. *)
LEMMA ContextKept ==
  ASSUME NEW c \in [Threads -> Contexts], NEW t \in Threads, NEW new,
         \/ \E d \in DesiredEntries \cup {None} : new = [c EXCEPT ![t].desired = d]
         \/ \E p \in Protections : new = [c EXCEPT ![t].protection = p]
  PROVE  /\ new[t].source = c[t].source /\ new[t].bar = c[t].bar
         /\ \A u \in Threads \ {t} : new[u] = c[u]
<1>1. c[t] \in Contexts
  OBVIOUS
<1>2. CASE \E d \in DesiredEntries \cup {None} : new = [c EXCEPT ![t].desired = d]
  <2>1. PICK d \in DesiredEntries \cup {None} : new = [c EXCEPT ![t].desired = d]
    BY <1>2
  <2>2. new[t] = [c[t] EXCEPT !.desired = d] /\ \A u \in Threads \ {t} : new[u] = c[u]
    BY <2>1
  <2> QED
    BY <1>1, <2>2 DEF Contexts
<1>3. CASE \E p \in Protections : new = [c EXCEPT ![t].protection = p]
  <2>1. PICK p \in Protections : new = [c EXCEPT ![t].protection = p]
    BY <1>3
  <2>2. new[t] = [c[t] EXCEPT !.protection = p] /\ \A u \in Threads \ {t} : new[u] = c[u]
    BY <2>1
  <2> QED
    BY <1>1, <2>2 DEF Contexts
<1> QED
  BY <1>2, <1>3

(* A cycle is marked for its close. *)
LEMMA CloseMarked ==
  ASSUME InductiveInvariant, CycleInv, NEW t \in Threads,
         pc[t] \in {"engine_open", "op_disable"},
         SaveThen(t, MarkClose(st[t]), "close"),
         UNCHANGED <<store, poisoned, ctx, abi, journal>>
  PROVE  CycleInv'
<1> DEFINE s == st[t]
           new == MarkClose(s)
<1>1. /\ pc[t] \in AtWork /\ s \in States /\ s.current_trade_cycle # None
      /\ s.current_trade_cycle.trade_cycle_id = ctx[t].source
      /\ s.pending_entry_recovery = None /\ s.pending_close_recovery = None
      /\ Matches(s, abi) /\ Unrecorded(s, journal)
      /\ FillKnown(abi) /\ Advances(abi, abi)
  BY LookupFacts
<1>2. new \in States
  BY <1>1, MarkCloseFacts DEF HasMarker
<1>3. /\ new.current_trade_cycle = s.current_trade_cycle
      /\ new.pending_entry_recovery = None
  BY <1>1 DEF MarkClose, States
<1> HIDE DEF new
<1>4. /\ Matches(new, abi) /\ Unrecorded(new, journal) /\ Keeps(s, new, abi)
      /\ Name(new) = Name(s)
  BY <1>1, <1>3, SameCycle DEF Name
<1>5. PointFacts("close", new, ctx[t], abi, journal)
  BY <1>1, <1>3 DEF PointFacts
<1> QED
  BY <1>1, <1>2, <1>4, <1>5, WorkSaves DEF new

(* Engine's open-trade answer. *)
LEMMA EngineOpenTradeFacts ==
  ASSUME InductiveInvariant, CycleInv,
         NEW close_signal \in BOOLEAN, NEW protection \in Protections,
         EngineOpenTrade(close_signal, protection)
  PROVE  CycleInv'
<1>1. /\ "bar" \in Threads /\ pc["bar"] = "engine_open"
      /\ UNCHANGED <<store, poisoned, abi, journal>>
  BY DEF EngineOpenTrade, Threads
<1>2. /\ pc["bar"] \in AtWork /\ st["bar"].current_trade_cycle # None
      /\ st["bar"].current_trade_cycle.trade_cycle_id = ctx["bar"].source
      /\ PointFacts("engine_open", st["bar"], ctx["bar"], abi, journal)
      /\ FillKnown(abi) /\ Advances(abi, abi)
  BY <1>1, LookupFacts
<1>3. CASE Goto("bar", "exit") /\ UNCHANGED <<st, ctx>>
  BY <1>1, <1>2, <1>3, WorkExits
<1>4. CASE /\ Goto("bar", "protect") /\ UNCHANGED st
           /\ ctx' = [ctx EXCEPT !["bar"].protection = protection]
  <2>1. ctx \in [Threads -> Contexts]
    BY DEF InductiveInvariant, TypeOK
  <2>2. /\ ctx'["bar"].source = ctx["bar"].source
        /\ \A u \in Threads \ {"bar"} : ctx'[u] = ctx[u]
    BY <1>1, <1>4, <2>1, ContextKept
  <2>3. ctx'["bar"].protection # None
    BY <1>1, <1>4, <2>1, ProtectionType, ConstantsAssumption
  <2>4. PointFacts("protect", st["bar"], ctx'["bar"], abi, journal)
    BY <1>2, <2>2, <2>3 DEF PointFacts
  <2> QED
    BY <1>1, <1>2, <1>4, <2>2, <2>4, WorkGoes
<1>5. CASE SaveThen("bar", MarkClose(st["bar"]), "close") /\ UNCHANGED ctx
  BY <1>1, <1>5, CloseMarked
<1> QED
  BY <1>3, <1>4, <1>5 DEF EngineOpenTrade

(* A confirmed protection. *)
LEMMA ProtectionAppliedFacts ==
  ASSUME InductiveInvariant, CycleInv, ProtectionApplied
  PROVE  CycleInv'
<1> DEFINE s == st["bar"]
           p == ctx["bar"].protection
           new == WithProtection(s, p)
<1>1. /\ "bar" \in Threads /\ pc["bar"] = "protect" /\ SaveThen("bar", new, "exit")
      /\ UNCHANGED <<store, poisoned, ctx, abi, journal>>
  BY DEF ProtectionApplied, Threads
<1>2. /\ pc["bar"] \in AtWork /\ s \in States /\ s.current_trade_cycle # None
      /\ ctx["bar"] \in Contexts
      /\ Matches(s, abi) /\ Unrecorded(s, journal)
      /\ PointFacts("protect", s, ctx["bar"], abi, journal)
      /\ FillKnown(abi) /\ Advances(abi, abi)
  BY <1>1, LookupFacts
<1>3. p \in Protections
  BY <1>2 DEF PointFacts, Contexts
<1>4. /\ new \in States /\ Matches(new, abi) /\ Unrecorded(new, journal)
      /\ Keeps(s, new, abi) /\ Name(new) = Name(s)
  BY <1>2, <1>3, FactAdded
<1> HIDE DEF new
<1>5. PointFacts("exit", new, ctx["bar"], abi, journal)
  BY DEF PointFacts, AtWork
<1> QED
  BY <1>1, <1>2, <1>4, <1>5, WorkSaves

-----------------------------------------------------------------------------
(* Entry reconciliation. *)

(* A touch_trigger order is removed only after its lifetime. *)
LEMMA LifetimeOver ==
  ASSUME NEW desired, NEW cycle \in Cycles, NEW bar \in Nat, LiveEntryMode = "touch_trigger",
         EntryDecision(desired, cycle, bar) \in {"cancel", "replace"}
  PROVE  bar > cycle.desired_entry.source_plan_bar + OrderLifetimeBars
<1>1. cycle # None /\ cycle.desired_entry.source_plan_bar \in Nat
  BY NoneAssumption DEF Cycles, DesiredEntries
<1>2. is_entry_order_expired(bar, entry_order_expiration(cycle.desired_entry.source_plan_bar))
  BY <1>1 DEF EntryDecision, touch_trigger_entry_reconciliation
<1> QED
  BY <1>1, <1>2, ConstantsAssumption DEF is_entry_order_expired, entry_order_expiration

(* Engine's live-entry answer and the decision taken from it. *)
LEMMA EngineLiveEntryFacts ==
  ASSUME InductiveInvariant, CycleInv,
         NEW desired \in EntriesOn(ctx["bar"].bar) \cup {None}, EngineLiveEntry(desired)
  PROVE  CycleInv'
<1> DEFINE s == st["bar"]
           cycle == s.current_trade_cycle
           decision == EntryDecision(desired, cycle, ctx["bar"].bar)
<1>1. /\ "bar" \in Threads /\ pc["bar"] = "engine_entry" /\ pc["bar"] \in AtWork
      /\ UNCHANGED <<store, poisoned, abi, late, journal>>
  BY DEF EngineLiveEntry, Threads, AtWork
<1>2. /\ s \in States /\ ctx["bar"] \in Contexts
      /\ PointOK("bar", "engine_entry", s, ctx["bar"], abi, late)
      /\ Matches(s, abi) /\ Unrecorded(s, journal)
      /\ PointFacts("engine_entry", s, ctx["bar"], abi, journal)
      /\ FillKnown(abi) /\ Advances(abi, abi)
  BY <1>1, WorkFacts, AdvancesSame
<1>3. ~HasMarker(s) /\ ctx["bar"].bar \in Nat
  BY <1>2 DEF PointOK, Contexts
<1>4. desired \in DesiredEntries \cup {None} /\ ctx \in [Threads -> Contexts]
  BY <1>2 DEF EntriesOn, DesiredEntries, Contexts, InductiveInvariant, TypeOK
<1>5. CASE Goto("bar", "exit") /\ UNCHANGED <<st, then, ctx>>
  BY <1>1, <1>2, <1>5, WorkExits
<1>6. CASE /\ decision = "apply"
           /\ \E id \in TradeCycleIds : Fresh(id) /\ SaveThen("bar", MarkEntry(s, id), "create")
           /\ ctx' = [ctx EXCEPT !["bar"].desired = desired]
  <2>1. PICK id \in TradeCycleIds : Fresh(id) /\ SaveThen("bar", MarkEntry(s, id), "create")
    BY <1>6
  <2> DEFINE new == MarkEntry(s, id)
  <2>2. cycle = None
    BY <1>6, DecisionFacts
  <2>3. /\ new \in States /\ new.pending_entry_recovery = id
        /\ new.current_trade_cycle = s.current_trade_cycle
    BY <1>2, <1>3, <2>2, MarkEntryFacts
  <2>4. \A kind \in Kinds : journal[id][kind] = 0
    BY <2>1, FreshUnrecorded DEF Fresh
  <2> HIDE DEF new
  <2>5. Matches(new, abi) /\ Unrecorded(new, journal) /\ Keeps(s, new, abi)
    BY <1>2, <2>3, <2>4, SameCycle
  <2>6. /\ ctx'["bar"].source = ctx["bar"].source
        /\ \A u \in Threads \ {"bar"} : ctx'[u] = ctx[u]
    BY <1>1, <1>4, <1>6, ContextKept
  <2>7. ctx'["bar"].source = None
    BY <1>2, <2>2, <2>6 DEF PointFacts
  <2>8. PointFacts("create", new, ctx'["bar"], abi, journal)
    BY <2>7 DEF PointFacts, AtWork
  <2> QED
    BY <1>1, <1>2, <2>1, <2>3, <2>5, <2>6, <2>8, WorkSaves DEF new
<1>7. CASE /\ decision \in {"cancel", "replace"}
           /\ SaveThen("bar", MarkEntry(s, cycle.trade_cycle_id), "cancel")
           /\ ctx' = [ctx EXCEPT !["bar"].desired = IF decision = "replace" THEN desired ELSE None]
  <2> DEFINE new == MarkEntry(s, cycle.trade_cycle_id)
  <2>1. cycle # None
    BY <1>7, DecisionFacts
  <2>2. cycle \in Cycles /\ cycle.trade_cycle_id \in TradeCycleIds
    BY <1>2, <2>1 DEF States, Cycles
  <2>3. new \in States /\ new.current_trade_cycle = cycle
    BY <1>2, <1>3, <2>2, MarkEntryFacts
  <2> HIDE DEF new
  <2>4. Matches(new, abi) /\ Unrecorded(new, journal) /\ Keeps(s, new, abi) /\ Name(new) = Name(s)
    BY <1>2, <2>1, <2>3, SameCycle DEF Name
  <2>5. PICK d \in DesiredEntries \cup {None} : ctx' = [ctx EXCEPT !["bar"].desired = d]
    BY <1>4, <1>7
  <2>6. /\ ctx'["bar"].source = ctx["bar"].source /\ ctx'["bar"].bar = ctx["bar"].bar
        /\ \A u \in Threads \ {"bar"} : ctx'[u] = ctx[u]
    BY <1>1, <1>4, <2>5, ContextKept
  <2>7. ctx["bar"].source = cycle.trade_cycle_id
    BY <1>2, <2>1 DEF PointFacts, AtWork
  <2>8. LiveEntryMode = "touch_trigger" =>
          ctx["bar"].bar > cycle.desired_entry.source_plan_bar + OrderLifetimeBars
    BY <1>3, <1>7, <2>2, LifetimeOver
  <2>9. PointFacts("cancel", new, ctx'["bar"], abi, journal)
    BY <2>3, <2>6, <2>7, <2>8 DEF PointFacts
  <2> QED
    BY <1>1, <1>2, <1>7, <2>3, <2>4, <2>6, <2>9, WorkSaves DEF new
<1> QED
  BY <1>5, <1>6, <1>7 DEF EngineLiveEntry

(* A cycle is taken up for the entry the exchange holds under the marked   *)
(* identity.                                                               *)
LEMMA Adopted ==
  ASSUME NEW s \in States, NEW id \in TradeCycleIds, NEW entry \in DesiredEntries,
         NEW a, NEW j,
         s.current_trade_cycle = None, s.pending_entry_recovery = id,
         a[id].status # "none", a[id].entry = entry, Unrecorded(s, j)
  PROVE  LET new == WithCycle(s, id, entry) IN
         /\ new \in States
         /\ Matches(new, a) /\ Unrecorded(new, j) /\ Keeps(s, new, a)
         /\ Name(new) = id /\ Name(s) = id
         /\ Tracked(new) = {id} /\ Tracked(s) = {id}
         /\ new.current_trade_cycle # None /\ new.current_trade_cycle.trade_cycle_id = id
         /\ new.current_trade_cycle.frozen_entry_context = None
<1> DEFINE new == WithCycle(s, id, entry)
           cycle == NewCycle(id, entry)
<1>1. new \in States
  BY WithCycleType
<1>2. new.current_trade_cycle = cycle /\ new.pending_entry_recovery = None
  BY DEF WithCycle, States
<1>3. /\ cycle \in Cycles /\ cycle.trade_cycle_id = id /\ cycle.desired_entry = entry
      /\ cycle.frozen_entry_context = None /\ ~cycle.entry_remainder_cancelled
  BY DEF NewCycle, Cycles
<1>4. cycle # None /\ id # None
  BY <1>3, NoneAssumption, ConstantsAssumption
<1> HIDE DEF new, cycle
<1>5. Matches(new, a)
  BY <1>2, <1>3, <1>4 DEF Matches
<1>6. Unrecorded(new, j)
  BY <1>2, <1>3, <1>4 DEF Unrecorded, Kinds
<1>7. /\ Keeps(s, new, a) /\ Name(new) = id /\ Name(s) = id
      /\ Tracked(new) = {id} /\ Tracked(s) = {id}
  BY <1>2, <1>3, <1>4 DEF Keeps, Name, Tracked
<1> QED
  BY <1>1, <1>2, <1>3, <1>4, <1>5, <1>6, <1>7 DEF new

(* What the bar knows when it sends a CREATE. *)
LEMMA CreateKnows ==
  ASSUME InductiveInvariant, CycleInv, pc["bar"] = "create"
  PROVE  LET id == st["bar"].pending_entry_recovery IN
         /\ "bar" \in Threads /\ pc["bar"] \in AtWork /\ st["bar"] \in States
         /\ ctx["bar"].desired \in DesiredEntries
         /\ st["bar"].current_trade_cycle = None /\ id \in TradeCycleIds
         /\ abi[id].status = "none"
         /\ Unrecorded(st["bar"], journal)
         /\ PointFacts("create", st["bar"], ctx["bar"], abi, journal)
         /\ abi \in [TradeCycleIds -> AbiCycles] /\ FillKnown(abi) /\ Advances(abi, abi)
<1>1. /\ "bar" \in Threads /\ pc["bar"] \in AtWork /\ st["bar"] \in States
      /\ ctx["bar"].desired \in DesiredEntries
      /\ st["bar"].current_trade_cycle = None
      /\ st["bar"].pending_entry_recovery \in TradeCycleIds
      /\ FreshIn(st["bar"].pending_entry_recovery, abi, late)
  BY CreateFacts
<1>2. /\ Unrecorded(st["bar"], journal)
      /\ PointFacts("create", st["bar"], ctx["bar"], abi, journal)
      /\ abi \in [TradeCycleIds -> AbiCycles] /\ FillKnown(abi)
  BY <1>1, WorkFacts
<1> QED
  BY <1>1, <1>2, AdvancesSame DEF FreshIn

(* The last save of the entry path: the cycle that was replaced, if any,   *)
(* is still to be reported.                                                *)
LEMMA ReplacedUnreported ==
  ASSUME InductiveInvariant, CycleInv, pc["bar"] = "create", Advances(abi, abi'), NEW new,
         Tracked(new) \subseteq {st["bar"].pending_entry_recovery}
  PROVE  PointFacts(EntryContinuation, new, ctx["bar"], abi', journal)
<1> DEFINE id == ctx["bar"].source
<1>1. /\ PointFacts("create", st["bar"], ctx["bar"], abi, journal)
      /\ st["bar"].current_trade_cycle = None
      /\ st["bar"].pending_entry_recovery \in TradeCycleIds
  BY CreateKnows
<1>2. id # None => Unreported(id, "cancelled", "ended", st["bar"], abi, journal)
  BY <1>1 DEF PointFacts
<1>3. Tracked(st["bar"]) = {st["bar"].pending_entry_recovery}
  BY <1>1, ConstantsAssumption DEF Tracked
<1>4. id # None => Unreported(id, "cancelled", "ended", new, abi', journal)
  BY <1>2, <1>3 DEF Unreported, Advances
<1> QED
  BY <1>4 DEF PointFacts, EntryContinuation, AtWork

(* A confirmed CREATE. *)
LEMMA CreateAppliedFacts ==
  ASSUME InductiveInvariant, CycleInv, CreateApplied
  PROVE  CycleInv'
<1> DEFINE s == st["bar"]
           id == s.pending_entry_recovery
           entry == ctx["bar"].desired
           new == WithCycle(s, id, entry)
<1>1. /\ pc["bar"] = "create" /\ abi' = Place(id, entry)
      /\ SaveThen("bar", new, EntryContinuation)
      /\ UNCHANGED <<store, poisoned, ctx, journal>>
  BY DEF CreateApplied
<1>2. /\ "bar" \in Threads /\ pc["bar"] \in AtWork /\ s \in States
      /\ entry \in DesiredEntries /\ s.current_trade_cycle = None /\ id \in TradeCycleIds
      /\ abi[id].status = "none" /\ Unrecorded(s, journal)
      /\ abi \in [TradeCycleIds -> AbiCycles] /\ FillKnown(abi)
  BY <1>1, CreateKnows
<1>3. /\ Advances(abi, abi') /\ FillKnown(abi')
      /\ abi'[id].status = "live" /\ abi'[id].entry = entry
  BY <1>1, <1>2, PlaceAdvances
<1>4. /\ new \in States /\ Matches(new, abi') /\ Unrecorded(new, journal)
      /\ Keeps(s, new, abi') /\ Name(new) = id /\ Name(s) = id /\ Tracked(new) = {id}
  <2>1. s.pending_entry_recovery = id /\ abi'[id].status # "none"
    BY <1>3
  <2> HIDE DEF s, id, entry, new
  <2> QED
    BY <1>2, <1>3, <2>1, Adopted DEF new
<1> HIDE DEF new
<1>5. PointFacts(EntryContinuation, new, ctx["bar"], abi', journal)
  BY <1>1, <1>3, <1>4, ReplacedUnreported
<1>6. EntryContinuation # "engine_open"
  BY DEF EntryContinuation
<1> QED
  BY <1>1, <1>2, <1>3, <1>4, <1>5, <1>6, WorkSaves

(* The marker of a command that did nothing is taken back. *)
LEMMA Cleared ==
  ASSUME NEW s \in States, WellFormed(s), NEW a, NEW j, Matches(s, a), Unrecorded(s, j)
  PROVE  LET new == ClearEntryMarker(s) IN
         /\ new \in States
         /\ Matches(new, a) /\ Unrecorded(new, j) /\ Keeps(s, new, a)
         /\ Name(new) \in {None, Name(s)}
         /\ s.current_trade_cycle = None => Tracked(new) = {}
<1> DEFINE new == ClearEntryMarker(s)
<1>1. new \in States
  BY ClearFacts
<1>2. new.current_trade_cycle = s.current_trade_cycle /\ new.pending_entry_recovery = None
  BY DEF ClearEntryMarker, States
<1> HIDE DEF new
<1>3. Matches(new, a) /\ Unrecorded(new, j) /\ Keeps(s, new, a)
  BY <1>2, SameCycle
<1> QED
  BY <1>1, <1>2, <1>3 DEF Name, Tracked, new

(* A CREATE that was declined, or a command ABI was not ready for. *)
LEMMA EntryRefusedFacts ==
  ASSUME InductiveInvariant, CycleInv, CreateDeclined \/ EntryNotReady
  PROVE  CycleInv'
<1> DEFINE s == st["bar"]
           new == ClearEntryMarker(s)
<1>1. /\ "bar" \in Threads /\ pc["bar"] \in {"create", "cancel"} /\ pc["bar"] \in AtWork
      /\ UNCHANGED <<store, poisoned, ctx, abi, journal>>
  BY DEF CreateDeclined, EntryNotReady, Threads, AtWork
<1>2. /\ s \in States /\ WellFormed(s) /\ Matches(s, abi) /\ Unrecorded(s, journal)
      /\ FillKnown(abi) /\ Advances(abi, abi)
  BY <1>1, WorkFacts, AdvancesSame
<1>3. /\ new \in States /\ Matches(new, abi) /\ Unrecorded(new, journal)
      /\ Keeps(s, new, abi) /\ Name(new) \in {None, Name(s)}
      /\ s.current_trade_cycle = None => Tracked(new) = {}
  BY <1>2, Cleared
<1> HIDE DEF new
<1>4. PICK c : /\ SaveThen("bar", new, c) /\ c \in {"exit", "ended"}
               /\ c # "exit" => pc["bar"] = "create" /\ c = EntryContinuation
  BY DEF CreateDeclined, EntryNotReady, EntryContinuation, new
<1>5. PointFacts(c, new, ctx["bar"], abi, journal)
  <2>1. CASE c = "exit"
    BY <2>1 DEF PointFacts, AtWork
  <2>2. CASE c # "exit"
    <3>1. s.current_trade_cycle = None
      BY <1>4, <2>2, CreateKnows
    <3> QED
      BY <1>1, <1>2, <1>3, <1>4, <2>2, <3>1, ReplacedUnreported
  <2> QED
    BY <2>1, <2>2
<1> QED
  BY <1>1, <1>2, <1>3, <1>4, <1>5, WorkSaves

(* A CREATE without an answer. *)
LEMMA CreateFailsFacts ==
  ASSUME InductiveInvariant, CycleInv, CreateFails
  PROVE  CycleInv'
<1> DEFINE id == st["bar"].pending_entry_recovery
<1>1. /\ pc["bar"] = "create" /\ Goto("bar", "exit")
      /\ UNCHANGED <<store, poisoned, st, ctx, journal>>
      /\ UNCHANGED abi \/ abi' = Place(id, ctx["bar"].desired)
  BY DEF CreateFails
<1>2. /\ "bar" \in Threads /\ pc["bar"] \in AtWork /\ id \in TradeCycleIds
      /\ abi[id].status = "none"
      /\ abi \in [TradeCycleIds -> AbiCycles] /\ FillKnown(abi) /\ Advances(abi, abi)
  BY <1>1, CreateKnows
<1>3. Advances(abi, abi') /\ FillKnown(abi')
  BY <1>1, <1>2, PlaceAdvances
<1> QED
  BY <1>1, <1>2, <1>3, WorkExits

(* What ABI may cancel is not frozen. *)
LEMMA CancellableUnfrozen ==
  ASSUME NEW s, Matches(s, abi), s.current_trade_cycle # None,
         Cancellable(s.current_trade_cycle.trade_cycle_id)
  PROVE  s.current_trade_cycle.frozen_entry_context = None
BY DEF Matches, Cancellable, Filled

(* A confirmed cancel, with or without the second leg of a Replace. *)
LEMMA CancelConfirmedFacts ==
  ASSUME InductiveInvariant, CycleInv, CancelConfirmed
  PROVE  CycleInv'
<1> DEFINE s == st["bar"]
           id == s.pending_entry_recovery
           absent == WithoutEntry(s)
<1>1. /\ pc["bar"] = "cancel" /\ Cancellable(id) /\ abi' = Cancelled(id)
      /\ UNCHANGED <<store, poisoned, ctx, late, journal>>
  BY DEF CancelConfirmed
<1>2. /\ "bar" \in Threads /\ pc["bar"] \in AtWork /\ s \in States /\ WellFormed(s)
      /\ s.current_trade_cycle # None /\ id = s.current_trade_cycle.trade_cycle_id
      /\ id \in TradeCycleIds
  BY <1>1, CancelFacts
<1>3. /\ Matches(s, abi) /\ Unrecorded(s, journal)
      /\ PointFacts("cancel", s, ctx["bar"], abi, journal)
  BY <1>1, <1>2, WorkFacts
<1>4. s.current_trade_cycle.frozen_entry_context = None
  BY <1>1, <1>2, <1>3, CancellableUnfrozen
<1>5. /\ Advances(abi, abi') /\ FillKnown(abi') /\ abi'[id].status = "cancelled"
  BY <1>1, <1>2, CancelledAdvances
<1>6. ctx["bar"].source = id /\ journal[id]["ended"] = 0
  BY <1>2, <1>3 DEF PointFacts, Unrecorded, AtWork
<1>7. /\ absent \in States /\ Matches(absent, abi') /\ Unrecorded(absent, journal)
      /\ Keeps(s, absent, abi') /\ Name(absent) = None /\ Tracked(absent) = {}
  BY <1>2, <1>4, Dropped
<1>8. ~HasMarker(absent) /\ absent.current_trade_cycle = None
  BY <1>2, AbsentFacts, ConstantsAssumption
<1>9. CASE SaveThen("bar", absent, "ended")
  <2> HIDE DEF absent, id
  <2>1. PointFacts("ended", absent, ctx["bar"], abi', journal)
    BY <1>2, <1>5, <1>6, <1>7 DEF PointFacts, Unreported, AtWork
  <2> QED
    BY <1>1, <1>2, <1>5, <1>7, <1>9, <2>1, WorkSaves
<1>10. CASE \E n \in TradeCycleIds \ {id} :
              Fresh(n) /\ SaveThen("bar", MarkEntry(absent, n), "create")
  <2>1. PICK n \in TradeCycleIds \ {id} :
          Fresh(n) /\ SaveThen("bar", MarkEntry(absent, n), "create")
    BY <1>10
  <2> DEFINE new == MarkEntry(absent, n)
  <2> HIDE DEF absent, id
  <2>2. /\ new \in States /\ new.pending_entry_recovery = n
        /\ new.current_trade_cycle = absent.current_trade_cycle
        /\ Tracked(new) = {n}
    BY <1>7, <1>8, MarkEntryFacts
  <2>3. \A kind \in Kinds : journal[n][kind] = 0
    BY <2>1, FreshUnrecorded DEF Fresh
  <2> HIDE DEF new
  <2>4. Matches(new, abi') /\ Unrecorded(new, journal)
    BY <1>7, <2>2, <2>3, SameCycle
  <2>5. Keeps(s, new, abi')
    BY <1>4 DEF Keeps
  <2>6. PointFacts("create", new, ctx["bar"], abi', journal)
    BY <1>2, <1>5, <1>6, <2>1, <2>2 DEF PointFacts, Unreported, AtWork
  <2> QED
    BY <1>1, <1>2, <1>5, <2>1, <2>2, <2>4, <2>5, <2>6, WorkSaves DEF new
<1> QED
  BY <1>9, <1>10 DEF CancelConfirmed

(* A CANCEL without an answer. *)
LEMMA CancelFailsFacts ==
  ASSUME InductiveInvariant, CycleInv, CancelFails
  PROVE  CycleInv'
<1> DEFINE id == st["bar"].pending_entry_recovery
<1>1. /\ pc["bar"] = "cancel" /\ Goto("bar", "exit")
      /\ UNCHANGED <<store, poisoned, st, ctx, journal>>
      /\ UNCHANGED abi \/ (Cancellable(id) /\ abi' = Cancelled(id))
  BY DEF CancelFails
<1>2. "bar" \in Threads /\ pc["bar"] \in AtWork /\ id \in TradeCycleIds
  BY <1>1, CancelFacts
<1>3. Advances(abi, abi') /\ FillKnown(abi')
  BY <1>1, <1>2, CancelledAdvances, AdvancesSame DEF CycleInv
<1> QED
  BY <1>1, <1>2, <1>3, WorkExits

-----------------------------------------------------------------------------
(* The first-fill webhook. *)

(* A fill the stored cycle has not seen is frozen into it. *)
LEMMA FillCallbackFacts ==
  ASSUME InductiveInvariant, CycleInv, NEW id \in TradeCycleIds, FillCallback(id)
  PROVE  CycleInv'
<1> DEFINE fill == abi[id].fill
           new == apply_first_fill(store, fill)
<1>1. /\ "fill" \in Threads /\ owner = None /\ fill # None /\ CanFreeze(store, id, fill)
      /\ SaveThen("fill", new, "exit") /\ UNCHANGED <<store, poisoned, ctx, abi, journal>>
  BY DEF FillCallback, Acquire, Lock, Threads
<1>2. /\ store \in States /\ abi \in [TradeCycleIds -> AbiCycles]
      /\ Matches(store, abi) /\ Unrecorded(store, journal) /\ FillKnown(abi)
      /\ Advances(abi, abi)
  BY AdvancesSame DEF InductiveInvariant, TypeOK, CycleInv
<1>3. fill \in Nat /\ abi[id].status \in Filled
  BY <1>1, FillIsABar
<1>4. /\ new \in States /\ Matches(new, abi) /\ Unrecorded(new, journal)
      /\ Keeps(store, new, abi) /\ Name(new) = Name(store)
  BY <1>1, <1>2, <1>3, Frozen
<1> HIDE DEF new
<1>5. PointFacts("exit", new, ctx["fill"], abi, journal)
  BY DEF PointFacts, AtWork
<1> QED
  BY <1>1, <1>2, <1>4, <1>5, SaveThenFacts

-----------------------------------------------------------------------------
(* The resolver. *)

(* An attempt starts from the stored state and its marker. *)
LEMMA ResolverBeginFacts ==
  ASSUME InductiveInvariant, CycleInv, ResolverBegin
  PROVE  CycleInv'
<1> DEFINE closing == store.pending_close_recovery # None
           source == IF closing THEN store.pending_close_recovery
                                ELSE store.pending_entry_recovery
           p == IF closing THEN "close" ELSE "query"
<1>1. /\ "resolver" \in Threads /\ owner = None /\ HasMarker(store)
      /\ Goto("resolver", p)
      /\ st' = [st EXCEPT !["resolver"] = store]
      /\ ctx' = [ctx EXCEPT !["resolver"].source = source]
      /\ UNCHANGED <<store, poisoned, abi, journal>>
  BY DEF ResolverBegin, Acquire, Lock, Threads
<1>2. /\ store \in States /\ WellFormed(store) /\ ctx \in [Threads -> Contexts]
      /\ st \in [Threads -> States]
      /\ Matches(store, abi) /\ Unrecorded(store, journal) /\ FillKnown(abi)
      /\ Advances(abi, abi)
  BY AdvancesSame DEF InductiveInvariant, TypeOK, CycleInv
<1>3. source \in TradeCycleIds
  BY <1>1, <1>2 DEF HasMarker, States
<1>4. /\ st'["resolver"] = store /\ ctx'["resolver"].source = source
      /\ \A u \in Threads \ {"resolver"} : st'[u] = st[u] /\ ctx'[u] = ctx[u]
  <2> HIDE DEF source
  <2> QED
    BY <1>1, <1>2, <1>3, SourceType
<1>5. closing => store.current_trade_cycle # None
                 /\ source = store.current_trade_cycle.trade_cycle_id
  BY <1>2 DEF WellFormed
<1>6. PointFacts(p, store, ctx'["resolver"], abi, journal)
  BY <1>4, <1>5 DEF PointFacts
<1> QED
  BY <1>1, <1>2, <1>4, <1>6, GotoFacts

(* What the resolver knows while it asks about an entry. *)
LEMMA QueryKnows ==
  ASSUME InductiveInvariant, CycleInv, pc["resolver"] \in {"query", "neutralize"}
  PROVE  LET s == st["resolver"]
             id == ctx["resolver"].source
         IN /\ "resolver" \in Threads /\ pc["resolver"] \in AtWork
            /\ s \in States /\ WellFormed(s)
            /\ id \in TradeCycleIds /\ s.pending_entry_recovery = id
            /\ s.current_trade_cycle # None => s.current_trade_cycle.trade_cycle_id = id
            /\ Matches(s, abi) /\ Unrecorded(s, journal)
            /\ journal[id]["ended"] = 0
            /\ abi \in [TradeCycleIds -> AbiCycles] /\ FillKnown(abi) /\ Advances(abi, abi)
<1> DEFINE s == st["resolver"]
           id == ctx["resolver"].source
<1>1. /\ "resolver" \in Threads /\ pc["resolver"] \in AtWork
      /\ s \in States /\ WellFormed(s)
      /\ id \in TradeCycleIds /\ s.pending_entry_recovery = id
      /\ s.current_trade_cycle # None => s.current_trade_cycle.trade_cycle_id = id
  BY QueryFacts
<1>2. /\ Matches(s, abi) /\ Unrecorded(s, journal)
      /\ abi \in [TradeCycleIds -> AbiCycles] /\ FillKnown(abi)
  BY <1>1, WorkFacts
<1>3. journal[id]["ended"] = 0
  BY <1>1, <1>2, ConstantsAssumption DEF Unrecorded, Kinds
<1> QED
  BY <1>1, <1>2, <1>3, AdvancesSame

(* The order rests. *)
LEMMA ResolverFindsLiveFacts ==
  ASSUME InductiveInvariant, CycleInv, ResolverFindsLive
  PROVE  CycleInv'
<1> DEFINE s == st["resolver"]
           id == ctx["resolver"].source
           entry == abi[id].entry
           new == WithCycle(s, id, entry)
<1>1. /\ pc["resolver"] = "query" /\ abi[id].status = "live"
      /\ UNCHANGED <<store, poisoned, ctx, abi, journal>>
  BY DEF ResolverFindsLive
<1>2. /\ "resolver" \in Threads /\ pc["resolver"] \in AtWork
      /\ s \in States /\ id \in TradeCycleIds /\ s.pending_entry_recovery = id
      /\ Unrecorded(s, journal)
      /\ abi \in [TradeCycleIds -> AbiCycles] /\ FillKnown(abi) /\ Advances(abi, abi)
  BY <1>1, QueryKnows
<1>3. CASE s.current_trade_cycle = None /\ SaveThen("resolver", new, "exit")
  <2>1. entry \in DesiredEntries
    BY <1>1, <1>2 DEF InductiveInvariant, ExchangeOK, AbiCycles
  <2>2. /\ new \in States /\ Matches(new, abi) /\ Unrecorded(new, journal)
        /\ Keeps(s, new, abi) /\ Name(new) = id /\ Name(s) = id
    BY <1>1, <1>2, <1>3, <2>1, Adopted
  <2> HIDE DEF new
  <2>3. PointFacts("exit", new, ctx["resolver"], abi, journal)
    BY DEF PointFacts, AtWork
  <2> QED
    BY <1>1, <1>2, <1>3, <2>2, <2>3, WorkSaves
<1>4. CASE Goto("resolver", "neutralize") /\ UNCHANGED st
  <2>1. PointFacts("neutralize", s, ctx["resolver"], abi, journal)
    BY DEF PointFacts
  <2> QED
    BY <1>1, <1>2, <1>4, <2>1, WorkGoes
<1> QED
  BY <1>3, <1>4 DEF ResolverFindsLive

(* A position is open. *)
LEMMA ResolverFindsPositionFacts ==
  ASSUME InductiveInvariant, CycleInv, ResolverFindsPosition
  PROVE  CycleInv'
<1> DEFINE s == st["resolver"]
           id == ctx["resolver"].source
           entry == abi[id].entry
           fill == abi[id].fill
           adopted == WithCycle(s, id, entry)
           new == apply_first_fill(adopted, fill)
<1>1. /\ pc["resolver"] = "query" /\ abi[id].status \in Filled
      /\ UNCHANGED <<store, poisoned, ctx, abi, journal>>
  BY DEF ResolverFindsPosition, PositionOpen, Filled
<1>2. /\ "resolver" \in Threads /\ pc["resolver"] \in AtWork
      /\ s \in States /\ WellFormed(s) /\ id \in TradeCycleIds /\ s.pending_entry_recovery = id
      /\ Matches(s, abi) /\ Unrecorded(s, journal)
      /\ abi \in [TradeCycleIds -> AbiCycles] /\ FillKnown(abi) /\ Advances(abi, abi)
  BY <1>1, QueryKnows
<1>3. CASE /\ s.current_trade_cycle = None
           /\ CanFreeze(adopted, id, fill) /\ SaveThen("resolver", new, "opened")
  <2>1. entry \in DesiredEntries /\ fill \in Nat /\ abi[id].status # "none"
    BY <1>1, <1>2, FillIsABar DEF InductiveInvariant, ExchangeOK, AbiCycles, Filled
  <2>2. /\ adopted \in States /\ Matches(adopted, abi) /\ Unrecorded(adopted, journal)
        /\ Name(adopted) = id /\ Name(s) = id
    BY <1>2, <1>3, <2>1, Adopted
  <2> HIDE DEF adopted
  <2>3. /\ new \in States /\ Matches(new, abi) /\ Unrecorded(new, journal)
        /\ Name(new) = Name(adopted)
        /\ new.current_trade_cycle # None /\ new.current_trade_cycle.trade_cycle_id = id
        /\ new.current_trade_cycle.frozen_entry_context # None
        /\ journal[id]["opened"] = 0
    BY <1>1, <1>2, <1>3, <2>1, <2>2, Frozen
  <2> HIDE DEF new
  <2>4. Keeps(s, new, abi)
    BY <1>3 DEF Keeps
  <2>5. PointFacts("opened", new, ctx["resolver"], abi, journal)
    BY <2>3 DEF PointFacts, AtWork
  <2> QED
    BY <1>1, <1>2, <1>3, <2>2, <2>3, <2>4, <2>5, WorkSaves
<1>4. CASE SaveThen("resolver", ClearEntryMarker(s), "exit")
  <2> DEFINE clear == ClearEntryMarker(s)
  <2>1. /\ clear \in States /\ Matches(clear, abi) /\ Unrecorded(clear, journal)
        /\ Keeps(s, clear, abi) /\ Name(clear) \in {None, Name(s)}
    BY <1>2, Cleared
  <2> HIDE DEF clear
  <2>2. PointFacts("exit", clear, ctx["resolver"], abi, journal)
    BY DEF PointFacts, AtWork
  <2> QED
    BY <1>1, <1>2, <1>4, <2>1, <2>2, WorkSaves DEF clear
<1> QED
  BY <1>3, <1>4 DEF ResolverFindsPosition

(* The resolver lets go of a cycle: a terminal answer or a confirmed       *)
(* corrective CANCEL.                                                      *)
LEMMA ResolverDropsFacts ==
  ASSUME InductiveInvariant, CycleInv, ResolverFindsTerminal \/ NeutralizeAbsent
  PROVE  CycleInv'
<1> DEFINE s == st["resolver"]
           id == ctx["resolver"].source
           new == WithoutEntry(s)
<1>1. /\ pc["resolver"] \in {"query", "neutralize"}
      /\ UNCHANGED <<store, poisoned, ctx, journal>>
  BY DEF ResolverFindsTerminal, NeutralizeAbsent
<1>2. /\ "resolver" \in Threads /\ pc["resolver"] \in AtWork
      /\ s \in States /\ id \in TradeCycleIds
      /\ s.current_trade_cycle # None => s.current_trade_cycle.trade_cycle_id = id
      /\ Matches(s, abi) /\ journal[id]["ended"] = 0
      /\ FillKnown(abi) /\ Advances(abi, abi)
  BY <1>1, QueryKnows
<1>3. PICK c \in {"ended", "exit"} :
        /\ SaveThen("resolver", new, c)
        /\ Advances(abi, abi') /\ FillKnown(abi')
        /\ abi'[id].status \in {"cancelled", "ended"}
        /\ c = "ended" => abi'[id].status = "cancelled"
  <2>1. CASE ResolverFindsTerminal
    BY <1>2, <2>1 DEF ResolverFindsTerminal
  <2>2. CASE NeutralizeAbsent
    <3>1. Cancellable(id) /\ abi' = Cancelled(id) /\ SaveThen("resolver", new, "ended")
      BY <2>2 DEF NeutralizeAbsent
    <3>2. Advances(abi, abi') /\ FillKnown(abi') /\ abi'[id].status = "cancelled"
      BY <1>2, <3>1, CancelledAdvances
    <3> QED
      BY <3>1, <3>2
  <2> QED
    BY <2>1, <2>2
<1>4. Matches(s, abi')
  BY <1>2, <1>3, MatchesAdvance
<1>5. s.current_trade_cycle # None /\ s.current_trade_cycle.frozen_entry_context # None =>
        abi'[s.current_trade_cycle.trade_cycle_id].status = "ended"
  BY <1>2, <1>3, <1>4 DEF Matches, Filled
<1>6. /\ new \in States /\ Matches(new, abi') /\ Unrecorded(new, journal)
      /\ Keeps(s, new, abi') /\ Name(new) = None /\ Tracked(new) = {}
  BY <1>2, <1>5, Dropped
<1> HIDE DEF new, id
<1>7. PointFacts(c, new, ctx["resolver"], abi', journal)
  BY <1>2, <1>3, <1>6 DEF PointFacts, Unreported, AtWork, id
<1> QED
  BY <1>1, <1>2, <1>3, <1>6, <1>7, WorkSaves

(* An unknown identity is neutralised; a corrective CANCEL may stay        *)
(* without an answer.                                                      *)
LEMMA NeutralizeFacts ==
  ASSUME InductiveInvariant, CycleInv, ResolverFindsNothing \/ NeutralizeFails
  PROVE  CycleInv'
<1> DEFINE id == ctx["resolver"].source
<1>1. /\ pc["resolver"] \in {"query", "neutralize"}
      /\ UNCHANGED <<store, poisoned, st, ctx, journal>>
      /\ UNCHANGED abi \/ (Cancellable(id) /\ abi' = Cancelled(id))
  BY DEF ResolverFindsNothing, NeutralizeFails
<1>2. /\ "resolver" \in Threads /\ pc["resolver"] \in AtWork /\ id \in TradeCycleIds
      /\ FillKnown(abi) /\ Advances(abi, abi)
  BY <1>1, QueryKnows
<1>3. Advances(abi, abi') /\ FillKnown(abi')
  BY <1>1, <1>2, CancelledAdvances
<1>4. PICK p \in {"neutralize", "exit"} : Goto("resolver", p)
  BY DEF ResolverFindsNothing, NeutralizeFails
<1>5. PointFacts(p, st["resolver"], ctx["resolver"], abi', journal)
  BY DEF PointFacts, AtWork
<1> QED
  BY <1>1, <1>2, <1>3, <1>4, <1>5, WorkGoes

-----------------------------------------------------------------------------
(* The operator routes. *)

(* What the operator adds to its context. *)
LEMMA CommandContext ==
  ASSUME NEW c \in [Threads -> Contexts], NEW t \in Threads,
         NEW k, NEW id, NEW new,
         \/ new = [c EXCEPT ![t].command = k, ![t].source = id]
         \/ new = [c EXCEPT ![t].command = k] /\ id = c[t].source
  PROVE  new[t].source = id /\ \A u \in Threads \ {t} : new[u] = c[u]
<1>1. c[t] \in Contexts
  OBVIOUS
<1>2. CASE new = [c EXCEPT ![t].command = k, ![t].source = id]
  <2>1. /\ new[t] = [c[t] EXCEPT !.command = k, !.source = id]
        /\ \A u \in Threads \ {t} : new[u] = c[u]
    BY <1>2
  <2> QED
    BY <1>1, <2>1 DEF Contexts
<1>3. CASE new = [c EXCEPT ![t].command = k] /\ id = c[t].source
  <2>1. /\ new[t] = [c[t] EXCEPT !.command = k]
        /\ \A u \in Threads \ {t} : new[u] = c[u]
    BY <1>3
  <2> QED
    BY <1>1, <1>3, <2>1 DEF Contexts
<1> QED
  BY <1>2, <1>3

(* A command begins. *)
LEMMA OperatorBeginFacts ==
  ASSUME InductiveInvariant, CycleInv,
         OperatorEnables \/ \E command \in {"disable", "cancel_orders", "delete", "close"} :
                              OperatorBegin(command)
  PROVE  CycleInv'
<1>1. /\ "operator" \in Threads /\ pc["operator"] = "idle" /\ owner = None
      /\ UNCHANGED <<store, poisoned, abi, journal>>
  BY DEF OperatorEnables, OperatorBegin, Acquire, Lock, Threads
<1>2. /\ store \in States /\ ctx \in [Threads -> Contexts] /\ st \in [Threads -> States]
      /\ Matches(store, abi) /\ Unrecorded(store, journal) /\ FillKnown(abi)
      /\ Advances(abi, abi)
      /\ ThreadFacts(pc["operator"], st["operator"], then["operator"], ctx["operator"],
                     store, abi, journal, poisoned)
  BY <1>1, AdvancesSame DEF InductiveInvariant, TypeOK, CycleInv
<1>3. CASE OperatorEnables
  <2>1. /\ Goto("operator", "op_write") /\ UNCHANGED st
        /\ ctx' = [ctx EXCEPT !["operator"].command = "enable"]
    BY <1>3 DEF OperatorEnables
  <2>2. \A u \in Threads \ {"operator"} : ctx'[u] = ctx[u]
    BY <1>1, <1>2, <2>1, CommandContext
  <2>3. Matches(st["operator"], abi) /\ Unrecorded(st["operator"], journal)
    BY <1>2 DEF ThreadFacts
  <2>4. PointFacts("op_write", st["operator"], ctx'["operator"], abi, journal)
    BY DEF PointFacts, AtWork
  <2> QED
    BY <1>1, <1>2, <2>1, <2>2, <2>3, <2>4, GotoFacts DEF AtWork
<1>4. CASE \E command \in {"disable", "cancel_orders", "delete", "close"} : OperatorBegin(command)
  <2> DEFINE cycle == store.current_trade_cycle
             source == IF cycle = None THEN None ELSE cycle.trade_cycle_id
             p == IF cycle = None THEN "op_write" ELSE "op_lookup"
  <2>1. PICK command \in {"disable", "cancel_orders", "delete", "close"} :
          /\ Goto("operator", p) /\ st' = [st EXCEPT !["operator"] = store]
          /\ ctx' = [ctx EXCEPT !["operator"].command = command, !["operator"].source = source]
    BY <1>4 DEF OperatorBegin
  <2>2. ctx'["operator"].source = source /\ \A u \in Threads \ {"operator"} : ctx'[u] = ctx[u]
    <3> HIDE DEF source
    <3> QED
      BY <1>1, <1>2, <2>1, CommandContext
  <2>3. st'["operator"] = store /\ \A u \in Threads \ {"operator"} : st'[u] = st[u]
    BY <1>1, <1>2, <2>1
  <2>4. PointFacts(p, store, ctx'["operator"], abi, journal)
    BY <2>2 DEF PointFacts, AtWork
  <2> QED
    BY <1>1, <1>2, <2>1, <2>2, <2>3, <2>4, GotoFacts DEF AtWork
<1> QED
  BY <1>3, <1>4

(* What the operator finds. *)
LEMMA OperatorLookupFacts ==
  ASSUME InductiveInvariant, CycleInv, OperatorFindsFlat \/ OperatorFindsPosition
  PROVE  CycleInv'
<1> DEFINE s == st["operator"]
           id == ctx["operator"].source
           fill == abi[id].fill
           new == apply_first_fill(s, fill)
<1>1. /\ "operator" \in Threads /\ pc["operator"] = "op_lookup"
      /\ UNCHANGED <<store, poisoned, ctx, abi, journal>>
  BY DEF OperatorFindsFlat, OperatorFindsPosition, Threads
<1>2. /\ pc["operator"] \in AtWork /\ s \in States /\ s.current_trade_cycle # None
      /\ s.current_trade_cycle.trade_cycle_id = id /\ id \in TradeCycleIds
      /\ Matches(s, abi) /\ Unrecorded(s, journal)
      /\ abi \in [TradeCycleIds -> AbiCycles] /\ FillKnown(abi) /\ Advances(abi, abi)
  BY <1>1, LookupFacts
<1>3. CASE OperatorFindsFlat
  <2>1. Goto("operator", "op_cancel") /\ UNCHANGED st
    BY <1>3 DEF OperatorFindsFlat
  <2>2. PointFacts("op_cancel", s, ctx["operator"], abi, journal)
    BY <1>2 DEF PointFacts
  <2> QED
    BY <1>1, <1>2, <2>1, <2>2, WorkGoes
<1>4. CASE /\ s.current_trade_cycle.frozen_entry_context # None
           /\ Goto("operator", "op_disable") /\ UNCHANGED st
  <2>1. PointFacts("op_disable", s, ctx["operator"], abi, journal)
    BY <1>2, <1>4 DEF PointFacts
  <2> QED
    BY <1>1, <1>2, <1>4, <2>1, WorkGoes
<1>5. CASE /\ PositionOpen(id) /\ CanFreeze(s, id, fill)
           /\ \E c \in {"opened", "op_disable"} : SaveThen("operator", new, c)
  <2>1. PICK c \in {"opened", "op_disable"} : SaveThen("operator", new, c)
    BY <1>5
  <2>2. fill \in Nat /\ abi[id].status \in Filled
    BY <1>2, <1>5, FillIsABar DEF PositionOpen, Filled
  <2>3. /\ new \in States /\ Matches(new, abi) /\ Unrecorded(new, journal)
        /\ Keeps(s, new, abi) /\ Name(new) = Name(s)
        /\ new.current_trade_cycle # None /\ new.current_trade_cycle.trade_cycle_id = id
        /\ new.current_trade_cycle.frozen_entry_context # None
        /\ journal[id]["opened"] = 0
    BY <1>2, <1>5, <2>2, Frozen
  <2> HIDE DEF new
  <2>4. PointFacts(c, new, ctx["operator"], abi, journal)
    BY <2>3 DEF PointFacts, AtWork
  <2> QED
    BY <1>1, <1>2, <2>1, <2>3, <2>4, WorkSaves
<1> QED
  BY <1>3, <1>4, <1>5 DEF OperatorFindsPosition

(* The operator's CANCEL. *)
LEMMA OperatorCancelFacts ==
  ASSUME InductiveInvariant, CycleInv, OperatorCancelled \/ OperatorCancelFails
  PROVE  CycleInv'
<1> DEFINE s == st["operator"]
           id == ctx["operator"].source
           new == WithoutCycle(s)
<1>1. /\ "operator" \in Threads /\ pc["operator"] = "op_cancel"
      /\ UNCHANGED <<store, poisoned, ctx, journal>>
  BY DEF OperatorCancelled, OperatorCancelFails, Threads
<1>2. /\ pc["operator"] \in AtWork /\ s \in States /\ s.current_trade_cycle # None
      /\ s.current_trade_cycle.trade_cycle_id = id /\ id \in TradeCycleIds
      /\ s.pending_entry_recovery = None
      /\ Matches(s, abi) /\ Unrecorded(s, journal) /\ FillKnown(abi) /\ Advances(abi, abi)
  BY <1>1, LookupFacts
<1>3. CASE OperatorCancelled
  <2>1. Cancellable(id) /\ abi' = Cancelled(id) /\ SaveThen("operator", new, "op_ended")
    BY <1>3 DEF OperatorCancelled
  <2>2. Advances(abi, abi') /\ FillKnown(abi') /\ abi'[id].status = "cancelled"
    BY <1>2, <2>1, CancelledAdvances
  <2>3. s.current_trade_cycle.frozen_entry_context = None
    BY <1>2, <2>1, CancellableUnfrozen
  <2>4. /\ new \in States /\ Matches(new, abi') /\ Unrecorded(new, journal)
        /\ Keeps(s, new, abi') /\ Name(new) = None /\ Tracked(new) = {}
    BY <1>2, <2>3, Dropped
  <2>5. journal[id]["ended"] = 0
    BY <1>2 DEF Unrecorded
  <2> HIDE DEF new
  <2>6. PointFacts("op_ended", new, ctx["operator"], abi', journal)
    BY <1>2, <2>2, <2>4, <2>5 DEF PointFacts, Unreported, AtWork
  <2> QED
    BY <1>1, <1>2, <2>1, <2>2, <2>4, <2>6, WorkSaves
<1>4. CASE OperatorCancelFails
  <2>1. /\ Goto("operator", "exit") /\ UNCHANGED st
        /\ UNCHANGED abi \/ (Cancellable(id) /\ abi' = Cancelled(id))
    BY <1>4 DEF OperatorCancelFails
  <2>2. Advances(abi, abi') /\ FillKnown(abi')
    BY <1>2, <2>1, CancelledAdvances
  <2> QED
    BY <1>1, <1>2, <2>1, <2>2, WorkExits
<1> QED
  BY <1>3, <1>4

(* The file is written; a close is marked. *)
LEMMA OperatorWriteFacts ==
  ASSUME InductiveInvariant, CycleInv, OperatorWrites \/ OperatorDisables
  PROVE  CycleInv'
<1>1. /\ "operator" \in Threads /\ UNCHANGED <<store, poisoned, ctx, abi, journal>>
      /\ FillKnown(abi) /\ Advances(abi, abi)
  BY AdvancesSame DEF OperatorWrites, OperatorDisables, Threads, CycleInv
<1>2. CASE OperatorWrites
  <2>1. pc["operator"] = "op_write" /\ Goto("operator", "exit") /\ UNCHANGED st
    BY <1>2 DEF OperatorWrites
  <2>2. owner = "operator" /\ st["operator"] \in States
    BY <1>1, <2>1, InHandler
  <2>3. Matches(st["operator"], abi) /\ Unrecorded(st["operator"], journal)
    BY <1>1 DEF CycleInv, ThreadFacts
  <2>4. PointFacts("exit", st["operator"], ctx'["operator"], abi, journal)
    BY DEF PointFacts, AtWork
  <2> QED
    BY <1>1, <2>1, <2>2, <2>3, <2>4, GotoFacts DEF AtWork
<1>3. CASE OperatorDisables
  <2>1. pc["operator"] = "op_disable" /\ pc["operator"] \in AtWork
    BY <1>3 DEF OperatorDisables, AtWork
  <2>2. CASE SaveThen("operator", MarkClose(st["operator"]), "close")
    BY <1>1, <2>1, <2>2, CloseMarked
  <2>3. CASE Goto("operator", "exit") /\ UNCHANGED st
    BY <1>1, <2>1, <2>3, WorkExits
  <2> QED
    BY <1>3, <2>2, <2>3 DEF OperatorDisables
<1> QED
  BY <1>2, <1>3

-----------------------------------------------------------------------------
(* The exchange, the network and the process. *)

(* The exchange moves on by itself. *)
LEMMA ExchangeFacts ==
  ASSUME InductiveInvariant, CycleInv, Exchange \/ StorePoisoned
  PROVE  CycleInv'
<1>1. /\ UNCHANGED <<store, pc, st, then, ctx, journal>> /\ poisoned' \in {poisoned, TRUE}
  BY DEF Exchange, Fill, FillRest, EntryDies, PositionEnds, LateArrives, LateLost, Tick,
         StorePoisoned, runtime, local
<1>2. abi \in [TradeCycleIds -> AbiCycles] /\ FillKnown(abi) /\ late \in SUBSET Creates
  BY DEF InductiveInvariant, TypeOK, CycleInv
<1>3. Advances(abi, abi') /\ FillKnown(abi')
  <2>1. ASSUME NEW id \in TradeCycleIds, Fill(id) PROVE Advances(abi, abi') /\ FillKnown(abi')
    BY <1>2, <2>1, FillAdvances DEF Fill
  <2>2. ASSUME NEW id \in TradeCycleIds, FillRest(id)
        PROVE  Advances(abi, abi') /\ FillKnown(abi')
    BY <1>2, <2>2, StatusAdvances DEF FillRest
  <2>3. ASSUME NEW id \in TradeCycleIds, EntryDies(id)
        PROVE  Advances(abi, abi') /\ FillKnown(abi')
    BY <2>3, CancelledAdvances DEF EntryDies, Cancellable
  <2>4. ASSUME NEW id \in TradeCycleIds, PositionEnds(id)
        PROVE  Advances(abi, abi') /\ FillKnown(abi')
    BY <2>4, EndedAdvances DEF PositionEnds, PositionOpen, Filled
  <2>5. ASSUME NEW r \in late, LateArrives(r) PROVE Advances(abi, abi') /\ FillKnown(abi')
    BY <1>2, <2>5, PlaceAdvances DEF LateArrives, Creates
  <2>6. CASE UNCHANGED abi
    BY <1>2, <2>6, AdvancesSame
  <2> QED
    BY <2>1, <2>2, <2>3, <2>4, <2>5, <2>6 DEF Exchange, LateLost, Tick, StorePoisoned
<1> QED
  BY <1>1, <1>3, WorldFacts

(* The process dies and starts again. *)
LEMMA CrashFacts ==
  ASSUME InductiveInvariant, CycleInv, Crash
  PROVE  CycleInv'
<1>1. UNCHANGED <<store, abi, journal>>
  BY DEF Crash
<1>2. \A t \in Threads : pc'[t] = "idle" /\ st'[t] = InitialState /\ ctx'[t].source = None
  BY DEF Crash, NoContext
<1>3. \A t \in Threads :
        ThreadFacts(pc'[t], st'[t], then'[t], ctx'[t], store', abi', journal', poisoned')
  BY <1>2, OutsideFacts
<1>4. JournalTruthful'
  BY <1>1 DEF CycleInv, JournalTruthful
<1> QED
  BY <1>1, <1>3, <1>4 DEF CycleInv

-----------------------------------------------------------------------------
(* The theorems. *)

(* The invariant holds of a fresh instance. *)
LEMMA InitFacts == Init => CycleInv
<1> SUFFICES ASSUME Init PROVE CycleInv
  OBVIOUS
<1>1. \A t \in Threads : pc[t] = "idle" /\ st[t] = InitialState /\ ctx[t].source = None
  BY DEF Init, NoContext
<1>2. \A t \in Threads :
        ThreadFacts(pc[t], st[t], then[t], ctx[t], store, abi, journal, poisoned)
  BY <1>1, OutsideFacts
<1>3. FillKnown(abi) /\ JournalTruthful
  BY DEF Init, FillKnown, JournalTruthful, NoAbiCycle, Kinds
<1>4. Matches(store, abi) /\ Unrecorded(store, journal)
  BY DEF Init, Matches, Unrecorded, InitialState
<1> QED
  BY <1>2, <1>3, <1>4 DEF CycleInv

(* Every step keeps it. *)
LEMMA StepFacts ==
  ASSUME InductiveInvariant, CycleInv, [Next]_vars
  PROVE  CycleInv'
<1>1. ASSUME NEW t \in Threads, Handler(t) PROVE CycleInv'
  BY <1>1, SaveFacts, SaveFailsFacts, ReleaseFacts, OpenReported, EndReported, CallFailsFacts,
     CloseConfirmedFacts, CloseFailsFacts DEF Handler
<1>2. CASE Bar
  BY <1>2, BarOutsideFacts, BarBeginFacts, BarFindsClosureFacts, BarFindsPositionFacts,
     BarQuietFacts, RemainderStepFacts, EngineOpenTradeFacts, ProtectionAppliedFacts,
     EngineLiveEntryFacts, CreateAppliedFacts, EntryRefusedFacts, CreateFailsFacts,
     CancelConfirmedFacts, CancelFailsFacts DEF Bar
<1>3. ASSUME NEW id \in TradeCycleIds, FillCallback(id) PROVE CycleInv'
  BY <1>3, FillCallbackFacts
<1>4. CASE Resolver
  BY <1>4, ResolverBeginFacts, ResolverFindsLiveFacts, ResolverFindsPositionFacts,
     ResolverDropsFacts, NeutralizeFacts DEF Resolver
<1>5. CASE Operator
  BY <1>5, OperatorBeginFacts, OperatorLookupFacts, OperatorCancelFacts, OperatorWriteFacts
  DEF Operator
<1>6. CASE Exchange \/ StorePoisoned \/ Crash
  BY <1>6, ExchangeFacts, CrashFacts
<1>7. CASE UNCHANGED vars
  BY <1>7 DEF vars, CycleInv, JournalTruthful
<1> QED
  BY <1>1, <1>2, <1>3, <1>4, <1>5, <1>6, <1>7 DEF Next

(* The second layer of the invariant holds in every reachable state: what  *)
(* the store and every handler hold of a cycle is so on the exchange and   *)
(* not yet reported.                                                       *)
THEOREM CycleInvariance == Spec => []CycleInv
<1>1. InductiveInvariant /\ CycleInv /\ [Next]_vars => CycleInv'
  BY StepFacts
<1> QED
  BY <1>1, InitFacts, Invariance, PTL DEF Spec

(* The stored cycle is the one the exchange knows by its identity: the     *)
(* same entry, and a frozen context only for a real fill, of that fill's   *)
(* bar.                                                                    *)
THEOREM StoreTellsTheTruth == Spec => []CycleMatchesExchange
<1>1. CycleInv => CycleMatchesExchange
  BY DEF CycleInv, Matches, CycleMatchesExchange, Filled
<1> QED
  BY <1>1, CycleInvariance, PTL

(* entry_remainder_cancelled is recorded only when nothing of the entry    *)
(* rests any more.                                                         *)
THEOREM NoRemainderRests == Spec => []RemainderGone
<1>1. CycleInv => RemainderGone
  BY DEF CycleInv, Matches, RemainderGone
<1> QED
  BY <1>1, CycleInvariance, PTL

(* A touch_trigger order is cancelled or replaced by a bar only after its  *)
(* whole lifetime.                                                         *)
THEOREM OrdersLiveTheirTime == Spec => []LifetimeHonoured
<1>1. CycleInv => LifetimeHonoured
  <2> SUFFICES ASSUME CycleInv, LiveEntryMode = "touch_trigger", pc["bar"] = "cancel"
               PROVE  ctx["bar"].bar
                        > st["bar"].current_trade_cycle.desired_entry.source_plan_bar
                            + OrderLifetimeBars
    BY DEF LifetimeHonoured
  <2>1. PointFacts("cancel", st["bar"], ctx["bar"], abi, journal)
    BY DEF CycleInv, ThreadFacts, Threads
  <2> QED
    BY <2>1 DEF PointFacts
<1> QED
  BY <1>1, CycleInvariance, PTL

(* The journal says what happened, once. *)
THEOREM JournalTellsTheTruth == Spec => []JournalTruthful
<1>1. CycleInv => JournalTruthful
  BY DEF CycleInv
<1> QED
  BY <1>1, CycleInvariance, PTL

-----------------------------------------------------------------------------
(* Only a save writes the store. *)

(* What the store holds after a step: what it held, or what a thread was   *)
(* about to save.                                                          *)
LEMMA StoreWritten ==
  ASSUME InductiveInvariant, [Next]_vars
  PROVE  \/ UNCHANGED store
         \/ /\ UNCHANGED <<abi, late>>
            /\ ~poisoned
            /\ \E t \in Threads : pc[t] = "save" /\ store' = st[t]
<1>1. ASSUME NEW t \in Threads, Handler(t), store' # store
      PROVE  UNCHANGED <<abi, late>> /\ ~poisoned /\ pc[t] = "save" /\ store' = st[t]
  BY <1>1 DEF Handler, Save, SaveFails, Release, JournalOpened, JournalClosed, JournalEnded,
              CallFails, CloseConfirmed, CloseFails
<1>2. CASE Bar
  BY <1>2 DEF Bar, BarSelect, BarRefused, BarBegin, BarFindsClosure, BarFindsPosition,
              BarFindsFlat, BarManage, RemainderCancelled, RemainderFails, EngineOpenTrade,
              ProtectionApplied, EngineLiveEntry, CreateApplied, CreateDeclined, EntryNotReady,
              CreateFails, CancelConfirmed, CancelFails
<1>3. CASE Resolver \/ \E id \in TradeCycleIds : FillCallback(id)
  BY <1>3 DEF FillCallback, Resolver, ResolverBegin, ResolverFindsLive, ResolverFindsPosition,
              ResolverFindsTerminal, ResolverFindsNothing, NeutralizeAbsent, NeutralizeFails
<1>4. CASE Operator
  BY <1>4 DEF Operator, OperatorEnables, OperatorBegin, OperatorFindsFlat,
              OperatorFindsPosition, OperatorCancelled, OperatorCancelFails, OperatorWrites,
              OperatorDisables
<1>5. CASE Exchange \/ StorePoisoned \/ Crash \/ UNCHANGED vars
  BY <1>5 DEF Exchange, Fill, FillRest, EntryDies, PositionEnds, LateArrives, LateLost, Tick,
              StorePoisoned, Crash, runtime, vars
<1> QED
  BY <1>1, <1>2, <1>3, <1>4, <1>5 DEF Next

(* While a cycle stays the current one no save undoes its frozen context,  *)
(* a confirmed protection or the cancelled remainder, and a frozen cycle   *)
(* is dropped only when its position is gone.                              *)
THEOREM SavesKeepFacts == Spec => FactsSurviveSaves
<1> DEFINE old == store.current_trade_cycle
           new == store'.current_trade_cycle
           P == (old # None /\ old.frozen_entry_context # None) =>
                  IF new # None /\ new.trade_cycle_id = old.trade_cycle_id
                  THEN /\ new.frozen_entry_context = old.frozen_entry_context
                       /\ old.confirmed_protection # None => new.confirmed_protection # None
                       /\ old.entry_remainder_cancelled => new.entry_remainder_cancelled
                  ELSE abi[old.trade_cycle_id].status = "ended"
<1>1. InductiveInvariant /\ CycleInv /\ [Next]_vars => [P]_vars
  <2> SUFFICES ASSUME InductiveInvariant, CycleInv, [Next]_vars PROVE P
    OBVIOUS
  <2>1. CASE UNCHANGED store
    BY <2>1
  <2>2. CASE ~poisoned /\ \E t \in Threads : pc[t] = "save" /\ store' = st[t]
    <3>1. PICK t \in Threads : pc[t] = "save" /\ store' = st[t]
      BY <2>2
    <3>2. Keeps(store, st[t], abi)
      BY <2>2, <3>1 DEF CycleInv, ThreadFacts
    <3> QED
      BY <3>1, <3>2 DEF Keeps
  <2> QED
    BY <2>1, <2>2, StoreWritten
<1> QED
  BY <1>1, Invariance, CycleInvariance, PTL DEF Spec, FactsSurviveSaves

-----------------------------------------------------------------------------
(* The refinement of the trader's ledger. *)

(* An aggregate tracks at most the cycle it answers for. *)
LEMMA TrackedIsNamed ==
  ASSUME NEW s \in States, WellFormed(s)
  PROVE  Tracked(s) = {Name(s)} \ {None} /\ Name(s) \in TradeCycleIds \cup {None}
<1>1. s.current_trade_cycle # None => s.current_trade_cycle.trade_cycle_id \in TradeCycleIds
  BY DEF States, Cycles
<1>2. s.pending_entry_recovery \in TradeCycleIds \cup {None}
  BY DEF States
<1> QED
  BY <1>1, <1>2, ConstantsAssumption DEF Tracked, Name, WellFormed

(* The exchange only moves on, and only the cycle in the store comes to    *)
(* its notice.                                                             *)
LEMMA ExchangeMoves ==
  ASSUME InductiveInvariant, CycleInv, [Next]_vars
  PROVE  /\ Advances(abi, abi')
         /\ \A id \in TradeCycleIds :
              abi[id].status = "none" /\ abi'[id].status # "none" =>
                id = Name(store) /\ abi'[id].status \in {"live", "cancelled"}
<1> DEFINE Moves == /\ Advances(abi, abi')
                    /\ \A id \in TradeCycleIds :
                         abi[id].status = "none" /\ abi'[id].status # "none" =>
                           id = Name(store) /\ abi'[id].status \in {"live", "cancelled"}
<1> SUFFICES Moves
  OBVIOUS
<1>1. /\ abi \in [TradeCycleIds -> AbiCycles] /\ FillKnown(abi) /\ late \in SUBSET Creates
      /\ store \in States /\ WellFormed(store)
  BY DEF InductiveInvariant, TypeOK, CycleInv
<1>2. UNCHANGED abi => Moves
  BY AdvancesSame
<1>3. ASSUME NEW id \in TradeCycleIds, abi[id].status \in Filled,
             \/ abi' = [abi EXCEPT ![id].status = "ended"]
             \/ abi' = [abi EXCEPT ![id].status = IF @ = "partial" THEN "open" ELSE @]
      PROVE  Moves
  <2>1. \A o \in TradeCycleIds : o # id => abi'[o] = abi[o]
    BY <1>1, <1>3
  <2>2. Advances(abi, abi')
    BY <1>3, EndedAdvances, RemainderAdvances
  <2> QED
    BY <1>3, <2>1, <2>2 DEF Filled
<1>4. ASSUME NEW id \in TradeCycleIds, id = Name(store), Cancellable(id), abi' = Cancelled(id)
      PROVE  Moves
  BY <1>4, CancelledAdvances
<1>5. ASSUME NEW id \in TradeCycleIds, id = Name(store), abi[id].status = "none",
             NEW entry, abi' = Place(id, entry)
      PROVE  Moves
  BY <1>1, <1>5, PlaceAdvances
<1> HIDE DEF Moves
<1>6. ASSUME NEW t \in Threads, Handler(t) PROVE Moves
  <2>1. CASE CloseConfirmed(t) \/ CloseFails(t)
    <3>1. pc[t] = "close" /\ st[t].pending_close_recovery \in TradeCycleIds
      BY <2>1, CloseFacts DEF CloseConfirmed, CloseFails
    <3> QED
      BY <1>2, <1>3, <2>1, <3>1 DEF CloseConfirmed, CloseFails, PositionOpen, Filled
  <2> QED
    BY <1>2, <1>6, <2>1 DEF Handler, Save, SaveFails, Release, JournalOpened, JournalClosed,
                            JournalEnded, CallFails
<1>7. CASE Bar
  <2>1. CASE RemainderCancelled \/ RemainderFails
    <3> DEFINE id == ctx["bar"].source
    <3>1. "bar" \in Threads /\ pc["bar"] = "remainder"
      BY <2>1 DEF RemainderCancelled, RemainderFails, Threads
    <3>2. id \in TradeCycleIds /\ abi[id].status \in Filled
      BY <3>1, LookupFacts DEF PointFacts, Matches
    <3> QED
      BY <1>2, <1>3, <2>1, <3>2 DEF RemainderCancelled, RemainderFails
  <2>2. CASE CreateApplied \/ CreateFails
    <3> DEFINE id == st["bar"].pending_entry_recovery
    <3>1. /\ pc["bar"] = "create"
          /\ UNCHANGED abi \/ abi' = Place(id, ctx["bar"].desired)
      BY <2>2 DEF CreateApplied, CreateFails
    <3>2. /\ id \in TradeCycleIds /\ abi[id].status = "none" /\ "bar" \in Threads
          /\ st["bar"].current_trade_cycle = None /\ pc["bar"] \in AtWork
      BY <3>1, CreateKnows
    <3>3. id = Name(store)
      BY <3>2, WorkFacts DEF Name
    <3> QED
      BY <1>2, <1>5, <3>1, <3>2, <3>3
  <2>3. CASE CancelConfirmed \/ CancelFails
    <3> DEFINE id == st["bar"].pending_entry_recovery
    <3>1. /\ pc["bar"] = "cancel"
          /\ UNCHANGED abi \/ (Cancellable(id) /\ abi' = Cancelled(id))
      BY <2>3 DEF CancelConfirmed, CancelFails
    <3>2. id \in TradeCycleIds /\ Tracked(store) = {id}
      BY <3>1, CancelFacts
    <3>3. id = Name(store)
      BY <1>1, <3>2, TrackedIsNamed
    <3> QED
      BY <1>2, <1>4, <3>1, <3>2, <3>3
  <2> QED
    BY <1>2, <1>7, <2>1, <2>2, <2>3
    DEF Bar, BarSelect, BarRefused, BarBegin, BarFindsClosure, BarFindsPosition, BarFindsFlat,
        BarManage, EngineOpenTrade, ProtectionApplied, EngineLiveEntry, CreateDeclined,
        EntryNotReady
<1>8. CASE Resolver
  <2>1. CASE NeutralizeAbsent \/ NeutralizeFails
    <3> DEFINE id == ctx["resolver"].source
    <3>1. /\ pc["resolver"] = "neutralize"
          /\ UNCHANGED abi \/ (Cancellable(id) /\ abi' = Cancelled(id))
      BY <2>1 DEF NeutralizeAbsent, NeutralizeFails
    <3>2. id \in TradeCycleIds /\ Tracked(store) = {id}
      BY <3>1, QueryFacts
    <3>3. id = Name(store)
      BY <1>1, <3>2, TrackedIsNamed
    <3> QED
      BY <1>2, <1>4, <3>1, <3>2, <3>3
  <2> QED
    BY <1>2, <1>8, <2>1 DEF Resolver, ResolverBegin, ResolverFindsLive, ResolverFindsPosition,
                            ResolverFindsTerminal, ResolverFindsNothing
<1>9. CASE Operator
  <2>1. CASE OperatorCancelled \/ OperatorCancelFails
    <3> DEFINE id == ctx["operator"].source
    <3>1. /\ pc["operator"] = "op_cancel" /\ "operator" \in Threads
          /\ UNCHANGED abi \/ (Cancellable(id) /\ abi' = Cancelled(id))
      BY <2>1 DEF OperatorCancelled, OperatorCancelFails, Threads
    <3>2. /\ id \in TradeCycleIds /\ st["operator"].current_trade_cycle # None
          /\ st["operator"].current_trade_cycle.trade_cycle_id = id
          /\ pc["operator"] \in AtWork
      BY <3>1, LookupFacts
    <3>3. id = Name(store)
      BY <3>1, <3>2, WorkFacts DEF Name
    <3> QED
      BY <1>2, <1>4, <3>1, <3>2, <3>3
  <2> QED
    BY <1>2, <1>9, <2>1 DEF Operator, OperatorEnables, OperatorBegin, OperatorFindsFlat,
                            OperatorFindsPosition, OperatorWrites, OperatorDisables
<1>10. CASE Exchange
  <2>1. ASSUME NEW id \in TradeCycleIds, Fill(id) \/ FillRest(id) PROVE Moves
    <3>1. PICK cycle : abi' = [abi EXCEPT ![id] = cycle] /\ abi[id].status # "none"
      BY <1>1, <2>1 DEF Fill, FillRest
    <3>2. \A o \in TradeCycleIds : o # id => abi'[o] = abi[o]
      BY <1>1, <3>1
    <3>3. Advances(abi, abi')
      <4>1. CASE Fill(id)
        BY <1>1, <4>1, FillAdvances DEF Fill
      <4>2. CASE FillRest(id)
        BY <1>1, <4>2, StatusAdvances DEF FillRest
      <4> QED
        BY <2>1, <4>1, <4>2
    <3> QED
      BY <3>1, <3>2, <3>3 DEF Moves
  <2>2. ASSUME NEW id \in TradeCycleIds, EntryDies(id) PROVE Moves
    <3>1. id \in ExposedIn(abi, late)
      BY <2>2 DEF EntryDies, ExposedIn
    <3>2. id = Name(store)
      BY <1>1, <3>1, TrackedIsNamed DEF InductiveInvariant
    <3> QED
      BY <1>4, <2>2, <3>2 DEF EntryDies, Cancellable
  <2>3. ASSUME NEW id \in TradeCycleIds, PositionEnds(id) PROVE Moves
    BY <1>3, <2>3 DEF PositionEnds, PositionOpen, Filled
  <2>4. ASSUME NEW r \in late, LateArrives(r) PROVE Moves
    <3>1. r.id \in TradeCycleIds /\ abi[r.id].status = "none" /\ abi' = Place(r.id, r.entry)
      BY <1>1, <2>4 DEF LateArrives, Creates
    <3>2. r.id \in ExposedIn(abi, late)
      BY <3>1 DEF ExposedIn
    <3>3. r.id = Name(store)
      BY <1>1, <3>2, TrackedIsNamed DEF InductiveInvariant
    <3> QED
      BY <1>5, <3>1, <3>3
  <2> QED
    BY <1>2, <1>10, <2>1, <2>2, <2>3, <2>4 DEF Exchange, LateLost, Tick
<1>11. CASE StorePoisoned \/ Crash \/ UNCHANGED vars \/ \E id \in TradeCycleIds : FillCallback(id)
  BY <1>2, <1>11 DEF StorePoisoned, Crash, vars, FillCallback
<1> QED
  BY <1>6, <1>7, <1>8, <1>9, <1>10, <1>11 DEF Next

(* What the ledger's variables are. *)
LEMMA ExposedMeans == Exposed = ExposedIn(abi, late)
BY DEF Exposed, ExposedIn, Active, PositionOpen

(* A save lets a cycle go, takes one up, or changes nothing the trader     *)
(* sees.                                                                   *)
LEMMA SaveIsALedgerStep ==
  ASSUME InductiveInvariant, CycleInv, UNCHANGED <<abi, late>>, NEW t \in Threads,
         pc[t] = "save", store' = st[t]
  PROVE  [Ledger!Next]_(Ledger!vars)
<1>1. /\ store \in States /\ WellFormed(store) /\ st[t] \in States
      /\ ThreadOK(t, "save", st[t], then[t], ctx[t], store, abi, late)
      /\ ExposedIn(abi, late) \subseteq Tracked(store)
      /\ ThreadFacts("save", st[t], then[t], ctx[t], store, abi, journal, poisoned)
  BY DEF InductiveInvariant, TypeOK, CycleInv
<1>2. WellFormed(st[t]) /\ ExposedIn(abi, late) \subseteq Tracked(st[t])
  BY <1>1 DEF ThreadOK
<1>3. /\ Tracked(store) = {Name(store)} \ {None} /\ Tracked(st[t]) = {Name(st[t])} \ {None}
      /\ Name(st[t]) \in TradeCycleIds \cup {None}
  BY <1>1, <1>2, TrackedIsNamed
<1>4. Exposed' = Exposed
  BY ExposedMeans DEF Exposed, Active, PositionOpen
<1>5. CASE Name(st[t]) = Name(store)
  BY <1>4, <1>5 DEF Ledger!vars, Name
<1>6. CASE Name(st[t]) # Name(store)
  <2>1. Exposed = {}
    BY <1>2, <1>1, <1>3, <1>6, ExposedMeans
  <2>2. CASE Name(st[t]) = None
    <3>1. Ledger!LetGo
      BY <1>4, <2>1, <2>2 DEF Ledger!LetGo, Name
    <3> QED
      BY <3>1 DEF Ledger!Next
  <2>3. CASE Name(st[t]) # None
    <3>1. then[t] = "create"
      BY <1>1, <1>6, <2>3 DEF ThreadFacts
    <3>2. /\ st[t].current_trade_cycle = None
          /\ abi[st[t].pending_entry_recovery].status = "none"
      BY <1>1, <3>1 DEF ThreadOK, PointOK, FreshIn
    <3>3. Name(st[t]) \in TradeCycleIds /\ abi[Name(st[t])].status = "none"
      BY <1>3, <2>3, <3>2 DEF Name
    <3>4. Ledger!Take(Name(st[t]))
      BY <1>4, <2>1, <3>3 DEF Ledger!Take, Name
    <3> QED
      BY <3>3, <3>4 DEF Ledger!Next
  <2> QED
    BY <2>2, <2>3
<1> QED
  BY <1>5, <1>6

(* Every other step exposes the cycle in the store, settles it, or changes *)
(* nothing the trader sees.                                                *)
LEMMA WorldIsALedgerStep ==
  ASSUME InductiveInvariant, InductiveInvariant', UNCHANGED store, Advances(abi, abi'),
         \A id \in TradeCycleIds :
           abi[id].status = "none" /\ abi'[id].status # "none" => id = Name(store)
  PROVE  [Ledger!Next]_(Ledger!vars)
<1> DEFINE spent == {id \in TradeCycleIds : abi[id].status # "none"}
           after == {id \in TradeCycleIds : abi'[id].status # "none"}
           name == Name(store)
<1>1. /\ store \in States /\ WellFormed(store) /\ abi \in [TradeCycleIds -> AbiCycles]
      /\ ExposedIn(abi, late) \subseteq Tracked(store)
      /\ ExposedIn(abi', late') \subseteq Tracked(store)
  BY DEF InductiveInvariant, TypeOK
<1>2. Tracked(store) = {name} \ {None} /\ name \in TradeCycleIds \cup {None}
  BY <1>1, TrackedIsNamed
<1>3. Exposed = ExposedIn(abi, late) /\ Exposed' = ExposedIn(abi', late')
  BY DEF Exposed, ExposedIn, Active, PositionOpen
<1>4. /\ spent \subseteq after /\ after \subseteq spent \cup {name}
      /\ name = None => after = spent
  BY <1>2, ConstantsAssumption DEF Advances
<1>5. after \in {spent, spent \cup {name}}
  <2>1. CASE name \in after
    BY <1>4, <2>1
  <2>2. CASE name \notin after
    BY <1>4, <2>2
  <2> QED
    BY <2>1, <2>2
<1>6. CASE name = None
  <2>1. Exposed = {} /\ Exposed' = {} /\ after = spent
    BY <1>1, <1>2, <1>3, <1>4, <1>6
  <2> QED
    BY <2>1 DEF Ledger!vars
<1>7. CASE name # None /\ Exposed' = {}
  <2>1. Ledger!Settle
    BY <1>5, <1>7 DEF Ledger!Settle, Name
  <2> QED
    BY <2>1 DEF Ledger!Next
<1>8. CASE name # None /\ Exposed' # {}
  <2>1. Exposed' = {name} /\ name \in TradeCycleIds
    BY <1>1, <1>2, <1>3, <1>8
  <2>2. CASE name \notin spent
    <3>1. Ledger!Expose
      BY <1>5, <1>8, <2>1, <2>2 DEF Ledger!Expose, Name
    <3> QED
      BY <3>1 DEF Ledger!Next
  <2>3. CASE name \in spent
    <3>1. after = spent
      BY <1>4, <2>3
    <3>2. abi[name].status \notin {"none", "cancelled", "ended"}
      BY <1>3, <2>1, <2>3 DEF ExposedIn, Advances
    <3>3. name \in ExposedIn(abi, late)
      BY <1>1, <2>1, <3>2 DEF ExposedIn, AbiCycles
    <3>4. Exposed = {name}
      BY <1>1, <1>2, <1>3, <3>3
    <3> QED
      BY <2>1, <3>1, <3>4 DEF Ledger!vars
  <2> QED
    BY <2>2, <2>3
<1> QED
  BY <1>6, <1>7, <1>8

(* The strategy instance implements the trader's ledger: it answers for    *)
(* one cycle at a time, lets it go or exchanges it only when nothing of it *)
(* is left, and never takes up an identity the exchange has seen.          *)
THEOREM LedgerImplemented == Spec => ImplementsLedger
<1>1. Init => Ledger!Init
  BY DEF Init, Ledger!Init, Exposed, Active, PositionOpen, InitialState, NoAbiCycle
<1>2. InductiveInvariant /\ InductiveInvariant' /\ CycleInv /\ [Next]_vars
        => [Ledger!Next]_(Ledger!vars)
  <2> SUFFICES ASSUME InductiveInvariant, InductiveInvariant', CycleInv, [Next]_vars
               PROVE  [Ledger!Next]_(Ledger!vars)
    OBVIOUS
  <2>1. CASE UNCHANGED store
    BY <2>1, ExchangeMoves, WorldIsALedgerStep
  <2>2. CASE /\ UNCHANGED <<abi, late>>
             /\ \E t \in Threads : pc[t] = "save" /\ store' = st[t]
    BY <2>2, SaveIsALedgerStep
  <2> QED
    BY <2>1, <2>2, StoreWritten
<1> QED
  BY <1>1, <1>2, Invariance, CycleInvariance, PTL DEF Spec, ImplementsLedger, Ledger!Spec

-----------------------------------------------------------------------------
(* The levels the exchange holds: ExchangeProtection.                      *)

(* The protection a cycle stands for, frozen or not. *)
Level(cycle) ==
  IF cycle.confirmed_protection # None THEN cycle.confirmed_protection
  ELSE cycle.desired_entry.initial_protection

(***************************************************************************)
(* What an aggregate acknowledges is in force, for exchange a with levels  *)
(* lv, unless a command was left in doubt (u): of the cycle it has, and of *)
(* the one a CREATE without an answer may have made, which the resolver    *)
(* would adopt with the entry the exchange holds.                          *)
(***************************************************************************)
InForce(s, a, lv, u) ==
  LET cycle == s.current_trade_cycle
      marked == s.pending_entry_recovery
  IN /\ cycle # None /\ cycle.trade_cycle_id \notin u =>
          lv[cycle.trade_cycle_id] = Level(cycle)
     /\ cycle = None /\ marked # None /\ marked \notin u
          /\ a[marked].status \in {"live", "partial", "open"} =>
          lv[marked] = a[marked].entry.initial_protection

(* A bar that has set the levels and not yet recorded it. *)
Recording == pc["bar"] = "save" /\ ctx["bar"].protection # None

Working == AtWork \cup {"save"}

(***************************************************************************)
(* The inductive invariant behind AcknowledgedInForce: every aggregate     *)
(* that is stored or may yet be acknowledges what is in force.             *)
(***************************************************************************)
LevelsInv ==
  /\ levels \in [TradeCycleIds -> Protections \cup {None}]
  /\ straying \subseteq [id : unanswered, protection : Protections \cup {None}]
  /\ ~Recording => InForce(store, abi, levels, unanswered)
  /\ \A t \in Threads : pc[t] \in Working => InForce(st[t], abi, levels, unanswered)
  /\ ctx["bar"].protection # None => pc["bar"] \in {"protect", "save", "exit"}
  /\ Recording =>
       /\ then["bar"] = "exit"
       /\ store.current_trade_cycle # None
       /\ store.current_trade_cycle.trade_cycle_id = ctx["bar"].source

-----------------------------------------------------------------------------
(* How an aggregate may follow another without a new protection: the same  *)
(* cycle, none, or the one that was marked, as exchange a has it.          *)
Follows(s, new, a) ==
  LET was == s.current_trade_cycle
      is == new.current_trade_cycle
      marked == new.pending_entry_recovery
  IN \/ /\ was # None /\ is # None
        /\ is.trade_cycle_id = was.trade_cycle_id
        /\ is.confirmed_protection = was.confirmed_protection
        /\ is.desired_entry = was.desired_entry
     \/ /\ is = None
        /\ marked = None \/ a[marked].status \in {"none", "cancelled", "ended"}
     \/ /\ was = None /\ is # None
        /\ is.trade_cycle_id = s.pending_entry_recovery
        /\ is.confirmed_protection = None
        /\ is.desired_entry = a[is.trade_cycle_id].entry
        /\ a[is.trade_cycle_id].status \in {"live", "partial", "open"}

(* The levels change with an order that is placed, and where a command is  *)
(* in doubt.                                                               *)
LevelsMove(a, b, lv, new, u, more) ==
  /\ Advances(a, b)
  /\ \A id \in TradeCycleIds :
       a[id].status = "none" /\ b[id].status # "none" => b[id].status \in {"live", "cancelled"}
  /\ u \subseteq more
  /\ \A id \in TradeCycleIds \ more :
       new[id] = IF b[id].status = "live" /\ a[id].status = "none"
                 THEN b[id].entry.initial_protection ELSE lv[id]

(* What is in force stays in force for an aggregate that stays. *)
LEMMA InForceStays ==
  ASSUME NEW s \in States, NEW a \in [TradeCycleIds -> AbiCycles], NEW b, NEW lv, NEW new,
         NEW u, NEW more,
         LevelsMove(a, b, lv, new, u, more), Matches(s, a), InForce(s, a, lv, u)
  PROVE  InForce(s, b, new, more)
<1> DEFINE cycle == s.current_trade_cycle
           marked == s.pending_entry_recovery
<1>1. /\ cycle # None => cycle.trade_cycle_id \in TradeCycleIds
      /\ marked # None => marked \in TradeCycleIds
  BY DEF States, Cycles
<1>2. CASE cycle # None
  <2>1. a[cycle.trade_cycle_id].status # "none"
    BY <1>2 DEF Matches
  <2> QED
    BY <1>1, <1>2, <2>1 DEF InForce, LevelsMove
<1>3. CASE cycle = None
  <2> SUFFICES ASSUME marked # None, marked \notin more,
                      b[marked].status \in {"live", "partial", "open"}
               PROVE  new[marked] = b[marked].entry.initial_protection
    BY <1>3 DEF InForce
  <2>1. CASE a[marked].status = "none"
    <3>1. b[marked].status = "live"
      BY <1>1, <2>1 DEF LevelsMove
    <3> QED
      BY <1>1, <2>1, <3>1 DEF LevelsMove
  <2>2. CASE a[marked].status # "none"
    <3>1. a[marked].status \in {"live", "partial", "open"}
      BY <1>1, <2>2 DEF LevelsMove, Advances, AbiCycles
    <3>2. new[marked] = lv[marked] /\ b[marked].entry = a[marked].entry
      BY <1>1, <2>2 DEF LevelsMove, Advances
    <3> QED
      BY <1>3, <3>1, <3>2 DEF InForce, LevelsMove
  <2> QED
    BY <2>1, <2>2
<1> QED
  BY <1>2, <1>3

(* And for one that follows it. *)
LEMMA InForceFollows ==
  ASSUME NEW s \in States, NEW r \in States, NEW a \in [TradeCycleIds -> AbiCycles], NEW b,
         NEW lv, NEW new, NEW u, NEW more,
         LevelsMove(a, b, lv, new, u, more), Matches(s, a), InForce(s, a, lv, u),
         Follows(s, r, b)
  PROVE  InForce(r, b, new, more)
<1> DEFINE was == s.current_trade_cycle
           is == r.current_trade_cycle
<1>1. InForce(s, b, new, more)
  BY InForceStays
<1>2. CASE was # None /\ is # None
  BY <1>1, <1>2 DEF InForce, Follows, Level
<1>3. CASE is = None
  BY <1>3 DEF InForce, Follows
<1>4. CASE was = None /\ is # None
  <2>1. is.trade_cycle_id # None
    BY <1>4, ConstantsAssumption DEF States, Cycles
  <2> QED
    BY <1>1, <1>4, <2>1 DEF InForce, Follows, Level
<1> QED
  BY <1>2, <1>3, <1>4

-----------------------------------------------------------------------------
(* The next values of the aggregate follow it. *)

(* A marker is set or cleared, a fill frozen, a remainder cancelled. *)
LEMMA SameCycleFollows ==
  ASSUME NEW s \in States, s.current_trade_cycle # None, NEW a, NEW new,
         \/ new.current_trade_cycle = s.current_trade_cycle
         \/ \E fill \in Nat : new = apply_first_fill(s, fill)
         \/ new = WithRemainderCancelled(s)
  PROVE  Follows(s, new, a)
<1> DEFINE was == s.current_trade_cycle
<1>1. was \in Cycles
  BY DEF States
<1>2. CASE new.current_trade_cycle = was
  BY <1>2 DEF Follows
<1>3. ASSUME NEW fill \in Nat, new = apply_first_fill(s, fill) PROVE Follows(s, new, a)
  <2> DEFINE context == FrozenContext(was.desired_entry, fill)
             is == [was EXCEPT !.frozen_entry_context = context]
  <2>1. new.current_trade_cycle = is
    BY <1>3 DEF apply_first_fill, States
  <2> HIDE DEF context
  <2>2. /\ is.trade_cycle_id = was.trade_cycle_id /\ is.desired_entry = was.desired_entry
        /\ is.confirmed_protection = was.confirmed_protection
    BY <1>1 DEF Cycles
  <2>3. is # None
    BY <1>3, <2>1, FirstFillType
  <2> QED
    BY <2>1, <2>2, <2>3 DEF Follows
<1>4. CASE new = WithRemainderCancelled(s)
  <2> DEFINE is == [was EXCEPT !.entry_remainder_cancelled = TRUE]
  <2>1. new.current_trade_cycle = is
    BY <1>4 DEF WithRemainderCancelled, States
  <2>2. /\ is.trade_cycle_id = was.trade_cycle_id /\ is.desired_entry = was.desired_entry
        /\ is.confirmed_protection = was.confirmed_protection
        /\ is \in Cycles
    BY <1>1 DEF Cycles
  <2> QED
    BY <2>1, <2>2, NoneAssumption DEF Follows
<1> QED
  BY <1>2, <1>3, <1>4

(* A cycle is dropped. *)
LEMMA DroppedFollows ==
  ASSUME NEW s \in States, NEW a, NEW new,
         \/ new = WithoutEntry(s)
         \/ new \in {WithoutPosition(s), WithoutCycle(s)} /\ s.pending_entry_recovery = None
  PROVE  Follows(s, new, a)
BY DEF WithoutEntry, WithoutPosition, WithoutCycle, States, Follows

(* A marker is taken back. *)
LEMMA ClearedFollows ==
  ASSUME NEW s \in States, NEW a
  PROVE  Follows(s, ClearEntryMarker(s), a)
<1> DEFINE new == ClearEntryMarker(s)
<1>1. new.current_trade_cycle = s.current_trade_cycle /\ new.pending_entry_recovery = None
  BY DEF ClearEntryMarker, States
<1> SUFFICES Follows(s, new, a)
  OBVIOUS
<1> HIDE DEF new
<1>2. CASE s.current_trade_cycle = None
  BY <1>1, <1>2 DEF Follows
<1>3. CASE s.current_trade_cycle # None
  BY <1>1, <1>3, SameCycleFollows
<1> QED
  BY <1>2, <1>3

(* An identity of which the exchange has nothing is marked. *)
LEMMA MarkedFollows ==
  ASSUME NEW s \in States, NEW a, NEW id \in TradeCycleIds, NEW new,
         new.current_trade_cycle = None, new.pending_entry_recovery = id,
         a[id].status = "none"
  PROVE  Follows(s, new, a)
BY DEF Follows

(* A cycle is taken up, and perhaps frozen at once. *)
LEMMA AdoptedFollows ==
  ASSUME NEW s \in States, s.current_trade_cycle = None, NEW id \in TradeCycleIds,
         s.pending_entry_recovery = id, NEW entry \in DesiredEntries, NEW a,
         a[id].entry = entry, a[id].status \in {"live", "partial", "open"}, NEW new,
         \/ new = WithCycle(s, id, entry)
         \/ \E fill \in Nat : new = apply_first_fill(WithCycle(s, id, entry), fill)
  PROVE  Follows(s, new, a)
<1> DEFINE adopted == WithCycle(s, id, entry)
           cycle == NewCycle(id, entry)
<1>1. adopted \in States /\ adopted.current_trade_cycle = cycle
  <2>1. adopted \in States
    BY WithCycleType
  <2>2. adopted.current_trade_cycle = cycle
    BY DEF WithCycle, States
  <2> QED
    BY <2>1, <2>2
<1>2. /\ cycle # None /\ cycle.trade_cycle_id = id /\ cycle.desired_entry = entry
      /\ cycle.confirmed_protection = None
  <2>1. cycle \in Cycles
    BY DEF NewCycle, Cycles
  <2> QED
    BY <2>1, NoneAssumption DEF NewCycle
<1> HIDE DEF cycle
<1>3. CASE new = adopted
  BY <1>1, <1>2, <1>3 DEF Follows
<1>4. ASSUME NEW fill \in Nat, new = apply_first_fill(adopted, fill)
      PROVE  Follows(s, new, a)
  <2> HIDE DEF adopted
  <2>1. Follows(adopted, new, a) /\ new.current_trade_cycle # None
    BY <1>1, <1>2, <1>4, SameCycleFollows, FirstFillType
  <2> QED
    BY <1>1, <1>2, <2>1 DEF Follows
<1> QED
  BY <1>3, <1>4

-----------------------------------------------------------------------------
(* What a thread works on after a step: what it worked on, the stored      *)
(* state, or what follows from one of them.                                *)

WorkFollows(t) ==
  \/ pc[t] \in Working /\ st'[t] = st[t]
  \/ st'[t] = store /\ (owner = None \/ (pc[t] = "save" /\ then[t] = "engine_open"))
  \/ pc[t] \in AtWork /\ Follows(st[t], st'[t], abi')
  \/ owner = None /\ Follows(store, st'[t], abi')

AllFollow == \A t \in Threads : pc'[t] \in Working => WorkFollows(t)

(* A step to the save of what follows the state a handler has. *)
LEMMA SaveFollows ==
  ASSUME TypeOK, NEW t \in Threads, pc[t] \in AtWork, NEW s, NEW c, SaveThen(t, s, c),
         Follows(st[t], s, abi')
  PROVE  AllFollow
<1>1. /\ st'[t] = s
      /\ \A u \in Threads \ {t} : pc'[u] = pc[u] /\ st'[u] = st[u]
  BY DEF SaveThen, Goto, TypeOK
<1> QED
  BY <1>1 DEF AllFollow, WorkFollows

(* A step to another point with the same state. *)
LEMMA GotoFollows ==
  ASSUME TypeOK, NEW t \in Threads, NEW p, Goto(t, p), UNCHANGED st,
         pc[t] \in Working \/ p \notin Working
  PROVE  AllFollow
<1>1. pc'[t] = p /\ \A u \in Threads \ {t} : pc'[u] = pc[u]
  BY DEF Goto, TypeOK
<1> QED
  BY <1>1 DEF AllFollow, WorkFollows

(* A handler begins: it reads the store. *)
LEMMA ReadFollows ==
  ASSUME TypeOK, NEW t \in Threads, NEW p, Goto(t, p), owner = None,
         st' = [st EXCEPT ![t] = store]
  PROVE  AllFollow
<1>1. st'[t] = store /\ \A u \in Threads \ {t} : pc'[u] = pc[u] /\ st'[u] = st[u]
  BY DEF Goto, TypeOK
<1> QED
  BY <1>1 DEF AllFollow, WorkFollows

(* Steps every handler may take. *)
LEMMA HandlerFollows ==
  ASSUME InductiveInvariant, CycleInv, NEW t \in Threads, Handler(t)
  PROVE  AllFollow
<1>1. TypeOK
  BY DEF InductiveInvariant
<1>2. CASE Save(t)
  BY <1>1, <1>2, GotoFollows DEF Save, Working
<1>3. CASE SaveFails(t)
  <2>1. CASE then[t] = "engine_open"
    <3>1. /\ st'[t] = store /\ pc[t] = "save"
          /\ \A u \in Threads \ {t} : pc'[u] = pc[u] /\ st'[u] = st[u]
      BY <1>1, <1>3, <2>1 DEF SaveFails, Goto, TypeOK
    <3> QED
      BY <2>1, <3>1 DEF AllFollow, WorkFollows
  <2>2. CASE then[t] # "engine_open"
    BY <1>1, <1>3, <2>2, GotoFollows DEF SaveFails, Working
  <2> QED
    BY <2>1, <2>2
<1>4. CASE Release(t)
  <2>1. pc'[t] = "idle" /\ \A u \in Threads \ {t} : pc'[u] = pc[u] /\ st'[u] = st[u]
    BY <1>1, <1>4 DEF Release, Goto, TypeOK
  <2> QED
    BY <2>1 DEF AllFollow, WorkFollows, Working, AtWork
<1>5. CASE JournalOpened(t)
  <2>1. PICK p : Goto(t, p) /\ UNCHANGED st /\ pc[t] \in Working
    BY <1>5 DEF JournalOpened, Working, AtWork
  <2> QED
    BY <1>1, <2>1, GotoFollows
<1>6. CASE JournalClosed(t) \/ JournalEnded(t) \/ CallFails(t) \/ CloseFails(t)
  <2>1. PICK p : Goto(t, p) /\ UNCHANGED st /\ p \in {"exit", "op_write"}
    BY <1>6 DEF JournalClosed, JournalEnded, CallFails, CloseFails
  <2> QED
    BY <1>1, <2>1, GotoFollows DEF Working, AtWork
<1>7. CASE CloseConfirmed(t)
  <2>1. pc[t] = "close" /\ \E c : SaveThen(t, WithoutPosition(st[t]), c)
    BY <1>7 DEF CloseConfirmed
  <2>2. pc[t] \in AtWork /\ st[t] \in States /\ st[t].pending_entry_recovery = None
    BY <2>1, CloseFacts
  <2>3. Follows(st[t], WithoutPosition(st[t]), abi')
    BY <2>2, DroppedFollows
  <2> QED
    BY <1>1, <2>1, <2>2, <2>3, SaveFollows
<1> QED
  BY <1>2, <1>3, <1>4, <1>5, <1>6, <1>7 DEF Handler

(* The bar's steps with a position. *)
LEMMA BarManagesFollows ==
  ASSUME InductiveInvariant, CycleInv,
         \/ BarFindsClosure \/ BarFindsPosition \/ BarFindsFlat \/ BarManage
         \/ RemainderCancelled \/ RemainderFails
         \/ \E close_signal \in BOOLEAN, protection \in Protections :
              EngineOpenTrade(close_signal, protection)
  PROVE  AllFollow
<1> DEFINE s == st["bar"]
           id == ctx["bar"].source
<1>1. /\ TypeOK /\ "bar" \in Threads
      /\ pc["bar"] \in {"lookup", "manage", "remainder", "engine_open"}
  BY DEF InductiveInvariant, Threads, BarFindsClosure, BarFindsPosition, BarFindsFlat,
         BarManage, RemainderCancelled, RemainderFails, EngineOpenTrade
<1>2. /\ pc["bar"] \in AtWork /\ s \in States /\ s.current_trade_cycle # None
      /\ s.pending_entry_recovery = None /\ id \in TradeCycleIds
  BY <1>1, LookupFacts
<1>3. \/ \E p : Goto("bar", p) /\ UNCHANGED st
      \/ \E new, c : /\ SaveThen("bar", new, c)
                    /\ \/ new = WithoutPosition(s)
                       \/ new = MarkClose(s)
                       \/ new = WithRemainderCancelled(s)
                       \/ new = apply_first_fill(s, abi[id].fill) /\ PositionOpen(id)
  <2>1. CASE BarFindsClosure \/ BarFindsPosition \/ BarFindsFlat \/ BarManage
    BY <2>1 DEF BarFindsClosure, BarFindsPosition, BarFindsFlat, BarManage
  <2>2. CASE RemainderCancelled \/ RemainderFails
    BY <2>2 DEF RemainderCancelled, RemainderFails
  <2>3. CASE \E close_signal \in BOOLEAN, protection \in Protections :
               EngineOpenTrade(close_signal, protection)
    BY <2>3 DEF EngineOpenTrade
  <2> QED
    BY <2>1, <2>2, <2>3
<1>4. CASE \E p : Goto("bar", p) /\ UNCHANGED st
  BY <1>1, <1>2, <1>4, GotoFollows DEF Working
<1>5. ASSUME NEW new, NEW c, SaveThen("bar", new, c),
             \/ new = WithoutPosition(s)
             \/ new = MarkClose(s)
             \/ new = WithRemainderCancelled(s)
             \/ new = apply_first_fill(s, abi[id].fill) /\ PositionOpen(id)
      PROVE  AllFollow
  <2>1. new = MarkClose(s) => new.current_trade_cycle = s.current_trade_cycle
    BY <1>2 DEF MarkClose, States
  <2>2. PositionOpen(id) => abi[id].fill \in Nat
    BY <1>2, FillIsABar DEF PositionOpen, Filled
  <2>3. Follows(s, new, abi')
    BY <1>2, <1>5, <2>1, <2>2, DroppedFollows, SameCycleFollows
  <2> QED
    BY <1>1, <1>2, <1>5, <2>3, SaveFollows
<1> QED
  BY <1>3, <1>4, <1>5

(* Engine's live-entry answer. *)
LEMMA EngineLiveEntryFollows ==
  ASSUME InductiveInvariant, CycleInv, NEW desired, EngineLiveEntry(desired)
  PROVE  AllFollow
<1> DEFINE s == st["bar"]
           cycle == s.current_trade_cycle
           decision == EntryDecision(desired, cycle, ctx["bar"].bar)
<1>1. /\ TypeOK /\ "bar" \in Threads /\ pc["bar"] = "engine_entry" /\ pc["bar"] \in AtWork
      /\ UNCHANGED abi
  BY DEF EngineLiveEntry, Threads, AtWork, InductiveInvariant
<1>2. s \in States /\ PointOK("bar", "engine_entry", s, ctx["bar"], abi, late)
  BY <1>1, WorkFacts
<1>3. ~HasMarker(s)
  BY <1>2 DEF PointOK
<1>4. CASE Goto("bar", "exit") /\ UNCHANGED <<st, then, ctx>>
  BY <1>1, <1>4, GotoFollows DEF Working
<1>5. CASE /\ decision = "apply"
           /\ \E id \in TradeCycleIds : Fresh(id) /\ SaveThen("bar", MarkEntry(s, id), "create")
  <2>1. PICK id \in TradeCycleIds : Fresh(id) /\ SaveThen("bar", MarkEntry(s, id), "create")
    BY <1>5
  <2> DEFINE new == MarkEntry(s, id)
  <2>2. cycle = None
    BY <1>5, DecisionFacts
  <2>3. /\ new.pending_entry_recovery = id /\ new.current_trade_cycle = None
    BY <1>2, <1>3, <2>2, MarkEntryFacts
  <2> HIDE DEF new
  <2>4. Follows(s, new, abi')
    BY <1>1, <1>2, <2>1, <2>3, MarkedFollows DEF Fresh
  <2> QED
    BY <1>1, <2>1, <2>4, SaveFollows DEF new
<1>6. CASE /\ decision \in {"cancel", "replace"}
           /\ SaveThen("bar", MarkEntry(s, cycle.trade_cycle_id), "cancel")
  <2> DEFINE new == MarkEntry(s, cycle.trade_cycle_id)
  <2>1. cycle # None
    BY <1>6, DecisionFacts
  <2>2. cycle.trade_cycle_id \in TradeCycleIds
    BY <1>2, <2>1 DEF States, Cycles
  <2>3. new.current_trade_cycle = cycle
    BY <1>2, <1>3, <2>2, MarkEntryFacts
  <2> HIDE DEF new
  <2>4. Follows(s, new, abi')
    BY <1>2, <2>1, <2>3, SameCycleFollows
  <2> QED
    BY <1>1, <1>6, <2>4, SaveFollows DEF new
<1> QED
  BY <1>4, <1>5, <1>6 DEF EngineLiveEntry

(* The commands of the entry path. *)
LEMMA EntryFollows ==
  ASSUME InductiveInvariant, CycleInv,
         \/ CreateApplied \/ CreateDeclined \/ EntryNotReady \/ CreateFails
         \/ CancelConfirmed \/ CancelFails
  PROVE  AllFollow
<1> DEFINE s == st["bar"]
           id == s.pending_entry_recovery
<1>1. /\ TypeOK /\ "bar" \in Threads /\ pc["bar"] \in {"create", "cancel"}
      /\ pc["bar"] \in AtWork
  BY DEF InductiveInvariant, Threads, AtWork, CreateApplied, CreateDeclined, EntryNotReady,
         CreateFails, CancelConfirmed, CancelFails
<1>2. s \in States
  BY <1>1, WorkFacts
<1>3. CASE CreateApplied
  <2> DEFINE entry == ctx["bar"].desired
             new == WithCycle(s, id, entry)
  <2>1. /\ pc["bar"] = "create" /\ abi' = Place(id, entry)
        /\ SaveThen("bar", new, EntryContinuation)
    BY <1>3 DEF CreateApplied
  <2>2. /\ entry \in DesiredEntries /\ s.current_trade_cycle = None /\ id \in TradeCycleIds
        /\ abi[id].status = "none" /\ abi \in [TradeCycleIds -> AbiCycles]
    BY <2>1, CreateKnows
  <2>3. abi'[id].status = "live" /\ abi'[id].entry = entry
    BY <2>1, <2>2 DEF Place, AbiCycles
  <2>4. Follows(s, new, abi')
    BY <1>2, <2>2, <2>3, AdoptedFollows
  <2> HIDE DEF new
  <2> QED
    BY <1>1, <2>1, <2>4, SaveFollows
<1>4. CASE CreateDeclined \/ EntryNotReady
  <2>1. \E c : SaveThen("bar", ClearEntryMarker(s), c)
    BY <1>4 DEF CreateDeclined, EntryNotReady
  <2>2. Follows(s, ClearEntryMarker(s), abi')
    BY <1>2, ClearedFollows
  <2> QED
    BY <1>1, <2>1, <2>2, SaveFollows
<1>5. CASE CreateFails \/ CancelFails
  <2>1. Goto("bar", "exit") /\ UNCHANGED st
    BY <1>5 DEF CreateFails, CancelFails
  <2> QED
    BY <1>1, <2>1, GotoFollows DEF Working
<1>6. CASE CancelConfirmed
  <2> DEFINE absent == WithoutEntry(s)
  <2>1. pc["bar"] = "cancel" /\ abi' = Cancelled(id)
    BY <1>6 DEF CancelConfirmed
  <2>2. CASE \E c : SaveThen("bar", absent, c)
    <3>1. Follows(s, absent, abi')
      BY <1>2, DroppedFollows
    <3> QED
      BY <1>1, <2>2, <3>1, SaveFollows
  <2>3. CASE \E n \in TradeCycleIds \ {id} :
               Fresh(n) /\ SaveThen("bar", MarkEntry(absent, n), "create")
    <3>1. PICK n \in TradeCycleIds \ {id} :
            Fresh(n) /\ SaveThen("bar", MarkEntry(absent, n), "create")
      BY <2>3
    <3> DEFINE new == MarkEntry(absent, n)
    <3>2. new.current_trade_cycle = None /\ new.pending_entry_recovery = n
      BY <1>2 DEF MarkEntry, WithoutEntry, States
    <3>3. abi'[n].status = "none"
      BY <1>1, <2>1, <3>1 DEF Cancelled, Fresh, TypeOK
    <3> HIDE DEF new
    <3>4. Follows(s, new, abi')
      BY <1>2, <3>2, <3>3, MarkedFollows
    <3> QED
      BY <1>1, <3>1, <3>4, SaveFollows DEF new
  <2> QED
    BY <1>6, <2>2, <2>3 DEF CancelConfirmed
<1> QED
  BY <1>3, <1>4, <1>5, <1>6

(* The bar, but for a confirmed protection. *)
LEMMA BarFollows ==
  ASSUME InductiveInvariant, CycleInv, Bar, ~ProtectionApplied
  PROVE  AllFollow
<1>1. TypeOK /\ "bar" \in Threads
  BY DEF InductiveInvariant, Threads
<1>2. CASE BarRefused \/ \E bar \in Bars : BarSelect(bar)
  <2>1. PICK p \in {"idle", "selected"} : Goto("bar", p) /\ UNCHANGED st
    BY <1>2 DEF BarRefused, BarSelect
  <2> QED
    BY <1>1, <2>1, GotoFollows DEF Working, AtWork
<1>3. CASE BarBegin
  <2>1. \E p : Goto("bar", p) /\ owner = None /\ st' = [st EXCEPT !["bar"] = store]
    BY <1>3 DEF BarBegin, Acquire, Lock
  <2> QED
    BY <1>1, <2>1, ReadFollows
<1> QED
  BY <1>2, <1>3, BarManagesFollows, EngineLiveEntryFollows, EntryFollows DEF Bar

(* The webhook. *)
LEMMA FillCallbackFollows ==
  ASSUME InductiveInvariant, CycleInv, NEW id \in TradeCycleIds, FillCallback(id)
  PROVE  AllFollow
<1> DEFINE new == apply_first_fill(store, abi[id].fill)
<1>1. /\ TypeOK /\ "fill" \in Threads /\ owner = None /\ abi[id].fill # None
      /\ store \in States /\ store.current_trade_cycle # None
      /\ SaveThen("fill", new, "exit")
  BY DEF FillCallback, Acquire, Lock, Threads, InductiveInvariant, TypeOK, CanFreeze
<1>2. abi[id].fill \in Nat
  BY <1>1, FillIsABar
<1>3. Follows(store, new, abi')
  BY <1>1, <1>2, SameCycleFollows
<1> HIDE DEF new
<1>4. /\ st'["fill"] = new
      /\ \A u \in Threads \ {"fill"} : pc'[u] = pc[u] /\ st'[u] = st[u]
  BY <1>1 DEF SaveThen, Goto, TypeOK
<1> QED
  BY <1>1, <1>3, <1>4 DEF AllFollow, WorkFollows

(* The resolver. *)
LEMMA ResolverFollows ==
  ASSUME InductiveInvariant, CycleInv, Resolver
  PROVE  AllFollow
<1> DEFINE s == st["resolver"]
           id == ctx["resolver"].source
<1>1. TypeOK /\ "resolver" \in Threads
  BY DEF InductiveInvariant, Threads
<1>2. CASE ResolverBegin
  <2>1. \E p : Goto("resolver", p) /\ owner = None /\ st' = [st EXCEPT !["resolver"] = store]
    BY <1>2 DEF ResolverBegin, Acquire, Lock
  <2> QED
    BY <1>1, <2>1, ReadFollows
<1>3. CASE ResolverFindsNothing \/ NeutralizeFails
  <2>1. /\ pc["resolver"] \in Working
        /\ \E p : Goto("resolver", p) /\ UNCHANGED st
    BY <1>3 DEF ResolverFindsNothing, NeutralizeFails, Working, AtWork
  <2> QED
    BY <1>1, <2>1, GotoFollows
<1>4. CASE ResolverFindsTerminal \/ NeutralizeAbsent
  <2>1. /\ pc["resolver"] \in {"query", "neutralize"}
        /\ \E c : SaveThen("resolver", WithoutEntry(s), c)
    BY <1>4 DEF ResolverFindsTerminal, NeutralizeAbsent
  <2>2. pc["resolver"] \in AtWork /\ s \in States
    BY <2>1, QueryKnows
  <2>3. Follows(s, WithoutEntry(s), abi')
    BY <2>2, DroppedFollows
  <2> QED
    BY <1>1, <2>1, <2>2, <2>3, SaveFollows
<1>5. CASE ResolverFindsLive \/ ResolverFindsPosition
  <2> DEFINE entry == abi[id].entry
             adopted == WithCycle(s, id, entry)
  <2>1. /\ pc["resolver"] = "query" /\ UNCHANGED abi
        /\ abi[id].status \in {"live", "partial", "open"}
        /\ ResolverFindsPosition => abi[id].status \in Filled
    BY <1>5 DEF ResolverFindsLive, ResolverFindsPosition, PositionOpen, Filled
  <2>2. /\ pc["resolver"] \in AtWork /\ s \in States /\ id \in TradeCycleIds
        /\ s.pending_entry_recovery = id /\ abi \in [TradeCycleIds -> AbiCycles]
    BY <2>1, QueryKnows
  <2>3. entry \in DesiredEntries
    BY <2>1, <2>2 DEF AbiCycles, InductiveInvariant, ExchangeOK
  <2>4. \/ \E p : Goto("resolver", p) /\ UNCHANGED st
        \/ \E c : SaveThen("resolver", ClearEntryMarker(s), c)
        \/ s.current_trade_cycle = None /\ \E c : SaveThen("resolver", adopted, c)
        \/ /\ s.current_trade_cycle = None /\ ResolverFindsPosition
           /\ \E c : SaveThen("resolver", apply_first_fill(adopted, abi[id].fill), c)
    BY <1>5 DEF ResolverFindsLive, ResolverFindsPosition
  <2>5. CASE \E p : Goto("resolver", p) /\ UNCHANGED st
    BY <1>1, <2>2, <2>5, GotoFollows DEF Working
  <2>6. CASE \E c : SaveThen("resolver", ClearEntryMarker(s), c)
    <3>1. Follows(s, ClearEntryMarker(s), abi')
      BY <2>2, ClearedFollows
    <3> QED
      BY <1>1, <2>2, <2>6, <3>1, SaveFollows
  <2>7. CASE s.current_trade_cycle = None /\ \E c : SaveThen("resolver", adopted, c)
    <3>1. Follows(s, adopted, abi')
      BY <2>1, <2>2, <2>3, <2>7, AdoptedFollows
    <3> HIDE DEF adopted
    <3> QED
      BY <1>1, <2>2, <2>7, <3>1, SaveFollows
  <2>8. CASE /\ s.current_trade_cycle = None /\ ResolverFindsPosition
             /\ \E c : SaveThen("resolver", apply_first_fill(adopted, abi[id].fill), c)
    <3> DEFINE new == apply_first_fill(adopted, abi[id].fill)
    <3>1. abi[id].fill \in Nat
      BY <2>1, <2>2, <2>8, FillIsABar
    <3>2. Follows(s, new, abi')
      BY <2>1, <2>2, <2>3, <2>8, <3>1, AdoptedFollows
    <3> HIDE DEF new
    <3> QED
      BY <1>1, <2>2, <2>8, <3>2, SaveFollows DEF new
  <2> QED
    BY <2>4, <2>5, <2>6, <2>7, <2>8
<1> QED
  BY <1>2, <1>3, <1>4, <1>5 DEF Resolver

(* The operator. *)
LEMMA OperatorFollows ==
  ASSUME InductiveInvariant, CycleInv, Operator
  PROVE  AllFollow
<1> DEFINE s == st["operator"]
           id == ctx["operator"].source
<1>1. TypeOK /\ "operator" \in Threads
  BY DEF InductiveInvariant, Threads
<1>2. CASE OperatorEnables \/ OperatorWrites
  <2>1. PICK p \in {"op_write", "exit"} : Goto("operator", p) /\ UNCHANGED st
    BY <1>2 DEF OperatorEnables, OperatorWrites
  <2> QED
    BY <1>1, <2>1, GotoFollows DEF Working, AtWork
<1>3. CASE \E command \in {"disable", "cancel_orders", "delete", "close"} : OperatorBegin(command)
  <2>1. \E p : Goto("operator", p) /\ owner = None /\ st' = [st EXCEPT !["operator"] = store]
    BY <1>3 DEF OperatorBegin, Acquire, Lock
  <2> QED
    BY <1>1, <2>1, ReadFollows
<1>4. CASE \/ OperatorFindsFlat \/ OperatorFindsPosition
           \/ OperatorCancelled \/ OperatorCancelFails \/ OperatorDisables
  <2>1. pc["operator"] \in {"op_lookup", "op_cancel", "op_disable"}
    BY <1>4 DEF OperatorFindsFlat, OperatorFindsPosition, OperatorCancelled,
                OperatorCancelFails, OperatorDisables
  <2>2. /\ pc["operator"] \in AtWork /\ s \in States /\ s.current_trade_cycle # None
        /\ s.pending_entry_recovery = None /\ id \in TradeCycleIds
    BY <1>1, <2>1, LookupFacts
  <2>3. \/ \E p : Goto("operator", p) /\ UNCHANGED st
        \/ \E new, c : /\ SaveThen("operator", new, c)
                      /\ \/ new = WithoutCycle(s)
                         \/ new = MarkClose(s)
                         \/ new = apply_first_fill(s, abi[id].fill) /\ PositionOpen(id)
    BY <1>4 DEF OperatorFindsFlat, OperatorFindsPosition, OperatorCancelled,
                OperatorCancelFails, OperatorDisables
  <2>4. CASE \E p : Goto("operator", p) /\ UNCHANGED st
    BY <1>1, <2>2, <2>4, GotoFollows DEF Working
  <2>5. ASSUME NEW new, NEW c, SaveThen("operator", new, c),
               \/ new = WithoutCycle(s)
               \/ new = MarkClose(s)
               \/ new = apply_first_fill(s, abi[id].fill) /\ PositionOpen(id)
        PROVE  AllFollow
    <3>1. new = MarkClose(s) => new.current_trade_cycle = s.current_trade_cycle
      BY <2>2 DEF MarkClose, States
    <3>2. PositionOpen(id) => abi[id].fill \in Nat
      BY <2>2, FillIsABar DEF PositionOpen, Filled
    <3>3. Follows(s, new, abi')
      BY <2>2, <2>5, <3>1, <3>2, DroppedFollows, SameCycleFollows
    <3> QED
      BY <1>1, <2>2, <2>5, <3>3, SaveFollows
  <2> QED
    BY <2>3, <2>4, <2>5
<1> QED
  BY <1>2, <1>3, <1>4 DEF Operator

(* What every thread holds after a step follows from what it or the store  *)
(* held before, but for a confirmed protection.                            *)
LEMMA StepFollows ==
  ASSUME InductiveInvariant, CycleInv, [Next]_vars, ~ProtectionApplied
  PROVE  AllFollow
<1>1. CASE Exchange \/ StorePoisoned \/ UNCHANGED vars
  <2>1. UNCHANGED <<pc, st>>
    BY <1>1 DEF Exchange, Fill, FillRest, EntryDies, PositionEnds, LateArrives, LateLost, Tick,
                StorePoisoned, runtime, local, vars
  <2> QED
    BY <2>1 DEF AllFollow, WorkFollows
<1>2. CASE Crash
  BY <1>2 DEF Crash, AllFollow, Working, AtWork
<1> QED
  BY <1>1, <1>2, HandlerFollows, BarFollows, FillCallbackFollows, ResolverFollows,
     OperatorFollows DEF Next

-----------------------------------------------------------------------------
(* The bar between the command and its record. *)

(* A step of no bar and no crash leaves the bar where it is, and writes    *)
(* the store only for another thread.                                      *)
LEMMA BarStays ==
  ASSUME InductiveInvariant, [Next]_vars, ~Bar, ~Handler("bar"), ~Crash
  PROVE  /\ pc'["bar"] = pc["bar"] /\ st'["bar"] = st["bar"]
         /\ then'["bar"] = then["bar"] /\ ctx'["bar"] = ctx["bar"]
         /\ UNCHANGED store \/ \E t \in Threads \ {"bar"} : pc[t] = "save"
<1> DEFINE Stays == /\ pc'["bar"] = pc["bar"] /\ st'["bar"] = st["bar"]
                    /\ then'["bar"] = then["bar"] /\ ctx'["bar"] = ctx["bar"]
                    /\ UNCHANGED store \/ \E t \in Threads \ {"bar"} : pc[t] = "save"
<1>1. TypeOK
  BY DEF InductiveInvariant
<1>2. ASSUME NEW t \in Threads \ {"bar"}, Handler(t) PROVE Stays
  BY <1>1, <1>2 DEF TypeOK, Threads, Handler, Save, SaveFails, Release, JournalOpened,
     JournalClosed, JournalEnded, CallFails, CloseConfirmed, CloseFails, SaveThen, Goto
<1>3. CASE Resolver \/ \E id \in TradeCycleIds : FillCallback(id)
  BY <1>1, <1>3 DEF TypeOK, Threads, FillCallback, Resolver, ResolverBegin, ResolverFindsLive,
     ResolverFindsPosition, ResolverFindsTerminal, ResolverFindsNothing, NeutralizeAbsent,
     NeutralizeFails, SaveThen, Goto
<1>4. CASE Operator
  BY <1>1, <1>4 DEF TypeOK, Threads, Operator, OperatorEnables, OperatorBegin,
     OperatorFindsFlat, OperatorFindsPosition, OperatorCancelled, OperatorCancelFails,
     OperatorWrites, OperatorDisables, SaveThen, Goto
<1>5. CASE Exchange \/ StorePoisoned \/ UNCHANGED vars
  BY <1>5 DEF Exchange, Fill, FillRest, EntryDies, PositionEnds, LateArrives, LateLost, Tick,
              StorePoisoned, runtime, local, vars
<1> QED
  BY <1>2, <1>3, <1>4, <1>5 DEF Next

(* A step of the bar, but for a confirmed protection, starts where none is *)
(* under way and ends with none or at the command.                         *)
LEMMA BarSetsOut ==
  ASSUME TypeOK, Bar, ~ProtectionApplied
  PROVE  /\ pc["bar"] \notin {"protect", "save", "exit"}
         /\ \/ ctx'["bar"].protection \in {ctx["bar"].protection, None}
            \/ pc'["bar"] = "protect"
<1>1. "bar" \in Threads /\ ctx \in [Threads -> Contexts] /\ pc \in [Threads -> Points]
  BY DEF TypeOK, Threads
<1>2. CASE \E bar \in Bars : BarSelect(bar)
  BY <1>1, <1>2 DEF BarSelect, Contexts
<1>3. CASE BarRefused \/ BarBegin
  BY <1>1, <1>3 DEF BarRefused, BarBegin, Contexts, NoContext
<1>4. CASE \/ BarFindsClosure \/ BarFindsPosition \/ BarFindsFlat \/ BarManage
           \/ RemainderCancelled \/ RemainderFails
  BY <1>4 DEF BarFindsClosure, BarFindsPosition, BarFindsFlat, BarManage, RemainderCancelled,
              RemainderFails
<1>5. CASE \E close_signal \in BOOLEAN, protection \in Protections :
             EngineOpenTrade(close_signal, protection)
  BY <1>1, <1>5 DEF EngineOpenTrade, Goto
<1>6. ASSUME NEW desired, EngineLiveEntry(desired)
      PROVE  pc["bar"] = "engine_entry" /\ ctx'["bar"].protection = ctx["bar"].protection
  BY <1>1, <1>6 DEF EngineLiveEntry, Contexts
<1>7. CASE \/ CreateApplied \/ CreateDeclined \/ EntryNotReady \/ CreateFails
           \/ CancelConfirmed \/ CancelFails
  BY <1>7 DEF CreateApplied, CreateDeclined, EntryNotReady, CreateFails, CancelConfirmed,
              CancelFails
<1> QED
  BY <1>2, <1>3, <1>4, <1>5, <1>6, <1>7 DEF Bar

(* A protection is in the bar's hands only from its command to its record, *)
(* and while it is to be recorded the bar and the store stay; then it is   *)
(* stored, or the record is lost.                                          *)
LEMMA RecordingStep ==
  ASSUME InductiveInvariant, LevelsInv, [Next]_vars, ~ProtectionApplied
  PROVE  /\ ctx'["bar"].protection # None => pc'["bar"] \in {"protect", "save", "exit"}
         /\ Recording' =>
              /\ Recording /\ UNCHANGED store
              /\ then'["bar"] = then["bar"] /\ ctx'["bar"] = ctx["bar"]
         /\ Recording /\ ~Recording' => store' = st["bar"] \/ LosesRecord
<1> DEFINE held == ctx["bar"].protection
<1>1. /\ TypeOK /\ "bar" \in Threads /\ MutexOK
      /\ pc \in [Threads -> Points] /\ ctx \in [Threads -> Contexts]
  BY DEF InductiveInvariant, TypeOK, Threads
<1>2. /\ held # None => pc["bar"] \in {"protect", "save", "exit"}
      /\ Recording => then["bar"] = "exit"
  BY DEF LevelsInv
<1>3. CASE Bar
  BY <1>1, <1>2, <1>3, BarSetsOut DEF Recording
<1>4. CASE Handler("bar")
  <2>1. CASE Save("bar")
    BY <1>1, <1>2, <2>1 DEF Save, Goto, Recording
  <2>2. CASE SaveFails("bar")
    BY <1>1, <1>2, <2>2 DEF SaveFails, Goto, Recording, LosesRecord
  <2>3. CASE Release("bar")
    BY <1>1, <2>3 DEF Release, NoContext, Recording
  <2>4. CASE \/ JournalOpened("bar") \/ JournalClosed("bar") \/ JournalEnded("bar")
             \/ CloseConfirmed("bar") \/ CloseFails("bar")
    BY <1>2, <2>4 DEF JournalOpened, JournalClosed, JournalEnded, CloseConfirmed, CloseFails,
                      Recording
  <2>5. CASE CallFails("bar")
    BY <1>1, <2>5 DEF CallFails, Goto, Recording
  <2> QED
    BY <1>4, <2>1, <2>2, <2>3, <2>4, <2>5 DEF Handler
<1>5. CASE Crash
  BY <1>1, <1>5 DEF Crash, NoContext, Recording, LosesRecord
<1>6. CASE ~Bar /\ ~Handler("bar") /\ ~Crash
  <2>1. /\ pc'["bar"] = pc["bar"] /\ then'["bar"] = then["bar"] /\ ctx'["bar"] = ctx["bar"]
        /\ UNCHANGED store \/ \E t \in Threads \ {"bar"} : pc[t] = "save"
    BY <1>6, BarStays
  <2>2. Recording => UNCHANGED store
    BY <1>1, <2>1 DEF Recording, MutexOK
  <2> QED
    BY <1>2, <2>1, <2>2 DEF Recording
<1> QED
  BY <1>3, <1>4, <1>5, <1>6

-----------------------------------------------------------------------------
(* The invariant is inductive. *)

(* A step without a confirmed protection, whatever becomes of the commands *)
(* in doubt.                                                               *)
LEMMA LevelsStep ==
  ASSUME InductiveInvariant, CycleInv, LevelsInv, [Next]_vars, ~ProtectionApplied,
         LevelsMove(abi, abi', levels, levels', unanswered, unanswered'),
         levels' \in [TradeCycleIds -> Protections \cup {None}],
         straying' \subseteq [id : unanswered', protection : Protections \cup {None}],
         LosesRecord => ctx["bar"].source \in unanswered'
  PROVE  LevelsInv'
<1> DEFINE Now(s) == InForce(s, abi, levels, unanswered)
           Then(s) == InForce(s, abi', levels', unanswered')
<1>1. /\ store \in States /\ abi \in [TradeCycleIds -> AbiCycles] /\ Matches(store, abi)
      /\ "bar" \in Threads
      /\ \A t \in Threads : st[t] \in States /\ Matches(st[t], abi)
  BY DEF InductiveInvariant, TypeOK, CycleInv, ThreadFacts, Threads
<1>2. \A t \in Threads : st'[t] \in States
  BY StepInvariant DEF InductiveInvariant, TypeOK
<1>3. /\ ctx'["bar"].protection # None => pc'["bar"] \in {"protect", "save", "exit"}
      /\ Recording' =>
           /\ Recording /\ UNCHANGED store
           /\ then'["bar"] = then["bar"] /\ ctx'["bar"] = ctx["bar"]
      /\ Recording /\ ~Recording' => store' = st["bar"] \/ LosesRecord
  BY RecordingStep
<1>4. /\ ~Recording => Now(store)
      /\ \A t \in Threads : pc[t] \in Working => Now(st[t])
      /\ Recording =>
           /\ then["bar"] = "exit"
           /\ store.current_trade_cycle # None
           /\ store.current_trade_cycle.trade_cycle_id = ctx["bar"].source
  BY DEF LevelsInv
<1>5. /\ Now(store) => Then(store)
      /\ \A t \in Threads : Now(st[t]) => Then(st[t])
  BY <1>1, InForceStays
<1>6. Recording => pc["bar"] = "save" /\ owner = "bar"
  BY <1>1 DEF Recording, InductiveInvariant, MutexOK
<1>7. ~Recording' => Then(store')
  <2>1. UNCHANGED store \/ \E t \in Threads : pc[t] = "save" /\ store' = st[t]
    BY StoreWritten
  <2>2. CASE \E t \in Threads : pc[t] = "save" /\ store' = st[t]
    BY <1>4, <1>5, <2>2 DEF Working
  <2>3. CASE UNCHANGED store /\ ~Recording
    BY <1>4, <1>5, <2>3
  <2>4. CASE UNCHANGED store /\ Recording /\ ~Recording'
    <3>1. CASE store' = st["bar"]
      BY <1>1, <1>6, <2>2, <2>4, <3>1
    <3>2. CASE LosesRecord
      BY <1>4, <2>4, <3>2 DEF InForce
    <3> QED
      BY <1>3, <2>4, <3>1, <3>2
  <2> QED
    BY <2>1, <2>2, <2>3, <2>4
<1>8. ASSUME NEW t \in Threads, pc'[t] \in Working PROVE Then(st'[t])
  <2>1. WorkFollows(t)
    BY <1>8, StepFollows DEF AllFollow
  <2>2. CASE pc[t] \in Working /\ st'[t] = st[t]
    BY <1>4, <1>5, <2>2
  <2>3. owner = None => Now(store)
    BY <1>4, <1>6, ThreadsAssumption, <1>1
  <2>4. CASE st'[t] = store /\ (owner = None \/ (pc[t] = "save" /\ then[t] = "engine_open"))
    <3>1. pc[t] = "save" => owner = t
      BY DEF InductiveInvariant, MutexOK
    <3>2. ~Recording
      BY <1>1, <1>4, <1>6, <2>4, <3>1, ThreadsAssumption
    <3> QED
      BY <1>4, <1>5, <2>4, <3>2
  <2>5. CASE pc[t] \in AtWork /\ Follows(st[t], st'[t], abi')
    BY <1>1, <1>2, <1>4, <2>5, InForceFollows DEF Working
  <2>6. CASE owner = None /\ Follows(store, st'[t], abi')
    BY <1>1, <1>2, <2>3, <2>6, InForceFollows
  <2> QED
    BY <2>1, <2>2, <2>4, <2>5, <2>6 DEF WorkFollows
<1> QED
  BY <1>3, <1>4, <1>7, <1>8 DEF LevelsInv

(* A confirmed protection is in force before it is recorded. *)
LEMMA LevelsConfirmed ==
  ASSUME InductiveInvariant, CycleInv, LevelsInv, PProtectionApplied
  PROVE  LevelsInv'
<1> DEFINE s == st["bar"]
           p == ctx["bar"].protection
           id == ctx["bar"].source
           new == WithProtection(s, p)
<1>1. /\ TypeOK /\ "bar" \in Threads /\ pc["bar"] = "protect" /\ SaveThen("bar", new, "exit")
      /\ UNCHANGED <<store, owner, ctx, abi, straying>>
      /\ levels' = [levels EXCEPT ![id] = p]
      /\ unanswered' = IF \E command \in straying : command.id = id
                       THEN unanswered ELSE unanswered \ {id}
  BY DEF PProtectionApplied, UnderWay, ProtectionApplied, Threads, InductiveInvariant
<1>2. /\ s \in States /\ s.current_trade_cycle # None /\ id \in TradeCycleIds
      /\ s.current_trade_cycle \in Cycles
      /\ s.current_trade_cycle.trade_cycle_id = id /\ ctx["bar"] \in Contexts
      /\ PointFacts("protect", s, ctx["bar"], abi, journal)
  BY <1>1, LookupFacts
<1>3. p \in Protections /\ p # None
  BY <1>2 DEF PointFacts, Contexts
<1>4. owner = "bar" /\ Agrees(s, store)
  BY <1>1, WorkFacts DEF AtWork
<1>5. /\ levels' \in [TradeCycleIds -> Protections \cup {None}] /\ levels'[id] = p
      /\ straying' \subseteq [id : unanswered', protection : Protections \cup {None}]
  BY <1>1, <1>2, <1>3 DEF LevelsInv
<1>6. InForce(new, abi, levels', unanswered')
  <2> DEFINE cycle == [s.current_trade_cycle EXCEPT !.confirmed_protection = p]
  <2>1. new.current_trade_cycle = cycle
    BY <1>2 DEF WithProtection, States
  <2>2. /\ cycle \in Cycles /\ cycle.trade_cycle_id = id /\ cycle.confirmed_protection = p
    BY <1>2, <1>3 DEF Cycles
  <2> HIDE DEF cycle, new
  <2> QED
    BY <1>3, <1>5, <2>1, <2>2, NoneAssumption DEF InForce, Level
<1> HIDE DEF new
<1>7. /\ st'["bar"] = new /\ pc'["bar"] = "save" /\ then'["bar"] = "exit"
      /\ \A u \in Threads \ {"bar"} : pc'[u] = pc[u]
  BY <1>1 DEF SaveThen, Goto, TypeOK
<1>8. \A u \in Threads \ {"bar"} : pc'[u] \notin Working
  BY <1>4, <1>7 DEF InductiveInvariant, MutexOK, Working, AtWork
<1>9. /\ store.current_trade_cycle # None
      /\ store.current_trade_cycle.trade_cycle_id = id
  BY <1>2, <1>4 DEF Agrees
<1> QED
  BY <1>1, <1>3, <1>5, <1>6, <1>7, <1>8, <1>9 DEF LevelsInv, Recording

(* Every step is a step of the strategy instance. *)
LEMMA PStepIsAStep == [PNext]_pvars => [Next]_vars
<1>1. "bar" \in Threads
  BY DEF Threads
<1> QED
  BY <1>1 DEF PNext, pvars, PProtectionApplied, PCommandAbandoned, PNotRecorded, PStrayArrives,
              POther, Next, Handler, Bar

(* Every step keeps the invariant. *)
LEMMA LevelsKept ==
  ASSUME InductiveInvariant, CycleInv, LevelsInv, [PNext]_pvars
  PROVE  LevelsInv'
<1> DEFINE L == Protections \cup {None}
<1>1. /\ "bar" \in Threads /\ pc \in [Threads -> Points] /\ ctx["bar"] \in Contexts
      /\ abi \in [TradeCycleIds -> AbiCycles]
  BY DEF InductiveInvariant, TypeOK, Threads
<1>2. /\ levels \in [TradeCycleIds -> L] /\ straying \subseteq [id : unanswered, protection : L]
  BY DEF LevelsInv
<1>3. [Next]_vars
  BY PStepIsAStep
<1>4. /\ Advances(abi, abi')
      /\ \A id \in TradeCycleIds :
           abi[id].status = "none" /\ abi'[id].status # "none" =>
             abi'[id].status \in {"live", "cancelled"}
  BY <1>3, ExchangeMoves
<1>5. ProtectionApplied => pc["bar"] = "protect" /\ pc'["bar"] = "save"
  BY <1>1 DEF ProtectionApplied, SaveThen, Goto
<1>6. CASE PCommandAbandoned
  <2>1. pc["bar"] = "protect" /\ UNCHANGED abi /\ pc'["bar"] # "save"
    BY <1>1, <1>6 DEF PCommandAbandoned, LeavesCommand, CallFails, Goto, Crash
  <2>2. /\ levels' \in [TradeCycleIds -> L]
        /\ \A id \in TradeCycleIds \ unanswered' : levels'[id] = levels[id]
        /\ unanswered \subseteq unanswered'
        /\ straying' \subseteq [id : unanswered', protection : L]
    BY <1>1, <1>2, <1>6 DEF PCommandAbandoned, UnderWay, Contexts
  <2>3. LevelsMove(abi, abi', levels, levels', unanswered, unanswered')
    BY <1>4, <2>1, <2>2 DEF LevelsMove
  <2>4. ~LosesRecord
    BY <2>1 DEF LosesRecord
  <2> QED
    BY <1>3, <1>5, <2>1, <2>2, <2>3, <2>4, LevelsStep
<1>7. CASE PNotRecorded
  <2>1. /\ pc["bar"] = "save" /\ UNCHANGED <<abi, levels, straying>>
        /\ unanswered' = unanswered \cup {ctx["bar"].source}
    BY <1>7 DEF PNotRecorded, LosesRecord, SaveFails, Crash, UnderWay
  <2>2. LevelsMove(abi, abi', levels, levels', unanswered, unanswered')
    BY <1>4, <2>1 DEF LevelsMove
  <2>3. straying' \subseteq [id : unanswered', protection : L]
    BY <1>2, <2>1
  <2> QED
    BY <1>2, <1>3, <1>5, <2>1, <2>2, <2>3, LevelsStep
<1>8. ASSUME NEW command \in straying, PStrayArrives(command) PROVE LevelsInv'
  <2>1. UNCHANGED <<pc, abi, unanswered>>
    BY <1>8 DEF PStrayArrives, vars
  <2>2. command.id \in unanswered /\ command.protection \in L
    BY <1>2
  <2>3. /\ levels' \in [TradeCycleIds -> L]
        /\ \A id \in TradeCycleIds \ unanswered' : levels'[id] = levels[id]
        /\ straying' \subseteq [id : unanswered', protection : L]
    BY <1>2, <1>8, <2>1, <2>2 DEF PStrayArrives
  <2>4. LevelsMove(abi, abi', levels, levels', unanswered, unanswered')
    BY <1>4, <2>1, <2>3 DEF LevelsMove
  <2>5. ~LosesRecord
    BY <2>1 DEF LosesRecord
  <2> QED
    BY <1>3, <1>5, <2>1, <2>3, <2>4, <2>5, LevelsStep
<1>9. CASE POther
  <2>1. /\ ~LosesRecord /\ UNCHANGED <<straying, unanswered>> /\ ~ProtectionApplied
        /\ levels' = [id \in TradeCycleIds |->
                        IF abi'[id].status = "live" /\ abi[id].status = "none"
                        THEN abi'[id].entry.initial_protection ELSE levels[id]]
    BY <1>5, <1>9 DEF POther, LeavesCommand
  <2>2. LevelsMove(abi, abi', levels, levels', unanswered, unanswered')
    BY <1>4, <2>1 DEF LevelsMove
  <2>3. \A id \in TradeCycleIds :
          abi'[id].status = "live" => abi'[id].entry.initial_protection \in Protections
    BY <1>3, StepInvariant DEF InductiveInvariant, TypeOK, AbiCycles, ExchangeOK, DesiredEntries
  <2>4. levels' \in [TradeCycleIds -> L]
    BY <1>2, <2>1, <2>3
  <2> QED
    BY <1>2, <1>3, <2>1, <2>2, <2>4, LevelsStep
<1>10. CASE UNCHANGED pvars
  <2>1. UNCHANGED <<pc, abi, levels, straying, unanswered>>
    BY <1>10 DEF pvars, vars
  <2>2. LevelsMove(abi, abi', levels, levels', unanswered, unanswered')
    BY <1>4, <2>1 DEF LevelsMove
  <2>3. ~LosesRecord
    BY <2>1 DEF LosesRecord
  <2> QED
    BY <1>2, <1>3, <1>5, <2>1, <2>2, <2>3, LevelsStep
<1> QED
  BY <1>6, <1>7, <1>8, <1>9, <1>10, LevelsConfirmed DEF PNext

(* The instance with its levels is the strategy instance: whatever is      *)
(* proved of Spec holds of PSpec.                                          *)
THEOREM LevelsAddOnly == PSpec => Spec
<1>1. PInit => Init
  BY DEF PInit
<1> QED
  BY <1>1, PStepIsAStep, PTL DEF PSpec, Spec

(* Whatever the store and every handler acknowledge of a cycle is in       *)
(* force, at every step of every interleaving with crashes, failed writes  *)
(* and commands that land late.                                            *)
THEOREM LevelsInvariance == PSpec => []LevelsInv
<1>1. PInit => LevelsInv
  BY ConstantsAssumption DEF PInit, Init, InitialState, NoContext, LevelsInv, InForce,
     Recording, Working, AtWork, Threads
<1>2. InductiveInvariant /\ CycleInv /\ LevelsInv /\ [PNext]_pvars => LevelsInv'
  BY LevelsKept
<1> QED
  BY <1>1, <1>2, LevelsAddOnly, Invariance, CycleInvariance, PTL DEF PSpec

(* The protection the durable state acknowledges is the one in force.      *)
THEOREM ProtectionInForce == PSpec => []AcknowledgedInForce
<1>1. CycleInv /\ LevelsInv => AcknowledgedInForce
  BY DEF CycleInv, Matches, LevelsInv, InForce, Level, Recording, AcknowledgedInForce,
         effective_acknowledged_protection
<1> QED
  BY <1>1, LevelsAddOnly, LevelsInvariance, CycleInvariance, PTL
=============================================================================
