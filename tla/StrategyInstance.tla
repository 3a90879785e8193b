-------------------------- MODULE StrategyInstance --------------------------
(***************************************************************************)
(* One strategy instance: every code path that reads or writes its durable *)
(* state, and the exchange behind the ABI it talks to.                     *)
(*                                                                         *)
(* Four kinds of threads work on the instance: the committed-bar worker    *)
(* ("bar"), the request threads of the first-fill webhook ("fill"), the    *)
(* uncertain-exchange-state resolver ("resolver") and the request threads  *)
(* of the operator routes ("operator").  Each holds the instance's keyed   *)
(* mutex from its first read of the state to its return.  Between two      *)
(* steps of a handler the exchange moves, a request may be lost, answered  *)
(* too late or land after its sender gave up, a physical write may fail,   *)
(* and the process may die and restart.                                    *)
(*                                                                         *)
(* pc[t] is the point a thread has reached; st[t] its local `state`.  At   *)
(* "save" it is about to save st[t] and to continue at then[t]; at "exit"  *)
(* it returns or raises, which releases the mutex.  An instance without a  *)
(* stored state behaves as one with InitialState: get_or_create makes      *)
(* that state, and every other handler returns or refuses on either.       *)
(***************************************************************************)
EXTENDS RuntimeState, FiniteSets

CONSTANT MaxClock     \* bound: the last bar the market reaches

ASSUME MaxClockAssumption == MaxClock \in Nat

VARIABLES
  store,     \* the instance's latest durable record
  poisoned,  \* a physical write failed in this process
  file,      \* the deployment file: "enabled", "disabled" or "absent"
  owner,     \* holder of the keyed mutex, or None
  pc, st, then, ctx,
  abi,       \* per trade cycle, what ABI and the exchange hold of it
  late,      \* CREATE requests whose sender stopped waiting for them
  clock,     \* the bar now in progress; committed bars are below it
  journal    \* per trade cycle, how many records of each kind were written

vars == <<store, poisoned, file, owner, pc, st, then, ctx, abi, late, clock, journal>>
local == <<pc, st, then, ctx>>
runtime == <<store, poisoned, file, owner, pc, st, then, ctx, journal>>

Threads == {"bar", "fill", "resolver", "operator"}

ASSUME ThreadsAssumption == None \notin Threads

(* Bars that may be processed, and the entries Engine may want on one. *)
Bars == 0 .. MaxClock
EntriesOn(bar) == [source_plan_bar : 0 .. bar, initial_protection : Protections]

(***************************************************************************)
(* ctx[t]: the bar being processed, the entry of the second leg of an      *)
(* Apply or Replace, the protection to apply, the unfrozen cycle a bar     *)
(* started from, the operator's command.                                   *)
(***************************************************************************)
Contexts ==
  [bar     : Nat,
   desired : DesiredEntries \cup {None},
   protection : Protections \cup {None},
   source  : TradeCycleIds \cup {None},
   command : {"none", "enable", "disable", "cancel_orders", "delete", "close"}]

NoContext ==
  [bar |-> 0, desired |-> None, protection |-> None, source |-> None, command |-> "none"]

(***************************************************************************)
(* The exchange side of a trade cycle (external).  "none": no CREATE has   *)
(* arrived; "live": the entry order rests; "partial": a position is open   *)
(* and part of the entry still rests; "open": a position, no entry order;  *)
(* "cancelled": ended without a fill; "ended": ended after a fill.         *)
(***************************************************************************)
AbiCycles ==
  [status : {"none", "live", "partial", "open", "cancelled", "ended"},
   entry  : DesiredEntries \cup {None},
   fill   : Nat \cup {None}]

NoAbiCycle == [status |-> "none", entry |-> None, fill |-> None]

PositionOpen(id) == abi[id].status \in {"partial", "open"}
Active(id) == abi[id].status = "live" \/ PositionOpen(id)
Creates == [id : TradeCycleIds, entry : DesiredEntries]

(* Trade cycles that are, or may still become, an order or a position. *)
Exposed ==
  {id \in TradeCycleIds :
     Active(id) \/ (abi[id].status = "none" /\ \E r \in late : r.id = id)}

Kinds == {"opened", "closed", "ended"}

(* A journal counter stops at 2, which is one too many.  An append that     *)
(* fails is logged and changes nothing else; here every append succeeds.    *)
Write(kind, id) ==
  journal' = [journal EXCEPT ![id][kind] = IF @ < 2 THEN @ + 1 ELSE @]

-----------------------------------------------------------------------------
Points ==
  {"idle", "selected", "lookup", "opened", "manage", "remainder", "engine_open",
   "protect", "close", "engine_entry", "create", "cancel", "query", "neutralize",
   "op_lookup", "op_cancel", "op_disable", "op_ended", "op_write",
   "closed", "ended", "save", "exit"}

(* Where a handler may go on after a save. *)
Continuations ==
  {"exit", "opened", "closed", "ended", "op_ended", "op_disable", "engine_open", "create",
   "cancel", "close"}

TypeOK ==
  /\ store \in States
  /\ poisoned \in BOOLEAN
  /\ file \in {"enabled", "disabled", "absent"}
  /\ owner \in Threads \cup {None}
  /\ pc \in [Threads -> Points]
  /\ st \in [Threads -> States]
  /\ then \in [Threads -> Continuations]
  /\ ctx \in [Threads -> Contexts]
  /\ abi \in [TradeCycleIds -> AbiCycles]
  /\ late \in SUBSET Creates
  /\ clock \in Nat
  /\ journal \in [TradeCycleIds -> [Kinds -> 0 .. 2]]

Init ==
  /\ store = InitialState
  /\ poisoned = FALSE
  /\ file = "enabled"
  /\ owner = None
  /\ pc = [t \in Threads |-> "idle"]
  /\ st = [t \in Threads |-> InitialState]
  /\ then = [t \in Threads |-> "exit"]
  /\ ctx = [t \in Threads |-> NoContext]
  /\ abi = [id \in TradeCycleIds |-> NoAbiCycle]
  /\ late = {}
  /\ clock = 0
  /\ journal = [id \in TradeCycleIds |-> [k \in Kinds |-> 0]]

-----------------------------------------------------------------------------
(* Building blocks of the handlers. *)

(* `with hold(id)`. *)
Lock(t) == owner = None /\ owner' = t

(* The mutex and the first read of the state; a poisoned store raises in    *)
(* that read, which changes nothing.                                        *)
Acquire(t) == Lock(t) /\ ~poisoned

Goto(t, point) == pc' = [pc EXCEPT ![t] = point]

(* Compute the next aggregate; the save itself is a step of its own. *)
SaveThen(t, s, continuation) ==
  /\ Goto(t, "save")
  /\ st' = [st EXCEPT ![t] = s]
  /\ then' = [then EXCEPT ![t] = continuation]

(* Append, flush and fsync succeed: the record is durable, then the handler *)
(* goes on.                                                                 *)
Save(t) ==
  /\ pc[t] = "save"
  /\ ~poisoned
  /\ store' = st[t]
  /\ Goto(t, then[t])
  /\ UNCHANGED <<poisoned, file, owner, st, then, ctx, abi, late, clock, journal>>

(***************************************************************************)
(* The physical write fails: the record may or may not be on disk, the     *)
(* store refuses every later call, and the handler raises.  Only the       *)
(* remainder step swallows the exception and goes on with the state it     *)
(* had.                                                                    *)
(***************************************************************************)
SaveFails(t) ==
  /\ pc[t] = "save"
  /\ poisoned' = TRUE
  /\ store' \in IF poisoned THEN {store} ELSE {store, st[t]}
  /\ IF then[t] = "engine_open"
     THEN Goto(t, "engine_open") /\ st' = [st EXCEPT ![t] = store]
     ELSE Goto(t, "exit") /\ UNCHANGED st
  /\ UNCHANGED <<file, owner, then, ctx, abi, late, clock, journal>>

(* The handler returns or raises: the context manager releases the mutex. *)
Release(t) ==
  /\ pc[t] = "exit"
  /\ owner' = None
  /\ Goto(t, "idle")
  /\ st' = [st EXCEPT ![t] = InitialState]
  /\ then' = [then EXCEPT ![t] = "exit"]
  /\ ctx' = [ctx EXCEPT ![t] = NoContext]
  /\ UNCHANGED <<store, poisoned, file, abi, late, clock, journal>>

(***************************************************************************)
(* Journal records follow the save they report.  After "opened" the bar    *)
(* goes on to manage the position and the close command to disable the     *)
(* strategy; the resolver returns.                                         *)
(***************************************************************************)
JournalOpened(t) ==
  /\ pc[t] = "opened"
  /\ Write("opened", st[t].current_trade_cycle.trade_cycle_id)
  /\ Goto(t, [bar |-> "manage", operator |-> "op_disable", resolver |-> "exit",
              fill |-> "exit"][t])
  /\ UNCHANGED <<store, poisoned, file, owner, st, then, ctx, abi, late, clock>>

JournalClosed(t) ==
  /\ pc[t] = "closed"
  /\ Write("closed", ctx[t].source)
  /\ Goto(t, "exit")
  /\ UNCHANGED <<store, poisoned, file, owner, st, then, ctx, abi, late, clock>>

JournalEnded(t) ==
  /\ pc[t] \in {"ended", "op_ended"}
  /\ Write("ended", ctx[t].source)
  /\ Goto(t, IF pc[t] = "op_ended" THEN "op_write" ELSE "exit")
  /\ UNCHANGED <<store, poisoned, file, owner, st, then, ctx, abi, late, clock>>

(* A read-only call, to ABI or to Engine, fails or times out.  The handler *)
(* raises or returns; the same holds for a protection ABI does not confirm *)
(* and for a recovery answer that settles nothing.                         *)
CallFails(t) ==
  /\ pc[t] \in {"lookup", "engine_open", "engine_entry", "protect", "query", "op_lookup"}
  /\ Goto(t, "exit")
  /\ UNCHANGED <<store, poisoned, file, owner, st, then, ctx, abi, late, clock, journal>>

-----------------------------------------------------------------------------
(* The committed-bar worker: StrategyRuntimeOrchestrator.process.          *)

(* CommittedBarOrchestrator loads the catalog and selects the instance     *)
(* before, and outside, the instance's mutex.                              *)
BarSelect(bar) ==
  /\ pc["bar"] = "idle"
  /\ file = "enabled"
  /\ bar < clock
  /\ Goto("bar", "selected")
  /\ ctx' = [ctx EXCEPT !["bar"].bar = bar]
  /\ UNCHANGED <<store, poisoned, file, owner, st, then, abi, late, clock, journal>>

(* get_or_create raises on a poisoned store. *)
BarRefused ==
  /\ pc["bar"] = "selected"
  /\ owner = None
  /\ poisoned
  /\ Goto("bar", "idle")
  /\ ctx' = [ctx EXCEPT !["bar"] = NoContext]
  /\ UNCHANGED <<store, poisoned, file, owner, st, then, abi, late, clock, journal>>

(* A pending marker ends the bar before any call; without a cycle the      *)
(* resolver reports no position and asks ABI nothing.                      *)
BarBegin ==
  /\ pc["bar"] = "selected"
  /\ Acquire("bar")
  /\ st' = [st EXCEPT !["bar"] = store]
  /\ IF HasMarker(store)
     THEN Goto("bar", "exit") /\ UNCHANGED ctx
     ELSE IF store.current_trade_cycle = None
     THEN Goto("bar", "engine_entry") /\ UNCHANGED ctx
     ELSE /\ Goto("bar", "lookup")
          /\ ctx' = [ctx EXCEPT !["bar"].source = store.current_trade_cycle.trade_cycle_id]
  /\ UNCHANGED <<store, poisoned, file, then, abi, late, clock, journal>>

BarFindsClosure ==
  /\ pc["bar"] = "lookup"
  /\ abi[ctx["bar"].source].status = "ended"
  /\ SaveThen("bar", WithoutPosition(st["bar"]), "closed")
  /\ UNCHANGED <<store, poisoned, file, owner, ctx, abi, late, clock, journal>>

(* _ensure_first_fill_frozen *)
BarFindsPosition ==
  LET id   == ctx["bar"].source
      fill == abi[id].fill
  IN
  /\ pc["bar"] = "lookup"
  /\ PositionOpen(id)
  /\ \/ /\ AlreadyFrozen(st["bar"], id, fill)
        /\ Goto("bar", "manage")
        /\ UNCHANGED <<st, then>>
     \/ /\ CanFreeze(st["bar"], id, fill)
        /\ SaveThen("bar", apply_first_fill(st["bar"], fill), "opened")
  /\ UNCHANGED <<store, poisoned, file, owner, ctx, abi, late, clock, journal>>

(* No position: the order rests, was cancelled, or ended without a closure *)
(* ABI can prove.                                                          *)
BarFindsFlat ==
  /\ pc["bar"] = "lookup"
  /\ ~PositionOpen(ctx["bar"].source)
  /\ Goto("bar", "engine_entry")
  /\ UNCHANGED <<store, poisoned, file, owner, st, then, ctx, abi, late, clock, journal>>

BarManage ==
  LET frozen == st["bar"].current_trade_cycle.frozen_entry_context IN
  /\ pc["bar"] = "manage"
  /\ Goto("bar", IF frozen.entry_bar > ctx["bar"].bar THEN "exit"
                 ELSE IF RemainderDue(st["bar"], ctx["bar"].bar) THEN "remainder"
                 ELSE "engine_open")
  /\ UNCHANGED <<store, poisoned, file, owner, st, then, ctx, abi, late, clock, journal>>

(* ABI cancels the remainder, or answers that the entry is already         *)
(* terminal; a failed call never ends the bar.                             *)
RemainderCancelled ==
  LET id == ctx["bar"].source IN
  /\ pc["bar"] = "remainder"
  /\ abi' = [abi EXCEPT ![id].status = IF @ = "partial" THEN "open" ELSE @]
  /\ SaveThen("bar", WithRemainderCancelled(st["bar"]), "engine_open")
  /\ UNCHANGED <<store, poisoned, file, owner, ctx, late, clock, journal>>

(* Faulty variant: a failed call is recorded as a cancelled remainder. *)
RemainderFailsRecorded ==
  /\ pc["bar"] = "remainder"
  /\ SaveThen("bar", WithRemainderCancelled(st["bar"]), "engine_open")
  /\ UNCHANGED <<store, poisoned, file, owner, ctx, abi, late, clock, journal>>

RemainderFails ==
  LET id == ctx["bar"].source IN
  /\ pc["bar"] = "remainder"
  /\ abi' \in {abi, [abi EXCEPT ![id].status = IF @ = "partial" THEN "open" ELSE @]}
  /\ Goto("bar", "engine_open")
  /\ UNCHANGED <<store, poisoned, file, owner, st, then, ctx, late, clock, journal>>

(* Faulty variant: the close command is sent without a durable marker. *)
EngineOpenTradeUnmarked(close_signal, protection) ==
  /\ pc["bar"] = "engine_open"
  /\ close_signal
  /\ Goto("bar", "close")
  /\ st' = [st EXCEPT !["bar"] = MarkClose(st["bar"])]
  /\ UNCHANGED <<store, poisoned, file, owner, then, ctx, abi, late, clock, journal>>

(* Engine's open-trade answer and the position-management decision.  The   *)
(* close marker is saved before the close command is sent.                 *)
EngineOpenTrade(close_signal, protection) ==
  LET decision == decide_position_management(
                    close_signal, protection, st["bar"].current_trade_cycle)
  IN
  /\ pc["bar"] = "engine_open"
  /\ \/ /\ decision = "no_op"
        /\ Goto("bar", "exit")
        /\ UNCHANGED <<st, then, ctx>>
     \/ /\ decision = "apply_protection"
        /\ Goto("bar", "protect")
        /\ ctx' = [ctx EXCEPT !["bar"].protection = protection]
        /\ UNCHANGED <<st, then>>
     \/ /\ decision = "close"
        /\ SaveThen("bar", MarkClose(st["bar"]), "close")
        /\ UNCHANGED ctx
  /\ UNCHANGED <<store, poisoned, file, owner, abi, late, clock, journal>>

ProtectionApplied ==
  /\ pc["bar"] = "protect"
  /\ PositionOpen(ctx["bar"].source)
  /\ SaveThen("bar", WithProtection(st["bar"], ctx["bar"].protection), "exit")
  /\ UNCHANGED <<store, poisoned, file, owner, ctx, abi, late, clock, journal>>

-----------------------------------------------------------------------------
(* Entry reconciliation, still on the bar. *)

(* A fresh uuid: nothing was ever sent under it. *)
Fresh(id) == abi[id].status = "none" /\ \A r \in late : r.id # id

(* The decision raises for a frozen cycle; otherwise the marker of the     *)
(* command is saved before the command is sent.                            *)
EngineLiveEntry(desired) ==
  LET cycle == st["bar"].current_trade_cycle
      decision == EntryDecision(desired, cycle, ctx["bar"].bar)
  IN
  /\ pc["bar"] = "engine_entry"
  /\ cycle # None => cycle.frozen_entry_context = None
  /\ \/ /\ decision = "no_op"
        /\ Goto("bar", "exit")
        /\ UNCHANGED <<st, then, ctx>>
     \/ /\ decision = "apply"
        /\ \E id \in TradeCycleIds :
             Fresh(id) /\ SaveThen("bar", MarkEntry(st["bar"], id), "create")
        /\ ctx' = [ctx EXCEPT !["bar"].desired = desired]
     \/ /\ decision \in {"cancel", "replace"}
        /\ SaveThen("bar", MarkEntry(st["bar"], cycle.trade_cycle_id), "cancel")
        /\ ctx' = [ctx EXCEPT !["bar"].desired =
                     IF decision = "replace" THEN desired ELSE None]
  /\ UNCHANGED <<store, poisoned, file, owner, abi, late, clock, journal>>

(* After the last save of the entry path: the record of an unfilled cycle  *)
(* that is gone.                                                           *)
EntryContinuation == IF ctx["bar"].source = None THEN "exit" ELSE "ended"

Place(id, entry) == [abi EXCEPT ![id] = [@ EXCEPT !.status = "live", !.entry = entry]]

CreateApplied ==
  LET id == st["bar"].pending_entry_recovery IN
  /\ pc["bar"] = "create"
  /\ abi' = Place(id, ctx["bar"].desired)
  /\ SaveThen("bar", WithCycle(st["bar"], id, ctx["bar"].desired), EntryContinuation)
  /\ UNCHANGED <<store, poisoned, file, owner, ctx, late, clock, journal>>

(* An expected refusal before the exchange: no cycle, no recovery.  After  *)
(* the cancel leg of a Replace the caller saves the same state once more.  *)
CreateDeclined ==
  /\ pc["bar"] = "create"
  /\ SaveThen("bar", ClearEntryMarker(st["bar"]), EntryContinuation)
  /\ UNCHANGED <<store, poisoned, file, owner, ctx, abi, late, clock, journal>>

(* ABI was not ready and did nothing: the marker is taken back, the bar    *)
(* raises.                                                                 *)
EntryNotReady ==
  /\ pc["bar"] \in {"create", "cancel"}
  /\ SaveThen("bar", ClearEntryMarker(st["bar"]), "exit")
  /\ UNCHANGED <<store, poisoned, file, owner, ctx, abi, late, clock, journal>>

(* No usable answer: the request was lost, or it was executed, or it is    *)
(* still on its way.  The marker stays.                                    *)
CreateFails ==
  LET id == st["bar"].pending_entry_recovery
      request == [id |-> id, entry |-> ctx["bar"].desired]
  IN
  /\ pc["bar"] = "create"
  /\ \/ UNCHANGED <<abi, late>>
     \/ abi' = Place(id, ctx["bar"].desired) /\ UNCHANGED late
     \/ late' = late \cup {request} /\ UNCHANGED abi
  /\ Goto("bar", "exit")
  /\ UNCHANGED <<store, poisoned, file, owner, st, then, ctx, clock, journal>>

(***************************************************************************)
(* What ABI does with a CANCEL (external).  It answers "absent" only when  *)
(* the cycle has no fill, and from then on executes no CREATE for it.  A   *)
(* CANCEL that lands late is EntryDies.                                    *)
(***************************************************************************)
Cancellable(id) == abi[id].status \in {"none", "live", "cancelled"}
Cancelled(id) == [abi EXCEPT ![id].status = "cancelled"]

(* The confirmed cancel; the second leg of a Replace marks its new         *)
(* identity on the absent state, which that save makes durable.            *)
CancelConfirmed ==
  LET id == st["bar"].pending_entry_recovery
      absent == WithoutEntry(st["bar"])
  IN
  /\ pc["bar"] = "cancel"
  /\ Cancellable(id)
  /\ abi' = Cancelled(id)
  /\ \/ /\ ctx["bar"].desired = None
        /\ SaveThen("bar", absent, "ended")
     \/ /\ ctx["bar"].desired # None
        /\ \E new \in TradeCycleIds \ {id} :
             Fresh(new) /\ SaveThen("bar", MarkEntry(absent, new), "create")
  /\ UNCHANGED <<store, poisoned, file, owner, ctx, late, clock, journal>>

(* Faulty variant: a CANCEL without an answer counts as absence. *)
CancelFailsTrusted ==
  /\ pc["bar"] = "cancel"
  /\ SaveThen("bar", WithoutEntry(st["bar"]), "exit")
  /\ UNCHANGED <<store, poisoned, file, owner, ctx, abi, late, clock, journal>>

CancelFails ==
  LET id == st["bar"].pending_entry_recovery IN
  /\ pc["bar"] = "cancel"
  /\ \/ UNCHANGED abi
     \/ Cancellable(id) /\ abi' = Cancelled(id)
  /\ Goto("bar", "exit")
  /\ UNCHANGED <<store, poisoned, file, owner, st, then, ctx, late, clock, journal>>

-----------------------------------------------------------------------------
(* The close command: the bar, the operator's close and the resolver all   *)
(* send it under a durable close marker.                                   *)

(* ABI confirms the close, or that the cycle had ended.  Its answer may    *)
(* carry no closure, and then nothing is journaled.                        *)
CloseConfirmed(t) ==
  LET id == st[t].pending_close_recovery IN
  /\ pc[t] = "close"
  /\ PositionOpen(id) \/ abi[id].status = "ended"
  /\ abi' = [abi EXCEPT ![id].status = "ended"]
  /\ \E continuation \in {"closed", "exit"} :
       SaveThen(t, WithoutPosition(st[t]), continuation)
  /\ UNCHANGED <<store, poisoned, file, owner, ctx, late, clock, journal>>

(* No usable answer, whether or not the close was executed. *)
CloseFails(t) ==
  LET id == st[t].pending_close_recovery IN
  /\ pc[t] = "close"
  /\ \/ UNCHANGED abi
     \/ PositionOpen(id) /\ abi' = [abi EXCEPT ![id].status = "ended"]
  /\ Goto(t, "exit")
  /\ UNCHANGED <<store, poisoned, file, owner, st, then, ctx, late, clock, journal>>

-----------------------------------------------------------------------------
(* Faulty variant: the event is applied without the instance's mutex. *)
FillCallbackUnlocked(id) ==
  /\ pc["fill"] = "idle"
  /\ abi[id].fill # None
  /\ CanFreeze(store, id, abi[id].fill)
  /\ SaveThen("fill", apply_first_fill(store, abi[id].fill), "exit")
  /\ UNCHANGED <<store, poisoned, file, owner, ctx, abi, late, clock, journal>>

(* The first-fill webhook.  It may come at any time after the fill and any *)
(* number of times; where it freezes nothing it returns or raises with the *)
(* state as it was.                                                        *)
FillCallback(id) ==
  /\ pc["fill"] = "idle"
  /\ Acquire("fill")
  /\ abi[id].fill # None
  /\ CanFreeze(store, id, abi[id].fill)
  /\ SaveThen("fill", apply_first_fill(store, abi[id].fill), "exit")
  /\ UNCHANGED <<store, poisoned, file, ctx, abi, late, clock, journal>>

-----------------------------------------------------------------------------
(* The uncertain-exchange-state resolver: attempt.                         *)

ResolverBegin ==
  LET closing == store.pending_close_recovery # None IN
  /\ pc["resolver"] = "idle"
  /\ Acquire("resolver")
  /\ HasMarker(store)
  /\ st' = [st EXCEPT !["resolver"] = store]
  /\ ctx' = [ctx EXCEPT !["resolver"].source =
               IF closing THEN store.pending_close_recovery
                          ELSE store.pending_entry_recovery]
  /\ Goto("resolver", IF closing THEN "close" ELSE "query")
  /\ UNCHANGED <<store, poisoned, file, then, abi, late, clock, journal>>

(* The recovery answer: the order rests. An uncertain CREATE is adopted, an *)
(* uncertain removal is repeated.                                           *)
ResolverFindsLive ==
  LET id == ctx["resolver"].source IN
  /\ pc["resolver"] = "query"
  /\ abi[id].status = "live"
  /\ IF st["resolver"].current_trade_cycle = None
     THEN SaveThen("resolver", WithCycle(st["resolver"], id, abi[id].entry), "exit")
     ELSE Goto("resolver", "neutralize") /\ UNCHANGED <<st, then>>
  /\ UNCHANGED <<store, poisoned, file, owner, ctx, abi, late, clock, journal>>

(* The recovery answer: a position is open. An uncertain CREATE is adopted  *)
(* and frozen; a removal that lost to the fill is left to the next bar.     *)
ResolverFindsPosition ==
  LET id == ctx["resolver"].source
      adopted == WithCycle(st["resolver"], id, abi[id].entry)
  IN
  /\ pc["resolver"] = "query"
  /\ PositionOpen(id)
  /\ IF st["resolver"].current_trade_cycle = None
     THEN /\ CanFreeze(adopted, id, abi[id].fill)
          /\ SaveThen("resolver", apply_first_fill(adopted, abi[id].fill), "opened")
     ELSE SaveThen("resolver", ClearEntryMarker(st["resolver"]), "exit")
  /\ UNCHANGED <<store, poisoned, file, owner, ctx, abi, late, clock, journal>>

(* Faulty variant: every terminal answer is journaled as an unfilled entry. *)
ResolverFindsTerminalAlwaysEnded ==
  /\ pc["resolver"] = "query"
  /\ abi[ctx["resolver"].source].status \in {"cancelled", "ended"}
  /\ SaveThen("resolver", WithoutEntry(st["resolver"]), "ended")
  /\ UNCHANGED <<store, poisoned, file, owner, ctx, abi, late, clock, journal>>

(* Faulty variant: terminal_after_fill is not handled. *)
ResolverFindsTerminalUnfilledOnly ==
  /\ pc["resolver"] = "query"
  /\ abi[ctx["resolver"].source].status = "cancelled"
  /\ SaveThen("resolver", WithoutEntry(st["resolver"]), "ended")
  /\ UNCHANGED <<store, poisoned, file, owner, ctx, abi, late, clock, journal>>

(* The recovery answer: terminal, without a fill or after one. *)
ResolverFindsTerminal ==
  LET id == ctx["resolver"].source IN
  /\ pc["resolver"] = "query"
  /\ abi[id].status \in {"cancelled", "ended"}
  /\ SaveThen("resolver", WithoutEntry(st["resolver"]),
              IF abi[id].status = "cancelled" THEN "ended" ELSE "exit")
  /\ UNCHANGED <<store, poisoned, file, owner, ctx, abi, late, clock, journal>>

(* Faulty variant: not-found is taken for absence, without a CANCEL. *)
ResolverFindsNothingTrusted ==
  /\ pc["resolver"] = "query"
  /\ abi[ctx["resolver"].source].status = "none"
  /\ st["resolver"].current_trade_cycle = None
  /\ SaveThen("resolver", WithoutEntry(st["resolver"]), "ended")
  /\ UNCHANGED <<store, poisoned, file, owner, ctx, abi, late, clock, journal>>

(* The recovery answer: nothing is known of the identity.  Only for an     *)
(* uncertain CREATE; it is not yet proof of absence.                       *)
ResolverFindsNothing ==
  /\ pc["resolver"] = "query"
  /\ abi[ctx["resolver"].source].status = "none"
  /\ st["resolver"].current_trade_cycle = None
  /\ Goto("resolver", "neutralize")
  /\ UNCHANGED <<store, poisoned, file, owner, st, then, ctx, abi, late, clock, journal>>

(* The corrective CANCEL, of which only the exact "absent" is trusted. *)
NeutralizeAbsent ==
  LET id == ctx["resolver"].source IN
  /\ pc["resolver"] = "neutralize"
  /\ Cancellable(id)
  /\ abi' = Cancelled(id)
  /\ SaveThen("resolver", WithoutEntry(st["resolver"]), "ended")
  /\ UNCHANGED <<store, poisoned, file, owner, ctx, late, clock, journal>>

NeutralizeFails ==
  LET id == ctx["resolver"].source IN
  /\ pc["resolver"] = "neutralize"
  /\ \/ UNCHANGED abi
     \/ Cancellable(id) /\ abi' = Cancelled(id)
  /\ Goto("resolver", "exit")
  /\ UNCHANGED <<store, poisoned, file, owner, st, then, ctx, late, clock, journal>>

-----------------------------------------------------------------------------
(* The operator routes.  They refuse a pending marker and, unlike the bar, *)
(* cancel an entry order without setting one.                              *)

OperatorEnables ==
  /\ pc["operator"] = "idle"
  /\ Lock("operator")
  /\ file = "disabled"
  /\ Goto("operator", "op_write")
  /\ ctx' = [ctx EXCEPT !["operator"].command = "enable"]
  /\ UNCHANGED <<store, poisoned, file, st, then, abi, late, clock, journal>>

Allowed(command) ==
  \/ command = "disable" /\ file = "enabled"
  \/ command = "cancel_orders" /\ file # "absent"
  \/ command = "delete" /\ file = "disabled"
  \/ command = "close" /\ file # "absent" /\ store.current_trade_cycle # None

(* Faulty variant: a pending recovery is not refused. *)
OperatorBeginDuringRecovery(command) ==
  LET cycle == store.current_trade_cycle IN
  /\ pc["operator"] = "idle"
  /\ Acquire("operator")
  /\ Allowed(command)
  /\ cycle # None
  /\ st' = [st EXCEPT !["operator"] = store]
  /\ ctx' = [ctx EXCEPT !["operator"].command = command,
                        !["operator"].source = cycle.trade_cycle_id]
  /\ Goto("operator", "op_lookup")
  /\ UNCHANGED <<store, poisoned, file, then, abi, late, clock, journal>>

OperatorBegin(command) ==
  LET cycle == store.current_trade_cycle IN
  /\ pc["operator"] = "idle"
  /\ Acquire("operator")
  /\ Allowed(command)
  /\ ~HasMarker(store)
  /\ st' = [st EXCEPT !["operator"] = store]
  /\ ctx' = [ctx EXCEPT !["operator"].command = command,
                        !["operator"].source = IF cycle = None THEN None
                                               ELSE cycle.trade_cycle_id]
  /\ Goto("operator", IF cycle = None THEN "op_write" ELSE "op_lookup")
  /\ UNCHANGED <<store, poisoned, file, then, abi, late, clock, journal>>

(* No position and no closure: the cancel step goes on to CANCEL. *)
OperatorFindsFlat ==
  /\ pc["operator"] = "op_lookup"
  /\ ctx["operator"].command # "close"
  /\ ~PositionOpen(ctx["operator"].source)
  /\ Goto("operator", "op_cancel")
  /\ UNCHANGED <<store, poisoned, file, owner, st, then, ctx, abi, late, clock, journal>>

(* _close_locked freezes a fill no bar has seen; the opened record needs    *)
(* the price and the order link, which ABI may leave out.                   *)
OperatorFindsPosition ==
  LET id == ctx["operator"].source
      frozen == st["operator"].current_trade_cycle.frozen_entry_context
  IN
  /\ pc["operator"] = "op_lookup"
  /\ ctx["operator"].command = "close"
  /\ PositionOpen(id)
  /\ \/ /\ frozen # None
        /\ Goto("operator", "op_disable")
        /\ UNCHANGED <<st, then>>
     \/ /\ CanFreeze(st["operator"], id, abi[id].fill)
        /\ \E continuation \in {"opened", "op_disable"} :
             SaveThen("operator", apply_first_fill(st["operator"], abi[id].fill), continuation)
  /\ UNCHANGED <<store, poisoned, file, owner, ctx, abi, late, clock, journal>>

OperatorCancelled ==
  LET id == ctx["operator"].source IN
  /\ pc["operator"] = "op_cancel"
  /\ Cancellable(id)
  /\ abi' = Cancelled(id)
  /\ SaveThen("operator", WithoutCycle(st["operator"]), "op_ended")
  /\ UNCHANGED <<store, poisoned, file, owner, ctx, late, clock, journal>>

OperatorCancelFails ==
  LET id == ctx["operator"].source IN
  /\ pc["operator"] = "op_cancel"
  /\ \/ UNCHANGED abi
     \/ Cancellable(id) /\ abi' = Cancelled(id)
  /\ Goto("operator", "exit")
  /\ UNCHANGED <<store, poisoned, file, owner, st, then, ctx, late, clock, journal>>

FileAfter(command) ==
  CASE command = "enable"                       -> "enabled"
    [] command \in {"disable", "cancel_orders"} -> "disabled"
    [] command = "delete"                       -> "absent"
    [] OTHER                                    -> file

(* The atomic replace or move of the deployment file, or its refusal. *)
OperatorWrites ==
  /\ pc["operator"] = "op_write"
  /\ file' \in {file, FileAfter(ctx["operator"].command)}
  /\ Goto("operator", "exit")
  /\ UNCHANGED <<store, poisoned, owner, st, then, ctx, abi, late, clock, journal>>

(* The close command disables the strategy before it marks the close. *)
OperatorDisables ==
  /\ pc["operator"] = "op_disable"
  /\ \/ /\ file' = "disabled"
        /\ SaveThen("operator", MarkClose(st["operator"]), "close")
     \/ /\ Goto("operator", "exit")
        /\ UNCHANGED <<file, st, then>>
  /\ UNCHANGED <<store, poisoned, owner, ctx, abi, late, clock, journal>>

-----------------------------------------------------------------------------
(* The exchange and the network (external). *)

Fill(id) ==
  /\ abi[id].status = "live"
  /\ \E status \in {"partial", "open"} :
       abi' = [abi EXCEPT ![id] = [@ EXCEPT !.status = status, !.fill = clock]]
  /\ UNCHANGED <<runtime, late, clock>>

FillRest(id) ==
  /\ abi[id].status = "partial"
  /\ abi' = [abi EXCEPT ![id].status = "open"]
  /\ UNCHANGED <<runtime, late, clock>>

EntryDies(id) ==
  /\ abi[id].status = "live"
  /\ abi' = Cancelled(id)
  /\ UNCHANGED <<runtime, late, clock>>

PositionEnds(id) ==
  /\ PositionOpen(id)
  /\ abi' = [abi EXCEPT ![id].status = "ended"]
  /\ UNCHANGED <<runtime, late, clock>>

(* A request nobody waits for any more is executed, or refused or lost. *)
LateArrives(r) ==
  /\ abi[r.id].status = "none"
  /\ abi' = Place(r.id, r.entry)
  /\ late' = late \ {r}
  /\ UNCHANGED <<runtime, clock>>

LateLost(r) ==
  /\ late' = late \ {r}
  /\ UNCHANGED <<runtime, abi, clock>>

Tick ==
  /\ clock < MaxClock
  /\ clock' = clock + 1
  /\ UNCHANGED <<runtime, abi, late>>

(* A write of another instance failed: the store serves all of them. *)
StorePoisoned ==
  /\ ~poisoned
  /\ poisoned' = TRUE
  /\ UNCHANGED <<store, file, owner, local, abi, late, clock, journal>>

(* The process dies and starts again from the replayed store; a CREATE     *)
(* that was being sent may still be under way.                             *)
Crash ==
  /\ poisoned' = FALSE
  /\ owner' = None
  /\ pc' = [t \in Threads |-> "idle"]
  /\ st' = [t \in Threads |-> InitialState]
  /\ then' = [t \in Threads |-> "exit"]
  /\ ctx' = [t \in Threads |-> NoContext]
  /\ \/ UNCHANGED late
     \/ /\ pc["bar"] = "create"
        /\ late' = late \cup {[id |-> st["bar"].pending_entry_recovery,
                               entry |-> ctx["bar"].desired]}
  /\ UNCHANGED <<store, file, abi, clock, journal>>

-----------------------------------------------------------------------------
Handler(t) ==
  Save(t) \/ SaveFails(t) \/ Release(t) \/ JournalOpened(t) \/ JournalClosed(t)
    \/ JournalEnded(t) \/ CallFails(t) \/ CloseConfirmed(t) \/ CloseFails(t)

Bar ==
  \/ \E bar \in Bars : BarSelect(bar)
  \/ BarRefused \/ BarBegin \/ BarFindsClosure \/ BarFindsPosition \/ BarFindsFlat
  \/ BarManage \/ RemainderCancelled \/ RemainderFails
  \/ \E close_signal \in BOOLEAN, protection \in Protections :
       EngineOpenTrade(close_signal, protection)
  \/ ProtectionApplied
  \/ \E desired \in EntriesOn(ctx["bar"].bar) \cup {None} : EngineLiveEntry(desired)
  \/ CreateApplied \/ CreateDeclined \/ EntryNotReady \/ CreateFails
  \/ CancelConfirmed \/ CancelFails

Resolver ==
  \/ ResolverBegin \/ ResolverFindsLive \/ ResolverFindsPosition
  \/ ResolverFindsTerminal \/ ResolverFindsNothing
  \/ NeutralizeAbsent \/ NeutralizeFails

Operator ==
  \/ OperatorEnables
  \/ \E command \in {"disable", "cancel_orders", "delete", "close"} : OperatorBegin(command)
  \/ OperatorFindsFlat \/ OperatorFindsPosition
  \/ OperatorCancelled \/ OperatorCancelFails
  \/ OperatorWrites \/ OperatorDisables

Exchange ==
  \/ \E id \in TradeCycleIds : Fill(id) \/ FillRest(id) \/ EntryDies(id) \/ PositionEnds(id)
  \/ \E r \in late : LateArrives(r) \/ LateLost(r)
  \/ Tick

Next ==
  \/ \E t \in Threads : Handler(t)
  \/ Bar
  \/ \E id \in TradeCycleIds : FillCallback(id)
  \/ Resolver
  \/ Operator
  \/ Exchange
  \/ StorePoisoned
  \/ Crash

Spec == Init /\ [][Next]_vars

(***************************************************************************)
(* Fairness.  Whoever holds the mutex goes on: every wait inside a handler *)
(* has a timeout, so Progress includes the failing answers.  The resolver  *)
(* polls for ever, so it gets the mutex again and again; and an attempt    *)
(* that could succeed again and again sometimes does: ABI does not stay    *)
(* unreachable for ever, and the process does not always die at the same   *)
(* point.  Nothing is assumed of bars, fills, webhooks or operators.       *)
(***************************************************************************)
Progress ==
  \/ \E t \in Threads : Handler(t)
  \/ owner = "bar" /\ Bar
  \/ owner = "resolver" /\ Resolver
  \/ owner = "operator" /\ Operator

Answered ==
  ResolverFindsLive \/ ResolverFindsPosition \/ ResolverFindsTerminal \/ ResolverFindsNothing

Fairness ==
  /\ WF_vars(Progress)
  /\ SF_vars(ResolverBegin)
  /\ SF_vars(Answered)
  /\ SF_vars(NeutralizeAbsent)
  /\ SF_vars(CloseConfirmed("resolver"))
  /\ SF_vars(Save("resolver"))

FairSpec == Spec /\ Fairness

-----------------------------------------------------------------------------
(* Properties. *)

(* Every record the store holds passes StrategyInstanceRuntimeState's      *)
(* __post_init__: a marker names the current cycle and there is never more *)
(* than one.  Were it false, some handler would raise where the model goes *)
(* on, and a replay would refuse the file.                                 *)
StatesWellFormed == WellFormed(store)

(* No order or position is ever left on the exchange, or can still come to *)
(* be there, under a trade cycle that the durable state does not name: not *)
(* after a crash between any two steps, a lost answer, a failed write or a *)
(* CREATE that lands late.                                                 *)
NoOrphan == Exposed \subseteq Tracked(store)

(* A command that changes the exchange is under way only while the durable *)
(* record carries its recovery marker, so that a restart finds it.  The    *)
(* operator's CANCEL is the one command sent without a marker.             *)
MarkedBeforeSent ==
  \A t \in Threads :
    /\ pc[t] \in {"create", "cancel", "neutralize"}
         => store.pending_entry_recovery # None
            /\ store.pending_entry_recovery = st[t].pending_entry_recovery
    /\ pc[t] = "close"
         => store.pending_close_recovery # None
            /\ store.pending_close_recovery = st[t].pending_close_recovery

(* The current cycle is the one the exchange knows by that identity: the   *)
(* same entry, whoever wrote it (the bar or the resolver), and a frozen    *)
(* context exists only for a real fill and carries that fill's bar.        *)
CycleMatchesExchange ==
  LET cycle == store.current_trade_cycle IN
  cycle # None =>
    LET known == abi[cycle.trade_cycle_id] IN
    /\ known.status # "none"
    /\ known.entry = cycle.desired_entry
    /\ cycle.frozen_entry_context # None =>
         /\ known.status \in {"partial", "open", "ended"}
         /\ cycle.frozen_entry_context.entry_bar = known.fill
         /\ cycle.frozen_entry_context.desired_entry = known.entry

(* The trader reads the journal as what happened: at most one record of a  *)
(* kind per cycle whatever is retried or repeated, "ended" only for an     *)
(* entry that never filled, "closed" only for a finished trade, "opened"   *)
(* only for a fill, and never both "ended" and a trade.                    *)
JournalTruthful ==
  \A id \in TradeCycleIds :
    /\ \A kind \in Kinds : journal[id][kind] <= 1
    /\ journal[id]["ended"] > 0 => abi[id].status = "cancelled"
    /\ journal[id]["closed"] > 0 => abi[id].status = "ended"
    /\ journal[id]["opened"] > 0 => abi[id].fill # None

(* What a save may never undo: while a cycle stays the current one, its    *)
(* frozen context, a protection ABI confirmed and the cancelled remainder  *)
(* survive every later save, by whichever thread; and a frozen cycle is    *)
(* dropped only when its position is gone.                                 *)
FactsSurviveSaves ==
  [][LET old == store.current_trade_cycle
         new == store'.current_trade_cycle
     IN (old # None /\ old.frozen_entry_context # None) =>
          IF new # None /\ new.trade_cycle_id = old.trade_cycle_id
          THEN /\ new.frozen_entry_context = old.frozen_entry_context
               /\ old.confirmed_protection # None => new.confirmed_protection # None
               /\ old.entry_remainder_cancelled => new.entry_remainder_cancelled
          ELSE abi[old.trade_cycle_id].status = "ended"]_vars

(* The trader's promise, see TradeLedger. *)
Ledger ==
  INSTANCE TradeLedger
    WITH cycle <- IF store.current_trade_cycle # None
                  THEN store.current_trade_cycle.trade_cycle_id
                  ELSE store.pending_entry_recovery,
         exposed <- Exposed,
         spent <- {id \in TradeCycleIds : abi[id].status # "none"}

(* The strategy instance, with its threads, crashes and failures,          *)
(* implements the ledger.                                                  *)
ImplementsLedger == Ledger!Spec

(* touch_trigger: a bar cancels or replaces a resting order only after     *)
(* OrderLifetimeBars complete bars following the bar after its signal.     *)
LifetimeHonoured ==
  (LiveEntryMode = "touch_trigger" /\ pc["bar"] = "cancel") =>
    ctx["bar"].bar
      > st["bar"].current_trade_cycle.desired_entry.source_plan_bar + OrderLifetimeBars

(* A cycle is marked entry_remainder_cancelled, which stops every further  *)
(* attempt, only when nothing of its entry order rests any more.           *)
RemainderGone ==
  LET cycle == store.current_trade_cycle IN
  (cycle # None /\ cycle.entry_remainder_cancelled)
    => abi[cycle.trade_cycle_id].status \in {"open", "ended"}

(* A recovery marker blocks every bar and every operator command; once     *)
(* writes stop failing it is always resolved in the end.                   *)
MarkerResolved ==
  <>[]~poisoned => (HasMarker(store) ~> ~HasMarker(store))

-----------------------------------------------------------------------------
(* What the repository says and the code does not do. *)

(* "a disabled strategy never keeps an order": the file says disabled,     *)
(* every handler has returned and no recovery is pending.                  *)
DisabledKeepsNoOrder ==
  (file = "disabled" /\ ~HasMarker(store) /\ \A t \in Threads : pc[t] = "idle")
    => \A id \in TradeCycleIds : abi[id].status # "live"

(* "A cycle that did fill is not an unfilled entry: its closure is         *)
(* journaled elsewhere": the resolver returns having dropped a filled      *)
(* cycle, which nothing names any more.                                    *)
FilledCycleReported ==
  LET id == ctx["resolver"].source IN
  (pc["resolver"] = "exit" /\ ~poisoned /\ id \notin Tracked(store)
     /\ abi[id].status = "ended")
    => journal[id]["closed"] > 0

-----------------------------------------------------------------------------
(***************************************************************************)
(* The inductive invariant behind NoOrphan.  Its parts speak of one thread *)
(* or one piece of state and take what they speak of as parameters.        *)
(***************************************************************************)

(* Exposed and Fresh, of a given exchange. *)
ExposedIn(a, l) ==
  {id \in TradeCycleIds :
     \/ a[id].status \in {"live", "partial", "open"}
     \/ a[id].status = "none" /\ \E r \in l : r.id = id}

FreshIn(id, a, l) == a[id].status = "none" /\ \A r \in l : r.id # id

(* An order has the entry it was made for, a fill its bar. *)
ExchangeOK(a) ==
  \A id \in TradeCycleIds :
    /\ a[id].status \in {"live", "partial", "open", "ended"} => a[id].entry # None
    /\ a[id].status \in {"partial", "open", "ended"} => a[id].fill # None

(* Two aggregates that answer for the same cycle with the same markers. *)
Agrees(s, r) ==
  /\ s.current_trade_cycle = None <=> r.current_trade_cycle = None
  /\ s.current_trade_cycle # None =>
       s.current_trade_cycle.trade_cycle_id = r.current_trade_cycle.trade_cycle_id
  /\ s.pending_entry_recovery = r.pending_entry_recovery
  /\ s.pending_close_recovery = r.pending_close_recovery

(* Points at which a handler relies on its copy of the stored state. *)
AtWork ==
  {"lookup", "opened", "manage", "remainder", "engine_open", "protect", "close",
   "engine_entry", "create", "cancel", "query", "neutralize",
   "op_lookup", "op_cancel", "op_disable"}

(* What a handler may take for granted of its state s at a point. *)
PointOK(t, point, s, c, a, l) ==
  /\ point \in {"lookup", "opened", "manage", "remainder", "engine_open", "protect",
                "op_lookup", "op_cancel", "op_disable"} =>
       s.current_trade_cycle # None /\ ~HasMarker(s)
  /\ point = "engine_entry" => ~HasMarker(s)
  /\ point \in {"lookup", "op_lookup", "op_cancel"} =>
       c.source = s.current_trade_cycle.trade_cycle_id
  /\ point = "cancel" =>
       /\ s.current_trade_cycle # None
       /\ s.pending_entry_recovery = s.current_trade_cycle.trade_cycle_id
  /\ point = "close" => s.pending_close_recovery # None
  /\ point \in {"query", "neutralize"} =>
       s.pending_entry_recovery # None /\ c.source = s.pending_entry_recovery
  /\ point = "create" =>
       /\ t = "bar"
       /\ s.current_trade_cycle = None
       /\ s.pending_entry_recovery # None
       /\ FreshIn(s.pending_entry_recovery, a, l)
       /\ c.desired # None

(* A thread at point p with state s, about to go on at th; r is the store. *)
ThreadOK(t, p, s, th, c, r, a, l) ==
  /\ p \in AtWork => Agrees(s, r)
  /\ p # "save" => PointOK(t, p, s, c, a, l)
  /\ p = "save" =>
       /\ WellFormed(s)
       /\ ExposedIn(a, l) \subseteq Tracked(s)
       /\ PointOK(t, th, s, c, a, l)
       /\ th = "engine_open" => Agrees(s, r)

(* Only the holder of the mutex is inside a handler. *)
MutexOK == \A t \in Threads : pc[t] \notin {"idle", "selected"} => owner = t

(* Every handler's copy of the state agrees with the store or is about to  *)
(* be saved over it, what is about to be saved answers for everything      *)
(* exposed, and so does the store.                                         *)
InductiveInvariant ==
  /\ TypeOK
  /\ ExchangeOK(abi)
  /\ MutexOK
  /\ WellFormed(store)
  /\ ExposedIn(abi, late) \subseteq Tracked(store)
  /\ \A t \in Threads :
       ThreadOK(t, pc[t], st[t], then[t], ctx[t], store, abi, late)
=============================================================================
