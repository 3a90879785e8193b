---------------------------- MODULE RuntimeState ----------------------------
(***************************************************************************)
(* The durable aggregate of one strategy instance, the functions that      *)
(* build its next value, and the two pure decisions taken from it.         *)
(*                                                                         *)
(* Time is counted in bars of the instance's timeframe: a bar is its index *)
(* (open_time_ms / timeframe_ms) and a fill is the index of the bar it     *)
(* happened in, which is what align_first_fill_to_entry_bar keeps of it.   *)
(* A desired entry keeps its source plan bar and its initial protection;   *)
(* side, prices and exit profile only ever take part in whole-value        *)
(* equality, so they are one opaque protection value here.  Fields of the  *)
(* aggregate that never change (identity, spec snapshot, risk multiplier)  *)
(* are left out.                                                           *)
(***************************************************************************)
EXTENDS Naturals

CONSTANTS
  TradeCycleIds,      \* values trade_cycle_id_factory may return
  Protections,        \* opaque (stop_price, take_price) pairs
  LiveEntryMode,      \* RUNTIME_LIVE_ENTRY_MODE
  OrderLifetimeBars,  \* lifetime of a touch_trigger entry order, in bars
  None                \* Python's None

DesiredEntries == [source_plan_bar : Nat, initial_protection : Protections]

ASSUME ConstantsAssumption ==
  /\ LiveEntryMode \in {"ema_anchor", "touch_trigger"}
  /\ OrderLifetimeBars \in Nat
  /\ None \notin TradeCycleIds
  /\ None \notin Protections
  /\ None \notin Nat
  /\ None \notin DesiredEntries

FrozenContexts ==
  [desired_entry : DesiredEntries, entry_bar : Nat, expires_at_bar : Nat \cup {None}]

Cycles ==
  [trade_cycle_id            : TradeCycleIds,
   desired_entry             : DesiredEntries,
   frozen_entry_context      : FrozenContexts \cup {None},
   confirmed_protection      : Protections \cup {None},
   entry_remainder_cancelled : BOOLEAN]

(* A record is not Python's None. *)
ASSUME NoneAssumption == None \notin FrozenContexts /\ None \notin Cycles

States ==
  [current_trade_cycle    : Cycles \cup {None},
   pending_entry_recovery : TradeCycleIds \cup {None},
   pending_close_recovery : TradeCycleIds \cup {None}]

InitialState ==
  [current_trade_cycle    |-> None,
   pending_entry_recovery |-> None,
   pending_close_recovery |-> None]

(* What __post_init__ refuses to construct: a state of any other shape     *)
(* raises in the handler that builds it.                                   *)
WellFormed(s) ==
  LET cycle == s.current_trade_cycle IN
  /\ s.pending_entry_recovery # None /\ cycle # None
       => s.pending_entry_recovery = cycle.trade_cycle_id
  /\ s.pending_close_recovery # None
       => cycle # None /\ s.pending_close_recovery = cycle.trade_cycle_id
  /\ s.pending_entry_recovery = None \/ s.pending_close_recovery = None

HasMarker(s) == s.pending_entry_recovery # None \/ s.pending_close_recovery # None

(* The trade cycles whose exchange side this state still answers for.      *)
Tracked(s) ==
  (IF s.current_trade_cycle = None THEN {} ELSE {s.current_trade_cycle.trade_cycle_id})
    \cup ({s.pending_entry_recovery} \ {None})

-----------------------------------------------------------------------------
(* Next values of the aggregate.                                           *)

MarkEntry(s, id) == [s EXCEPT !.pending_entry_recovery = id]

ClearEntryMarker(s) == [s EXCEPT !.pending_entry_recovery = None]

(* Faulty variant: the marker holds the cycle instead of its identity. *)
MarkCloseWithCycle(s) == [s EXCEPT !.pending_close_recovery = s.current_trade_cycle]

MarkClose(s) ==
  [s EXCEPT !.pending_close_recovery = s.current_trade_cycle.trade_cycle_id]

NewCycle(id, entry) ==
  [trade_cycle_id            |-> id,
   desired_entry             |-> entry,
   frozen_entry_context      |-> None,
   confirmed_protection      |-> None,
   entry_remainder_cancelled |-> FALSE]

(* A confirmed or recovered entry: the cycle, and no marker. *)
WithCycle(s, id, entry) ==
  [s EXCEPT !.current_trade_cycle = NewCycle(id, entry), !.pending_entry_recovery = None]

(* A confirmed removal, or a terminal answer to a recovery query. *)
WithoutEntry(s) ==
  [s EXCEPT !.current_trade_cycle = None, !.pending_entry_recovery = None]

(* A confirmed close, or a closure ABI proved. *)
WithoutPosition(s) ==
  [s EXCEPT !.current_trade_cycle = None, !.pending_close_recovery = None]

(* cancel_step.py clears the cycle only: it runs without a marker. *)
WithoutCycle(s) == [s EXCEPT !.current_trade_cycle = None]

(* Faulty variant: only the first confirmation is recorded. *)
WithFirstProtection(s, protection) ==
  IF s.current_trade_cycle.confirmed_protection # None THEN s
  ELSE [s EXCEPT !.current_trade_cycle.confirmed_protection = protection]

WithProtection(s, protection) ==
  [s EXCEPT !.current_trade_cycle.confirmed_protection = protection]

WithRemainderCancelled(s) ==
  [s EXCEPT !.current_trade_cycle.entry_remainder_cancelled = TRUE]

-----------------------------------------------------------------------------
(* Lifetime of a touch_trigger entry order. *)

entry_order_expiration(plan_bar) == plan_bar + OrderLifetimeBars + 2

(* Faulty variant: one bar too early. *)
ExpiredOneBarEarly(bar, expiration) == bar + 2 >= expiration

is_entry_order_expired(bar, expiration) == bar + 1 >= expiration

(* The first fill. *)

(* Faulty variant: the event's trade_cycle_id is not compared. *)
CanFreezeAnyCycle(s, id, fill_bar) ==
  /\ s.current_trade_cycle # None
  /\ s.current_trade_cycle.frozen_entry_context = None
  /\ fill_bar >= s.current_trade_cycle.desired_entry.source_plan_bar

CanFreeze(s, id, fill_bar) ==
  /\ s.current_trade_cycle # None
  /\ s.current_trade_cycle.trade_cycle_id = id
  /\ s.current_trade_cycle.frozen_entry_context = None
  /\ fill_bar >= s.current_trade_cycle.desired_entry.source_plan_bar

AlreadyFrozen(s, id, fill_bar) ==
  /\ s.current_trade_cycle # None
  /\ s.current_trade_cycle.trade_cycle_id = id
  /\ s.current_trade_cycle.frozen_entry_context # None
  /\ s.current_trade_cycle.frozen_entry_context.entry_bar = fill_bar

FrozenContext(entry, fill_bar) ==
  [desired_entry  |-> entry,
   entry_bar      |-> fill_bar,
   expires_at_bar |-> IF LiveEntryMode = "touch_trigger"
                      THEN entry_order_expiration(entry.source_plan_bar)
                      ELSE None]

apply_first_fill(s, fill_bar) ==
  [s EXCEPT !.current_trade_cycle.frozen_entry_context =
              FrozenContext(s.current_trade_cycle.desired_entry, fill_bar)]

(* The bar step that asks ABI to cancel what is left of a filled entry. *)
RemainderDue(s, bar) ==
  LET cycle == s.current_trade_cycle IN
  /\ ~cycle.entry_remainder_cancelled
  /\ cycle.frozen_entry_context.expires_at_bar # None
  /\ is_entry_order_expired(bar, cycle.frozen_entry_context.expires_at_bar)

-----------------------------------------------------------------------------
(* Decisions.  Both entry decisions raise for a frozen cycle: that guard   *)
(* is in the step that uses them.                                          *)

decide_entry_reconciliation(desired, cycle) ==
  CASE cycle = None /\ desired = None                  -> "no_op"
    [] cycle = None /\ desired # None                  -> "apply"
    [] cycle # None /\ desired = None                  -> "cancel"
    [] cycle # None /\ desired # None
         /\ desired = cycle.desired_entry              -> "no_op"
    [] OTHER                                           -> "replace"

touch_trigger_entry_reconciliation(desired, cycle, bar) ==
  CASE cycle = None /\ desired = None                  -> "no_op"
    [] cycle = None /\ desired # None                  -> "apply"
    [] cycle # None
         /\ ~is_entry_order_expired(
               bar, entry_order_expiration(cycle.desired_entry.source_plan_bar))
                                                       -> "no_op"
    [] cycle # None /\ desired # None
         /\ is_entry_order_expired(
               bar, entry_order_expiration(cycle.desired_entry.source_plan_bar))
         /\ desired.source_plan_bar = bar              -> "replace"
    [] OTHER                                           -> "cancel"

EntryDecision(desired, cycle, bar) ==
  IF LiveEntryMode = "touch_trigger"
  THEN touch_trigger_entry_reconciliation(desired, cycle, bar)
  ELSE decide_entry_reconciliation(desired, cycle)

effective_acknowledged_protection(cycle) ==
  IF cycle.confirmed_protection # None
  THEN cycle.confirmed_protection
  ELSE cycle.frozen_entry_context.desired_entry.initial_protection

decide_position_management(close_signal, desired_protection, cycle) ==
  CASE close_signal                                    -> "close"
    [] ~close_signal
         /\ desired_protection = effective_acknowledged_protection(cycle)
                                                       -> "no_op"
    [] OTHER                                           -> "apply_protection"
=============================================================================
