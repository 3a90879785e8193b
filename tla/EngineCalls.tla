----------------------------- MODULE EngineCalls -----------------------------
(***************************************************************************)
(* The use-case router and the Strategy Engine client: which question a    *)
(* bar asks of Engine, what counts as an answer, and what is made of it.   *)
(* StrategyInstance lets Engine want anything; this module keeps the wire: *)
(* answers made by somebody other than Engine, answers of another version  *)
(* of its contract, prices written in two notations, and bars that reach   *)
(* the router after the trade they are about has moved on.                 *)
(*                                                                         *)
(* One instance with mode ema_anchor, one handler at a time: each holds    *)
(* the instance's mutex.  ABI takes a command or refuses it; lost answers  *)
(* are the subject of AbiCalls and StrategyInstance.                       *)
(***************************************************************************)
EXTENDS Naturals

CONSTANTS
  Prices,  \* decimal numbers
  None,
  MaxBar   \* bound: bars of the run; bar b opens at time b and closes at b + 1

ASSUME EngineAssumption == MaxBar \in Nat /\ None \notin Prices

VARIABLES
  now,       \* the bar that is forming
  cycle,     \* current_trade_cycle, or None
  exchange,  \* the order or position of that cycle
  call,      \* the request Engine has been sent, or None
  truth,     \* what Engine calculated for it, or None
  reply,     \* the HTTP response that reached the client, or None
  decision   \* the decision taken on it, or None

vars == <<now, cycle, exchange, call, truth, reply, decision>>

Bars == 0 .. MaxBar

(* "1.5" and "1.50": one number, two texts.  A price stands for all of an  *)
(* entry's prices, or for a protection's stop and take.                    *)
Texts == [value : Prices, notation : {"shortest", "padded"}]

Entries == [plan_bar : Bars, price : Texts]

(* No entry is a record too, so that every answer has the same shape. *)
NoEntry == [plan_bar |-> None, price |-> None]
LiveAnswers == Entries \cup {NoEntry}
TradeAnswers == [protection : Texts, active : BOOLEAN]

Requests == [kind : {"live"}, target : Bars]
       \cup [kind : {"trade"}, target : Bars, entry : Entries, entry_bar : Bars]

(* json: an application/json response in UTF-8, valid, with no field       *)
(* twice.  form: the fields against those of the success body; what a      *)
(* lenient reader would make of any other body is its content.             *)
Replies == [status : {200, 503}, json : BOOLEAN,
            form : {"exact", "missing", "malformed"},
            content : LiveAnswers \cup TradeAnswers]

Cycles == [entry : Entries, entry_bar : Bars \cup {None}, protection : Texts \cup {None}]

Positions == [order : {"none", "resting", "open", "closed"},
              entry : Entries \cup {None}, fill_bar : Bars \cup {None}]

Flat == [order |-> "none", entry |-> None, fill_bar |-> None]

Decisions == [kind : {"noop", "apply", "replace", "cancel", "close", "protect"},
              answer : LiveAnswers \cup TradeAnswers]

(* Python's None is no number and no record. *)
ASSUME NoneAssumption ==
  None \notin Nat \cup Texts \cup LiveAnswers \cup TradeAnswers \cup Cycles \cup Requests
                \cup Replies \cup Decisions

TypeOK ==
  /\ now \in Bars
  /\ cycle \in Cycles \cup {None}
  /\ exchange \in Positions
  /\ call \in Requests \cup {None}
  /\ truth \in LiveAnswers \cup TradeAnswers \cup {None}
  /\ reply \in Replies \cup {None}
  /\ decision \in Decisions \cup {None}
  /\ cycle = None => exchange = Flat

Init ==
  /\ now = 0
  /\ cycle = None
  /\ exchange = Flat
  /\ call = None
  /\ truth = None
  /\ reply = None
  /\ decision = None

-----------------------------------------------------------------------------
(* Normalization, which every price from Engine passes. *)

(* Faulty variant: the text is kept as it came. *)
normalize_nothing(text) == text

normalize_decimal_text(text) == [text EXCEPT !.notation = "shortest"]

Normalized(answer) ==
  CASE answer = NoEntry -> NoEntry
    [] answer \in Entries -> [answer EXCEPT !.price = normalize_decimal_text(@)]
    [] OTHER -> [answer EXCEPT !.protection = normalize_decimal_text(@)]

(* What an answer says, whatever the notation. *)
Says(answer) ==
  CASE answer = NoEntry -> NoEntry
    [] answer \in Entries -> [plan_bar |-> answer.plan_bar, price |-> answer.price.value]
    [] OTHER -> [protection |-> answer.protection.value, active |-> answer.active]

(* Faulty variant: a body with fields missing is read as if they were null. *)
accepts_missing(r) == r.json /\ r.status = 200 /\ r.form \in {"exact", "missing"}

(* _require_json_content_type, _load_strict_json, the status, and          *)
(* _closed_object with the types of its fields: everything else raises.    *)
decodes(r) == r.json /\ r.status = 200 /\ r.form = "exact"

-----------------------------------------------------------------------------
(* A bar, up to its request to Engine. *)

Freeze(entry_bar) == [cycle EXCEPT !.entry_bar = entry_bar]

Idle == call = None

Asks(request) ==
  /\ call' = request
  /\ truth' = None
  /\ reply' = None
  /\ decision' = None

Returns == UNCHANGED <<call, truth, reply, decision>>

(* Faulty variant: a bar from before the entry is asked about as well. *)
RouteOpenTradeAlways(bar) ==
  /\ Idle /\ bar < now /\ exchange.order = "open"
  /\ cycle' = IF cycle.entry_bar = None THEN Freeze(exchange.fill_bar) ELSE cycle
  /\ Asks([kind |-> "trade", target |-> bar, entry |-> cycle.entry,
           entry_bar |-> cycle'.entry_bar])
  /\ UNCHANGED <<now, exchange>>

(* The lookup finds a position: freeze the first fill unless it is frozen, *)
(* then ask about the trade as it was executed, unless the bar is older.   *)
RouteOpenTrade(bar) ==
  /\ Idle /\ bar < now /\ exchange.order = "open"
  /\ cycle' = IF cycle.entry_bar = None THEN Freeze(exchange.fill_bar) ELSE cycle
  /\ IF cycle'.entry_bar > bar
     THEN Returns
     ELSE Asks([kind |-> "trade", target |-> bar, entry |-> cycle.entry,
                entry_bar |-> cycle'.entry_bar])
  /\ UNCHANGED <<now, exchange>>

(* No position and no closure: ask which entry the strategy wants. *)
RouteLiveEntry(bar) ==
  /\ Idle /\ bar < now /\ exchange.order \in {"none", "resting"}
  /\ Asks([kind |-> "live", target |-> bar])
  /\ UNCHANGED <<now, cycle, exchange>>

(* The lookup finds the position gone: the cycle ends before Engine. *)
FindClosure(bar) ==
  /\ Idle /\ bar < now /\ exchange.order = "closed"
  /\ cycle' = None
  /\ exchange' = Flat
  /\ Returns
  /\ UNCHANGED now

-----------------------------------------------------------------------------
(* Engine and what lies between; exchange and clock. *)

EngineCalculates(answer) ==
  /\ call # None /\ truth = None /\ reply = None
  /\ IF call.kind = "live"
     THEN answer \in LiveAnswers /\ (answer # NoEntry => answer.plan_bar <= call.target)
     ELSE answer \in TradeAnswers
  /\ truth' = answer
  /\ UNCHANGED <<now, cycle, exchange, call, reply, decision>>

(* The success body of Engine's contract is Engine's own answer.  Its      *)
(* errors, its answers in another version of the contract, and the         *)
(* responses of gateways may hold anything else.                           *)
Success(r) == r.status = 200 /\ r.json /\ r.form = "exact"

ResponseArrives(r) ==
  /\ call # None /\ reply = None
  /\ Success(r) => truth # None /\ r.content = truth
  /\ r.content \in IF call.kind = "live" THEN LiveAnswers ELSE TradeAnswers
  /\ reply' = r
  /\ UNCHANGED <<now, cycle, exchange, call, truth, decision>>

Tick ==
  /\ now < MaxBar
  /\ now' = now + 1
  /\ UNCHANGED <<cycle, exchange, call, truth, reply, decision>>

Fill ==
  /\ exchange.order = "resting"
  /\ exchange' = [exchange EXCEPT !.order = "open", !.fill_bar = now]
  /\ UNCHANGED <<now, cycle, call, truth, reply, decision>>

(* The stop or the take fires. *)
Exit ==
  /\ exchange.order = "open"
  /\ exchange' = [exchange EXCEPT !.order = "closed"]
  /\ UNCHANGED <<now, cycle, call, truth, reply, decision>>

(* The first-fill webhook, which waits for the mutex. *)
Webhook ==
  /\ Idle /\ exchange.order \in {"open", "closed"} /\ cycle.entry_bar = None
  /\ cycle' = Freeze(exchange.fill_bar)
  /\ UNCHANGED <<now, exchange, call, truth, reply, decision>>

-----------------------------------------------------------------------------
(* The answer, and the decision taken on it. *)

Finished == call' = None /\ reply' = None /\ UNCHANGED <<now, truth>>

(* A timeout or a network failure, which reply need not precede, or a      *)
(* response that is no answer: the bar fails and nothing changes.          *)
Raises ==
  /\ call # None
  /\ reply # None => ~decodes(reply)
  /\ Finished
  /\ UNCHANGED <<cycle, exchange, decision>>

decide_entry_reconciliation(desired) ==
  CASE cycle = None /\ desired = NoEntry -> "noop"
    [] cycle = None /\ desired # NoEntry -> "apply"
    [] cycle # None /\ desired = NoEntry -> "cancel"
    [] cycle # None /\ desired # NoEntry ->
         IF desired = cycle.entry THEN "noop" ELSE "replace"

(* ABI refuses an entry command once the order has filled. *)
EntryReconciled(accepted) ==
  /\ call # None /\ call.kind = "live" /\ reply # None /\ decodes(reply)
  /\ LET desired == Normalized(reply.content)
         kind == decide_entry_reconciliation(desired)
     IN /\ decision' = [kind |-> kind, answer |-> reply.content]
        /\ accepted => kind # "noop" /\ exchange.order \in {"none", "resting"}
        /\ IF ~accepted THEN UNCHANGED <<cycle, exchange>>
           ELSE IF kind = "cancel" THEN cycle' = None /\ exchange' = Flat
           ELSE /\ cycle' = [entry |-> desired, entry_bar |-> None, protection |-> None]
                /\ exchange' = [order |-> "resting", entry |-> desired, fill_bar |-> None]
  /\ Finished

resolve_effective_acknowledged_protection ==
  IF cycle.protection = None THEN cycle.entry.price ELSE cycle.protection

decide_position_management(recipe) ==
  IF recipe.active THEN "close"
  ELSE IF recipe.protection = resolve_effective_acknowledged_protection THEN "noop"
  ELSE "protect"

(* ABI refuses a command for a position that is gone. *)
PositionManaged(accepted) ==
  /\ call # None /\ call.kind = "trade" /\ reply # None /\ decodes(reply)
  /\ LET recipe == Normalized(reply.content)
         kind == decide_position_management(recipe)
     IN /\ decision' = [kind |-> kind, answer |-> reply.content]
        /\ accepted => kind # "noop" /\ exchange.order = "open"
        /\ IF ~accepted THEN UNCHANGED <<cycle, exchange>>
           ELSE IF kind = "close" THEN cycle' = None /\ exchange' = Flat
           ELSE /\ cycle' = [cycle EXCEPT !.protection = recipe.protection]
                /\ UNCHANGED exchange
  /\ Finished

Next ==
  \/ \E bar \in Bars : RouteOpenTrade(bar) \/ RouteLiveEntry(bar) \/ FindClosure(bar)
  \/ \E answer \in LiveAnswers \cup TradeAnswers : EngineCalculates(answer)
  \/ \E r \in Replies : ResponseArrives(r)
  \/ Tick \/ Fill \/ Exit \/ Webhook
  \/ Raises
  \/ \E accepted \in BOOLEAN : EntryReconciled(accepted) \/ PositionManaged(accepted)

Spec == Init /\ [][Next]_vars

-----------------------------------------------------------------------------
(* A resting order is cancelled, an order placed, a protection moved or a  *)
(* position closed only because Engine, asked on this very bar, calculated *)
(* just that (wire_codec.py, "fail closed"): no error page, no gateway     *)
(* answer and no body of another version is read as "nothing wanted".      *)
DecidedByEngine ==
  decision # None =>
    /\ truth # None
    /\ CASE decision.kind = "cancel" -> truth = NoEntry
         [] decision.kind \in {"apply", "replace"} -> truth \in Entries
         [] decision.kind = "close" -> truth \in TradeAnswers /\ truth.active
         [] decision.kind = "protect" -> truth \in TradeAnswers /\ ~truth.active
         [] OTHER -> Says(decision.answer) = Says(truth)

(* Engine manages the trade that was executed: the receipt it is sent      *)
(* (router._route_open_trade) names the entry ABI was given and the bar of *)
(* the fill, also when a webhook froze it after a later bar had closed,    *)
(* and never asks about a bar from before that entry.                      *)
AsksAboutTheTrade ==
  call # None /\ call.kind = "trade" =>
    /\ exchange.order \in {"open", "closed"}
    /\ call.entry = exchange.entry
    /\ call.entry_bar = exchange.fill_bar
    /\ call.entry_bar <= call.target

(* The same number in another notation is no news: no order is amended and *)
(* no protection re-applied because Engine wrote "1.50" for the "1.5" that *)
(* is acknowledged (recipes normalize; decisions compare the results).     *)
NoNotationChurn ==
  [][/\ decision' # None /\ decision' # decision
     => /\ decision'.kind = "replace" => Says(decision'.answer) # Says(cycle.entry)
        /\ decision'.kind = "protect" =>
             decision'.answer.protection.value
               # resolve_effective_acknowledged_protection.value]_vars
=============================================================================
