-------------------------- MODULE EngineCallsProofs --------------------------
(***************************************************************************)
(* Proofs about EngineCalls: whatever arrives over the wire, the service   *)
(* acts on Engine's own answers only, asks about the trade that was        *)
(* executed, and is not moved by a notation, for every set of prices and   *)
(* every number of bars.                                                   *)
(***************************************************************************)
EXTENDS EngineCalls, TLAPS

-----------------------------------------------------------------------------
(* Normalization. *)

(* An answer about a live entry, or its absence, keeps what it says; its   *)
(* price takes the shortest notation.                                      *)
LEMMA NormalizedLive ==
  ASSUME NEW a \in LiveAnswers
  PROVE  /\ Normalized(a) \in LiveAnswers
         /\ Normalized(a) = NoEntry <=> a = NoEntry
         /\ a # NoEntry => /\ a \in Entries /\ Normalized(a) \in Entries
                           /\ Normalized(a).plan_bar = a.plan_bar
                           /\ Normalized(a).price = [value |-> a.price.value, notation |-> "shortest"]
<1>1. CASE a = NoEntry
  <2>1. NoEntry \notin Entries
    BY NoneAssumption DEF NoEntry, Entries, Bars
  <2>2. Normalized(a) = NoEntry
    BY <1>1, <2>1 DEF Normalized
  <2> QED
    BY <1>1, <2>2
<1>2. CASE a # NoEntry
  <2>1. a \in Entries
    BY <1>2 DEF LiveAnswers
  <2>2. Normalized(a) = [a EXCEPT !.price = normalize_decimal_text(@)]
    BY <1>2, <2>1 DEF Normalized
  <2>3. normalize_decimal_text(a.price) = [value |-> a.price.value, notation |-> "shortest"]
    BY <2>1 DEF normalize_decimal_text, Entries, Texts
  <2>4. Normalized(a) \in Entries /\ Normalized(a).plan_bar = a.plan_bar
        /\ Normalized(a).price = [value |-> a.price.value, notation |-> "shortest"]
    BY <2>1, <2>2, <2>3 DEF Entries, Texts
  <2>5. Normalized(a).plan_bar # None
    BY <2>1, <2>4, NoneAssumption DEF Entries, Bars
  <2> QED
    BY <1>2, <2>1, <2>4, <2>5 DEF LiveAnswers, NoEntry
<1> QED
  BY <1>1, <1>2

(* An answer about an open trade keeps what it says. *)
LEMMA NormalizedTrade ==
  ASSUME NEW a \in TradeAnswers
  PROVE  /\ Normalized(a) \in TradeAnswers
         /\ Normalized(a).active = a.active
         /\ Normalized(a).protection = [value |-> a.protection.value, notation |-> "shortest"]
<1>1. a \notin LiveAnswers /\ a # NoEntry /\ a \notin Entries
  BY DEF TradeAnswers, LiveAnswers, Entries, NoEntry
<1>2. Normalized(a) = [a EXCEPT !.protection = normalize_decimal_text(@)]
  BY <1>1 DEF Normalized
<1>3. normalize_decimal_text(a.protection) = [value |-> a.protection.value, notation |-> "shortest"]
  BY DEF normalize_decimal_text, TradeAnswers, Texts
<1> QED
  BY <1>2, <1>3 DEF TradeAnswers, Texts

-----------------------------------------------------------------------------
(* The invariant, in parts. *)

(* An answer that decodes is what Engine calculated for this call. *)
WireInv ==
  reply # None =>
    /\ call # None
    /\ call.kind = "live" => reply.content \in LiveAnswers
    /\ call.kind = "trade" => reply.content \in TradeAnswers
    /\ decodes(reply) => truth # None /\ reply.content = truth

(* The state and the exchange hold the same trade, and a frozen entry bar  *)
(* is that of the fill.                                                    *)
TradeInv ==
  /\ exchange.order = "none" <=> cycle = None
  /\ cycle # None => /\ cycle.entry = exchange.entry
                     /\ cycle.entry_bar # None => /\ exchange.order \in {"open", "closed"}
                                                  /\ cycle.entry_bar = exchange.fill_bar
  /\ exchange.order \in {"open", "closed"} => exchange.fill_bar \in Bars

(* The state holds prices in their shortest notation only. *)
NotationInv ==
  cycle # None => /\ cycle.entry.price.notation = "shortest"
                  /\ cycle.protection # None => cycle.protection.notation = "shortest"

EngineInv ==
  /\ TypeOK
  /\ WireInv
  /\ TradeInv
  /\ NotationInv
  /\ DecidedByEngine
  /\ AsksAboutTheTrade

(* Nothing is asked, known or decided at first. *)
LEMMA EngineInitially == Init => EngineInv
BY EngineAssumption DEF Init, EngineInv, TypeOK, WireInv, TradeInv, NotationInv, DecidedByEngine,
   AsksAboutTheTrade, Flat, Positions, Bars

(* A bar that finds a position. *)
LEMMA RouteOpenTradeKeeps ==
  ASSUME EngineInv, NEW bar \in Bars, RouteOpenTrade(bar)
  PROVE  EngineInv'
<1>1. /\ Idle /\ exchange.order = "open" /\ cycle # None /\ cycle \in Cycles
      /\ exchange.fill_bar \in Bars /\ cycle.entry = exchange.entry /\ cycle.entry \in Entries
      /\ UNCHANGED <<now, exchange>> /\ None \notin Bars
  BY NoneAssumption DEF RouteOpenTrade, EngineInv, TypeOK, TradeInv, Cycles, Bars
<1>2. /\ cycle' \in Cycles /\ cycle' # None
      /\ cycle'.entry = cycle.entry /\ cycle'.protection = cycle.protection
      /\ cycle'.entry_bar = exchange.fill_bar
  BY <1>1, NoneAssumption DEF RouteOpenTrade, Freeze, EngineInv, TradeInv, Cycles
<1>3. TradeInv' /\ NotationInv'
  BY <1>1, <1>2 DEF EngineInv, TradeInv, NotationInv
<1>4. CASE cycle'.entry_bar > bar
  <2>1. UNCHANGED <<call, truth, reply, decision>>
    BY <1>4 DEF RouteOpenTrade, Returns
  <2>2. TypeOK'
    BY <1>1, <1>2, <2>1 DEF EngineInv, TypeOK
  <2> QED
    BY <1>1, <1>3, <2>1, <2>2 DEF EngineInv, WireInv, DecidedByEngine, AsksAboutTheTrade
<1>5. CASE ~(cycle'.entry_bar > bar)
  <2> DEFINE request == [kind |-> "trade", target |-> bar, entry |-> cycle.entry,
                         entry_bar |-> cycle'.entry_bar]
  <2>1. call' = request /\ truth' = None /\ reply' = None /\ decision' = None
    BY <1>5 DEF RouteOpenTrade, Asks
  <2>2. request \in Requests
    BY <1>1, <1>2 DEF Requests
  <2>3. TypeOK'
    BY <1>1, <1>2, <2>1, <2>2 DEF EngineInv, TypeOK
  <2>4. AsksAboutTheTrade'
    <3>1. exchange.fill_bar <= bar
      BY <1>1, <1>2, <1>5, EngineAssumption DEF Bars
    <3> QED
      BY <1>1, <1>2, <2>1, <3>1 DEF AsksAboutTheTrade
  <2> QED
    BY <1>3, <2>1, <2>3, <2>4 DEF EngineInv, WireInv, DecidedByEngine
<1> QED
  BY <1>4, <1>5

(* A bar that finds no position, or finds it closed. *)
LEMMA RouteOtherwiseKeeps ==
  ASSUME EngineInv, NEW bar \in Bars, RouteLiveEntry(bar) \/ FindClosure(bar)
  PROVE  EngineInv'
<1>1. CASE RouteLiveEntry(bar)
  <2>1. /\ call' = [kind |-> "live", target |-> bar] /\ truth' = None /\ reply' = None
        /\ decision' = None /\ UNCHANGED <<now, cycle, exchange>>
    BY <1>1 DEF RouteLiveEntry, Asks
  <2>2. call' \in Requests
    BY <2>1 DEF Requests
  <2> QED
    BY <2>1, <2>2 DEF EngineInv, TypeOK, WireInv, TradeInv, NotationInv, DecidedByEngine, AsksAboutTheTrade
<1>2. CASE FindClosure(bar)
  <2>1. /\ call = None /\ cycle' = None /\ exchange' = Flat
        /\ UNCHANGED <<now, call, truth, reply, decision>>
    BY <1>2 DEF FindClosure, Idle, Returns
  <2>2. Flat \in Positions /\ Flat.order = "none"
    BY DEF Flat, Positions
  <2> QED
    BY <2>1, <2>2 DEF EngineInv, TypeOK, WireInv, TradeInv, NotationInv, DecidedByEngine, AsksAboutTheTrade
<1> QED
  BY <1>1, <1>2

(* Engine calculates, and a response arrives, its own or another's. *)
LEMMA WireKeeps ==
  ASSUME EngineInv,
         \/ \E answer \in LiveAnswers \cup TradeAnswers : EngineCalculates(answer)
         \/ \E r \in Replies : ResponseArrives(r)
  PROVE  EngineInv'
<1>1. ASSUME NEW answer \in LiveAnswers \cup TradeAnswers, EngineCalculates(answer)
      PROVE  EngineInv'
  <2>1. /\ call # None /\ truth = None /\ reply = None /\ truth' = answer
        /\ UNCHANGED <<now, cycle, exchange, call, reply, decision>>
    BY <1>1 DEF EngineCalculates
  <2>2. decision = None
    BY <2>1 DEF EngineInv, DecidedByEngine
  <2> QED
    BY <2>1, <2>2 DEF EngineInv, TypeOK, WireInv, TradeInv, NotationInv, DecidedByEngine, AsksAboutTheTrade
<1>2. ASSUME NEW r \in Replies, ResponseArrives(r)
      PROVE  EngineInv'
  <2>1. /\ call # None /\ reply = None /\ reply' = r
        /\ UNCHANGED <<now, cycle, exchange, call, truth, decision>>
        /\ decodes(r) => truth # None /\ r.content = truth
        /\ r.content \in IF call.kind = "live" THEN LiveAnswers ELSE TradeAnswers
    BY <1>2 DEF ResponseArrives, Success, decodes
  <2>2. WireInv'
    BY <2>1 DEF WireInv, decodes
  <2> QED
    BY <2>1, <2>2 DEF EngineInv, TypeOK, TradeInv, NotationInv, DecidedByEngine, AsksAboutTheTrade
<1> QED
  BY <1>1, <1>2

(* The clock, the exchange and the first-fill webhook. *)
LEMMA WorldKeeps ==
  ASSUME EngineInv, Tick \/ Fill \/ Exit \/ Webhook
  PROVE  EngineInv'
<1>1. CASE Tick
  <2>1. now' \in Bars
    BY <1>1, EngineAssumption DEF Tick, EngineInv, TypeOK, Bars
  <2> QED
    BY <1>1, <2>1
       DEF Tick, EngineInv, TypeOK, WireInv, TradeInv, NotationInv, DecidedByEngine,
           AsksAboutTheTrade
<1>2. CASE Fill
  <2>1. /\ exchange.order = "resting" /\ exchange' \in Positions /\ exchange'.order = "open"
        /\ exchange'.entry = exchange.entry /\ exchange'.fill_bar = now /\ now \in Bars
        /\ UNCHANGED <<now, cycle, call, truth, reply, decision>>
    BY <1>2 DEF Fill, EngineInv, TypeOK, Positions
  <2>2. cycle # None /\ cycle.entry_bar = None
    BY <2>1 DEF EngineInv, TradeInv
  <2>3. TradeInv' /\ TypeOK'
    BY <2>1, <2>2 DEF EngineInv, TypeOK, TradeInv
  <2> QED
    BY <2>1, <2>3 DEF EngineInv, WireInv, NotationInv, DecidedByEngine, AsksAboutTheTrade
<1>3. CASE Exit
  <2>1. /\ exchange.order = "open" /\ exchange' \in Positions /\ exchange'.order = "closed"
        /\ exchange'.entry = exchange.entry /\ exchange'.fill_bar = exchange.fill_bar
        /\ UNCHANGED <<now, cycle, call, truth, reply, decision>>
    BY <1>3 DEF Exit, EngineInv, TypeOK, Positions
  <2>2. TradeInv' /\ TypeOK'
    BY <2>1 DEF EngineInv, TypeOK, TradeInv
  <2> QED
    BY <2>1, <2>2 DEF EngineInv, WireInv, NotationInv, DecidedByEngine, AsksAboutTheTrade
<1>4. CASE Webhook
  <2>1. /\ call = None /\ exchange.order \in {"open", "closed"} /\ cycle # None /\ cycle \in Cycles
        /\ exchange.fill_bar \in Bars
        /\ UNCHANGED <<now, exchange, call, truth, reply, decision>>
    BY <1>4 DEF Webhook, Idle, EngineInv, TypeOK, TradeInv
  <2>2. /\ cycle' \in Cycles /\ cycle' # None /\ cycle'.entry = cycle.entry
        /\ cycle'.protection = cycle.protection /\ cycle'.entry_bar = exchange.fill_bar
    BY <1>4, <2>1, NoneAssumption DEF Webhook, Freeze, Cycles
  <2>3. TradeInv' /\ TypeOK' /\ NotationInv'
    BY <2>1, <2>2 DEF EngineInv, TypeOK, TradeInv, NotationInv
  <2> QED
    BY <2>1, <2>3 DEF EngineInv, WireInv, DecidedByEngine, AsksAboutTheTrade
<1> QED
  BY <1>1, <1>2, <1>3, <1>4

(* No answer, or none that counts. *)
LEMMA RaisesKeeps ==
  ASSUME EngineInv, Raises
  PROVE  EngineInv'
BY DEF Raises, Finished, EngineInv, TypeOK, WireInv, TradeInv, NotationInv, DecidedByEngine, AsksAboutTheTrade

(* A decoded answer about a live entry. *)
LEMMA EntryReconciledKeeps ==
  ASSUME EngineInv, NEW accepted \in BOOLEAN, EntryReconciled(accepted)
  PROVE  EngineInv'
<1> DEFINE desired == Normalized(reply.content)
           kind == decide_entry_reconciliation(desired)
<1>1. /\ call # None /\ call.kind = "live" /\ reply # None /\ decodes(reply)
      /\ call' = None /\ reply' = None /\ UNCHANGED <<now, truth>>
      /\ decision' = [kind |-> kind, answer |-> reply.content]
      /\ accepted => kind # "noop" /\ exchange.order \in {"none", "resting"}
      /\ IF ~accepted THEN UNCHANGED <<cycle, exchange>>
         ELSE IF kind = "cancel" THEN cycle' = None /\ exchange' = Flat
         ELSE /\ cycle' = [entry |-> desired, entry_bar |-> None, protection |-> None]
              /\ exchange' = [order |-> "resting", entry |-> desired, fill_bar |-> None]
  BY DEF EntryReconciled, Finished
<1>2. truth # None /\ reply.content = truth /\ truth \in LiveAnswers
  BY <1>1 DEF EngineInv, WireInv
<1>3. /\ desired \in LiveAnswers /\ (desired = NoEntry <=> truth = NoEntry)
      /\ truth # NoEntry => truth \in Entries /\ desired \in Entries /\ desired.price.notation = "shortest"
  <2>1. desired = Normalized(truth)
    BY <1>2
  <2> HIDE DEF desired
  <2>2. truth # NoEntry => desired.price = [value |-> truth.price.value, notation |-> "shortest"]
    BY <1>2, <2>1, NormalizedLive
  <2> QED
    BY <1>2, <2>1, <2>2, NormalizedLive
<1> HIDE DEF desired
<1>4. /\ kind \in {"noop", "apply", "cancel", "replace"}
      /\ kind = "cancel" => desired = NoEntry
      /\ kind \in {"apply", "replace"} => desired # NoEntry
  BY DEF decide_entry_reconciliation
<1> HIDE DEF kind
<1>5. decision' \in Decisions
  BY <1>1, <1>2, <1>4 DEF Decisions
<1>6. DecidedByEngine'
  BY <1>1, <1>2, <1>3, <1>4 DEF DecidedByEngine
<1>7. CASE ~accepted
  <2>1. UNCHANGED <<cycle, exchange>>
    BY <1>1, <1>7
  <2> QED
    BY <1>1, <1>5, <1>6, <2>1 DEF EngineInv, TypeOK, WireInv, TradeInv, NotationInv, AsksAboutTheTrade
<1>8. CASE accepted /\ kind = "cancel"
  <2>1. cycle' = None /\ exchange' = Flat
    BY <1>1, <1>8
  <2>2. Flat \in Positions /\ Flat.order = "none"
    BY DEF Flat, Positions
  <2> QED
    BY <1>1, <1>5, <1>6, <2>1, <2>2
       DEF EngineInv, TypeOK, WireInv, TradeInv, NotationInv, AsksAboutTheTrade
<1>9. CASE accepted /\ kind # "cancel"
  <2>1. desired \in Entries /\ desired.price.notation = "shortest"
    BY <1>1, <1>3, <1>4, <1>9
  <2>2. /\ cycle' = [entry |-> desired, entry_bar |-> None, protection |-> None]
        /\ exchange' = [order |-> "resting", entry |-> desired, fill_bar |-> None]
    BY <1>1, <1>9
  <2>3. cycle' \in Cycles /\ cycle' # None /\ exchange' \in Positions
    BY <2>1, <2>2, NoneAssumption DEF Cycles, Positions
  <2>4. TypeOK'
    BY <1>1, <1>5, <2>3 DEF EngineInv, TypeOK
  <2>5. TradeInv' /\ NotationInv'
    BY <2>1, <2>2, <2>3 DEF TradeInv, NotationInv
  <2> QED
    BY <1>1, <1>6, <2>4, <2>5 DEF EngineInv, WireInv, AsksAboutTheTrade
<1> QED
  BY <1>7, <1>8, <1>9

(* A decoded answer about an open trade. *)
LEMMA PositionManagedKeeps ==
  ASSUME EngineInv, NEW accepted \in BOOLEAN, PositionManaged(accepted)
  PROVE  EngineInv'
<1> DEFINE recipe == Normalized(reply.content)
           kind == decide_position_management(recipe)
<1>1. /\ call # None /\ call.kind = "trade" /\ reply # None /\ decodes(reply)
      /\ call' = None /\ reply' = None /\ UNCHANGED <<now, truth>>
      /\ decision' = [kind |-> kind, answer |-> reply.content]
      /\ accepted => kind # "noop" /\ exchange.order = "open"
      /\ IF ~accepted THEN UNCHANGED <<cycle, exchange>>
         ELSE IF kind = "close" THEN cycle' = None /\ exchange' = Flat
         ELSE cycle' = [cycle EXCEPT !.protection = recipe.protection] /\ UNCHANGED exchange
  BY DEF PositionManaged, Finished
<1>2. truth # None /\ reply.content = truth /\ truth \in TradeAnswers
  BY <1>1 DEF EngineInv, WireInv
<1>3. /\ recipe \in TradeAnswers /\ recipe.active = truth.active
      /\ recipe.protection \in Texts /\ recipe.protection.notation = "shortest"
  <2>1. recipe = Normalized(truth)
    BY <1>2
  <2> HIDE DEF recipe
  <2>2. /\ recipe \in TradeAnswers /\ recipe.active = truth.active
        /\ recipe.protection = [value |-> truth.protection.value, notation |-> "shortest"]
    BY <1>2, <2>1, NormalizedTrade
  <2>3. recipe.protection \in Texts
    BY <2>2 DEF TradeAnswers
  <2> QED
    BY <2>2, <2>3
<1> HIDE DEF recipe
<1>4. /\ kind \in {"noop", "close", "protect"}
      /\ kind = "close" => recipe.active
      /\ kind = "protect" => ~recipe.active
  BY DEF decide_position_management
<1> HIDE DEF kind
<1>5. decision' \in Decisions
  BY <1>1, <1>2, <1>4 DEF Decisions
<1>6. DecidedByEngine'
  BY <1>1, <1>2, <1>3, <1>4 DEF DecidedByEngine
<1>7. CASE ~accepted
  <2>1. UNCHANGED <<cycle, exchange>>
    BY <1>1, <1>7
  <2> QED
    BY <1>1, <1>5, <1>6, <2>1 DEF EngineInv, TypeOK, WireInv, TradeInv, NotationInv, AsksAboutTheTrade
<1>8. CASE accepted /\ kind = "close"
  <2>1. cycle' = None /\ exchange' = Flat
    BY <1>1, <1>8
  <2>2. Flat \in Positions /\ Flat.order = "none"
    BY DEF Flat, Positions
  <2> QED
    BY <1>1, <1>5, <1>6, <2>1, <2>2
       DEF EngineInv, TypeOK, WireInv, TradeInv, NotationInv, AsksAboutTheTrade
<1>9. CASE accepted /\ kind # "close"
  <2>1. cycle # None /\ cycle \in Cycles
    BY <1>1, <1>9 DEF EngineInv, TypeOK, TradeInv
  <2>2. cycle' = [cycle EXCEPT !.protection = recipe.protection] /\ exchange' = exchange
    BY <1>1, <1>9
  <2>3. /\ cycle' \in Cycles /\ cycle' # None
        /\ cycle'.entry = cycle.entry /\ cycle'.entry_bar = cycle.entry_bar
        /\ cycle'.protection = recipe.protection
    BY <1>3, <2>1, <2>2, NoneAssumption DEF Cycles
  <2>4. TypeOK'
    BY <1>1, <1>5, <2>2, <2>3 DEF EngineInv, TypeOK
  <2>5. TradeInv' /\ NotationInv'
    BY <1>3, <2>1, <2>2, <2>3 DEF EngineInv, TradeInv, NotationInv
  <2> QED
    BY <1>1, <1>6, <2>4, <2>5 DEF EngineInv, WireInv, AsksAboutTheTrade
<1> QED
  BY <1>7, <1>8, <1>9

(* Every step keeps the invariant. *)
LEMMA EngineStep == EngineInv /\ [Next]_vars => EngineInv'
<1> SUFFICES ASSUME EngineInv, [Next]_vars PROVE EngineInv'
  OBVIOUS
<1>1. CASE UNCHANGED vars
  BY <1>1 DEF vars, EngineInv, TypeOK, WireInv, TradeInv, NotationInv, DecidedByEngine, AsksAboutTheTrade
<1>2. ASSUME NEW bar \in Bars, RouteOpenTrade(bar) \/ RouteLiveEntry(bar) \/ FindClosure(bar)
      PROVE  EngineInv'
  BY <1>2, RouteOpenTradeKeeps, RouteOtherwiseKeeps
<1>3. CASE \/ \E answer \in LiveAnswers \cup TradeAnswers : EngineCalculates(answer)
           \/ \E r \in Replies : ResponseArrives(r)
  BY <1>3, WireKeeps
<1>4. CASE Tick \/ Fill \/ Exit \/ Webhook
  BY <1>4, WorldKeeps
<1>5. CASE Raises
  BY <1>5, RaisesKeeps
<1>6. ASSUME NEW accepted \in BOOLEAN, EntryReconciled(accepted) \/ PositionManaged(accepted)
      PROVE  EngineInv'
  BY <1>6, EntryReconciledKeeps, PositionManagedKeeps
<1> QED
  BY <1>1, <1>2, <1>3, <1>4, <1>5, <1>6 DEF Next

(* What a replacement or a new protection differs in is its numbers. *)
LEMMA EntryNotChurned ==
  ASSUME EngineInv, NEW accepted \in BOOLEAN, EntryReconciled(accepted)
  PROVE  /\ decision'.kind # "protect"
         /\ decision'.kind = "replace" => Says(decision'.answer) # Says(cycle.entry)
<1> DEFINE desired == Normalized(reply.content)
           kind == decide_entry_reconciliation(desired)
<1>1. /\ call # None /\ call.kind = "live" /\ reply # None
      /\ decision' = [kind |-> kind, answer |-> reply.content]
  BY DEF EntryReconciled
<1>2. kind # "protect"
  <2> HIDE DEF desired
  <2> QED
    BY DEF decide_entry_reconciliation
<1>3. ASSUME kind = "replace" PROVE Says(reply.content) # Says(cycle.entry)
  <2>1. cycle # None /\ desired # NoEntry /\ desired # cycle.entry
    <3> HIDE DEF desired
    <3> QED
      BY <1>3 DEF decide_entry_reconciliation
  <2>2. reply.content \in LiveAnswers
    BY <1>1 DEF EngineInv, WireInv
  <2>3. PICK a \in LiveAnswers : a = reply.content
    BY <2>2
  <2>4. /\ a \in Entries /\ desired \in Entries /\ desired.plan_bar = a.plan_bar
        /\ desired.price = [value |-> a.price.value, notation |-> "shortest"]
    <3>1. desired = Normalized(a)
      BY <2>3
    <3> HIDE DEF desired
    <3> QED
      BY <2>1, <3>1, NormalizedLive
  <2>5. cycle.entry \in Entries /\ cycle.entry.price.notation = "shortest"
    BY <2>1 DEF EngineInv, TypeOK, NotationInv, Cycles
  <2> HIDE DEF desired
  <2>6. NoEntry \notin Entries
    BY NoneAssumption DEF NoEntry, Entries, Bars
  <2>7. /\ Says(a) = [plan_bar |-> a.plan_bar, price |-> a.price.value]
        /\ Says(cycle.entry) = [plan_bar |-> cycle.entry.plan_bar, price |-> cycle.entry.price.value]
    BY <2>4, <2>5, <2>6 DEF Says
  <2>8. ASSUME Says(a) = Says(cycle.entry) PROVE FALSE
    <3>1. a.plan_bar = cycle.entry.plan_bar /\ a.price.value = cycle.entry.price.value
      BY <2>7, <2>8
    <3>2. desired.plan_bar = cycle.entry.plan_bar /\ desired.price = cycle.entry.price
      BY <2>4, <2>5, <3>1 DEF Entries, Texts
    <3>3. desired = cycle.entry
      BY <2>4, <2>5, <3>2 DEF Entries
    <3> QED
      BY <2>1, <3>3
  <2> QED
    BY <2>3, <2>8
<1> QED
  BY <1>1, <1>2, <1>3

(* The same of a protection. *)
LEMMA ProtectionNotChurned ==
  ASSUME EngineInv, NEW accepted \in BOOLEAN, PositionManaged(accepted)
  PROVE  /\ decision'.kind # "replace"
         /\ decision'.kind = "protect" =>
              decision'.answer.protection.value # resolve_effective_acknowledged_protection.value
<1> DEFINE recipe == Normalized(reply.content)
           kind == decide_position_management(recipe)
           effective == resolve_effective_acknowledged_protection
<1>1. /\ call # None /\ call.kind = "trade" /\ reply # None
      /\ decision' = [kind |-> kind, answer |-> reply.content]
  BY DEF PositionManaged
<1>2. kind # "replace"
  <2> HIDE DEF recipe
  <2> QED
    BY DEF decide_position_management
<1>3. ASSUME kind = "protect" PROVE reply.content.protection.value # effective.value
  <2>1. recipe.protection # effective
    <3> HIDE DEF recipe
    <3> QED
      BY <1>3 DEF decide_position_management
  <2>2. PICK a \in TradeAnswers : a = reply.content
    BY <1>1 DEF EngineInv, WireInv
  <2>3. recipe.protection = [value |-> a.protection.value, notation |-> "shortest"]
    <3>1. recipe = Normalized(a)
      BY <2>2
    <3> HIDE DEF recipe
    <3> QED
      BY <3>1, NormalizedTrade
  <2>4. cycle # None /\ cycle \in Cycles
    BY <1>1 DEF EngineInv, TypeOK, TradeInv, AsksAboutTheTrade
  <2>5. effective \in Texts /\ effective.notation = "shortest"
    BY <2>4 DEF EngineInv, NotationInv, resolve_effective_acknowledged_protection, Cycles, Entries
  <2> HIDE DEF recipe, effective
  <2>6. ASSUME a.protection.value = effective.value PROVE FALSE
    <3>1. effective = [value |-> a.protection.value, notation |-> "shortest"]
      BY <2>5, <2>6 DEF Texts
    <3> QED
      BY <2>1, <2>3, <3>1
  <2> QED
    BY <2>2, <2>6
<1> QED
  BY <1>1, <1>2, <1>3

-----------------------------------------------------------------------------
(* Theorems. *)

(* The invariant of the wire, the trade and the decision holds for ever. *)
THEOREM EngineInvariance == Spec => []EngineInv
<1>1. Init => EngineInv
  BY EngineInitially
<1>2. EngineInv /\ [Next]_vars => EngineInv'
  BY EngineStep
<1> QED
  BY <1>1, <1>2, PTL DEF Spec

(* wire_codec: an order, a protection or a position is changed only        *)
(* because Engine calculated just that for this call.                      *)
THEOREM OnlyEngineDecides == Spec => []DecidedByEngine
<1>1. EngineInv => DecidedByEngine
  BY DEF EngineInv
<1> QED
  BY <1>1, EngineInvariance, PTL

(* _route_open_trade: Engine is asked about the trade that was executed,   *)
(* with the bar of its fill, and about no earlier bar.                     *)
THEOREM ReceiptIsTheTrade == Spec => []AsksAboutTheTrade
<1>1. EngineInv => AsksAboutTheTrade
  BY DEF EngineInv
<1> QED
  BY <1>1, EngineInvariance, PTL

(* normalize_decimal_text and the decisions: the same number in another    *)
(* notation replaces no order and re-applies no protection.                *)
THEOREM NotationIsNoNews == Spec => NoNotationChurn
<1> DEFINE P == decision' # None /\ decision' # decision
                => /\ decision'.kind = "replace" => Says(decision'.answer) # Says(cycle.entry)
                   /\ decision'.kind = "protect" =>
                        decision'.answer.protection.value
                          # resolve_effective_acknowledged_protection.value
<1>1. EngineInv /\ [Next]_vars => [P]_vars
  <2> SUFFICES ASSUME EngineInv, Next PROVE P
    OBVIOUS
  <2>1. ASSUME NEW accepted \in BOOLEAN, EntryReconciled(accepted) PROVE P
    BY <2>1, EntryNotChurned
  <2>2. ASSUME NEW accepted \in BOOLEAN, PositionManaged(accepted) PROVE P
    BY <2>2, ProtectionNotChurned
  <2>3. CASE \/ \E bar \in Bars : RouteOpenTrade(bar) \/ RouteLiveEntry(bar) \/ FindClosure(bar)
             \/ \E answer \in LiveAnswers \cup TradeAnswers : EngineCalculates(answer)
             \/ \E r \in Replies : ResponseArrives(r)
             \/ Tick \/ Fill \/ Exit \/ Webhook \/ Raises
    <3>1. decision' = None \/ decision' = decision
      BY <2>3 DEF RouteOpenTrade, RouteLiveEntry, FindClosure, Asks, Returns, EngineCalculates,
                  ResponseArrives, Tick, Fill, Exit, Webhook, Raises
    <3> QED
      BY <3>1
  <2> QED
    BY <2>1, <2>2, <2>3 DEF Next
<1> QED
  BY <1>1, EngineInvariance, PTL DEF Spec, NoNotationChurn
=============================================================================
