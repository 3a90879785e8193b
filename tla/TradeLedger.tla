----------------------------- MODULE TradeLedger -----------------------------
(***************************************************************************)
(* What the runtime promises its trader, with no threads, commands or      *)
(* markers: at any time it answers for at most one trade cycle; only that  *)
(* cycle may have an order, a position or a request under way; a cycle is  *)
(* let go, or exchanged for another, only when nothing of it is left; and  *)
(* an identity the exchange has seen is never taken up again.              *)
(***************************************************************************)
CONSTANTS TradeCycleIds, None

VARIABLES
  cycle,    \* the trade cycle the runtime answers for, or None
  exposed,  \* trade cycles with an order, a position, or a request under way
  spent     \* trade cycles the exchange has seen

vars == <<cycle, exposed, spent>>

Init ==
  /\ cycle = None
  /\ exposed = {}
  /\ spent = {}

Take(id) ==
  /\ exposed = {}
  /\ id \notin spent
  /\ cycle' = id
  /\ UNCHANGED <<exposed, spent>>

LetGo ==
  /\ exposed = {}
  /\ cycle' = None
  /\ UNCHANGED <<exposed, spent>>

(* The cycle's order is sent: it is seen at once, later, or never. *)
Expose ==
  /\ cycle # None
  /\ cycle \notin spent
  /\ exposed' = {cycle}
  /\ spent' \in {spent, spent \cup {cycle}}
  /\ UNCHANGED cycle

(* Nothing is left of the cycle's order and position, or it is made sure   *)
(* that no order will ever come of it.                                     *)
Settle ==
  /\ cycle # None
  /\ exposed' = {}
  /\ spent' \in {spent, spent \cup {cycle}}
  /\ UNCHANGED cycle

Next == (\E id \in TradeCycleIds : Take(id)) \/ LetGo \/ Expose \/ Settle

Spec == Init /\ [][Next]_vars
=============================================================================
