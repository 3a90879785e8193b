------------------------- MODULE ExchangeProtection -------------------------
(***************************************************************************)
(* StrategyInstance with the stop and take levels the exchange holds for a *)
(* position.  apply_protection is the one exchange command sent without a  *)
(* recovery marker: after a timeout, a crash or a failed save the store    *)
(* and the exchange may disagree, and a command nobody waits for any more  *)
(* may still be executed, even after a later one.                          *)
(***************************************************************************)
EXTENDS StrategyInstance

VARIABLES
  levels,     \* the protection in force for a trade cycle, or None
  straying,   \* apply_protection commands that may still be executed
  unanswered  \* history: cycles with a command left in doubt and none confirmed since

pvars == <<vars, levels, straying, unanswered>>

PInit ==
  /\ Init
  /\ levels = [id \in TradeCycleIds |-> None]
  /\ straying = {} /\ unanswered = {}

UnderWay == [id |-> ctx["bar"].source, protection |-> ctx["bar"].protection]

LeavesCommand == pc["bar"] = "protect" /\ pc'["bar"] # "protect"

LosesRecord ==
  /\ pc["bar"] = "save" /\ ctx["bar"].protection # None
  /\ pc'["bar"] = "idle" \/ (pc'["bar"] = "exit" /\ poisoned')

(* ABI sets the levels, then answers: what was in doubt is settled, unless *)
(* a stray command may still undo it.                                      *)
PProtectionApplied ==
  /\ ProtectionApplied
  /\ levels' = [levels EXCEPT ![UnderWay.id] = UnderWay.protection]
  /\ unanswered' = IF \E command \in straying : command.id = UnderWay.id
                   THEN unanswered ELSE unanswered \ {UnderWay.id}
  /\ UNCHANGED straying

(* The command's sender gives up or dies. *)
PCommandAbandoned ==
  /\ CallFails("bar") \/ Crash
  /\ LeavesCommand
  /\ \/ UNCHANGED <<levels, straying>>
     \/ /\ PositionOpen(UnderWay.id)
        /\ levels' = [levels EXCEPT ![UnderWay.id] = UnderWay.protection]
        /\ UNCHANGED straying
     \/ straying' = straying \cup {UnderWay} /\ UNCHANGED levels
  /\ unanswered' = unanswered \cup {UnderWay.id}

(* The confirmed protection does not reach the store. *)
PNotRecorded ==
  /\ SaveFails("bar") \/ Crash
  /\ LosesRecord
  /\ unanswered' = unanswered \cup {UnderWay.id}
  /\ UNCHANGED <<levels, straying>>

PStrayArrives(command) ==
  /\ PositionOpen(command.id)
  /\ levels' = [levels EXCEPT ![command.id] = command.protection]
  /\ straying' = straying \ {command}
  /\ UNCHANGED <<vars, unanswered>>

(* Any other step; an order brings the protection it was made with. *)
POther ==
  /\ Next
  /\ ~LeavesCommand /\ ~LosesRecord
  /\ levels' = [id \in TradeCycleIds |->
                  IF abi'[id].status = "live" /\ abi[id].status = "none"
                  THEN abi'[id].entry.initial_protection ELSE levels[id]]
  /\ UNCHANGED <<straying, unanswered>>

PNext ==
  \/ PProtectionApplied \/ PCommandAbandoned \/ PNotRecorded
  \/ \E command \in straying : PStrayArrives(command)
  \/ POther

PSpec == PInit /\ [][PNext]_pvars

(* While no bar is changing it, the protection the durable state           *)
(* acknowledges, against which the next decision compares what Engine      *)
(* wants, is the one in force on the exchange.  A command left without an  *)
(* answer, or its answer unsaved, puts that in doubt until the next one    *)
(* is confirmed, which brings the two together again, unless the lost one  *)
(* may still be executed.                                                  *)
AcknowledgedInForce ==
  LET cycle == store.current_trade_cycle IN
  (cycle # None /\ cycle.frozen_entry_context # None /\ PositionOpen(cycle.trade_cycle_id)
     /\ cycle.trade_cycle_id \notin unanswered
     /\ ~(pc["bar"] \in {"protect", "save"} /\ ctx["bar"].protection # None))
    => levels[cycle.trade_cycle_id] = effective_acknowledged_protection(cycle)
=============================================================================
