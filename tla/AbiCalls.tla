------------------------------ MODULE AbiCalls ------------------------------
(***************************************************************************)
(* The ABI clients of the runtime and what their callers make of an        *)
(* answer.  Each client sends one HTTP request, waits for a bounded time,  *)
(* never retries, and decodes the answer strictly.  StrategyInstance       *)
(* reduces an answer to "confirmed", "refused", "not ready" or "nothing    *)
(* usable"; this module keeps the wire: status codes, envelopes, echoed    *)
(* identities and values, answers made by somebody other than ABI, and     *)
(* requests that are executed although no usable answer came back.         *)
(*                                                                         *)
(* One instance, one call at a time: every caller holds its mutex.  A      *)
(* Value stands for a desired entry or for a protection; ABI may execute a *)
(* rounded one.                                                            *)
(***************************************************************************)
EXTENDS Naturals

CONSTANTS TradeCycleIds, Values, None

ASSUME NoneAssumption == None \notin TradeCycleIds /\ None \notin Values

VARIABLES
  cycle,   \* current_trade_cycle, or None
  marker,  \* the recovery marker: [kind, id], or None
  call,    \* the call under way: [kind, id, value, fate], or None
  reply,   \* the answer that reached the client, or None
  abi,     \* per trade cycle, what ABI holds
  late     \* APPLY requests whose client stopped waiting

vars == <<cycle, marker, call, reply, abi, late>>

Commands == {"apply", "cancel", "neutralize", "protect", "remainder", "close"}
Reads == {"lookup", "query"}

(* What ABI says in a body: a confirmation or reading, or an error code. *)
Confirmations == {"applied", "absent", "declined", "protected", "remainder_gone", "closed"}
Readings == {"live", "not_found", "position_open", "terminal_without_fill",
             "terminal_after_fill", "flat", "closure"}
ErrorCodes == {"execution_not_ready", "internal_error", "rejected"}
Statuses == {200, 422, 500, 502, 503}

(* strict: JSON content type, valid UTF-8 JSON without duplicate fields,   *)
(* and exactly the fields, with their types, of the body that code names.  *)
Replies ==
  [status : Statuses, strict : BOOLEAN, code : Confirmations \cup Readings \cup ErrorCodes,
   cycle : TradeCycleIds, value : Values \cup {None}]

Calls == [kind : Commands \cup Reads, id : TradeCycleIds, value : Values \cup {None},
          fate : {"pending", "executed", "refused"}]

Cycles == [id : TradeCycleIds, entry : Values, filled : BOOLEAN,
           protection : Values \cup {None}, entry_remainder_cancelled : BOOLEAN]

Markers == [kind : {"entry", "close"}, id : TradeCycleIds]

AbiCycles == [order : {"none", "live", "open", "cancelled", "ended"},
              entry : Values \cup {None}, rests : BOOLEAN, protection : Values \cup {None}]

(* Python's None is no record. *)
ASSUME RecordAssumption == None \notin Cycles \cup Markers \cup Calls \cup Replies

TypeOK ==
  /\ cycle \in Cycles \cup {None}
  /\ marker \in Markers \cup {None}
  /\ call \in Calls \cup {None}
  /\ reply \in Replies \cup {None}
  /\ reply # None => call # None
  /\ abi \in [TradeCycleIds -> AbiCycles]
  /\ late \subseteq [id : TradeCycleIds, value : Values]

Init ==
  /\ cycle = None
  /\ marker = None
  /\ call = None
  /\ reply = None
  /\ abi = [id \in TradeCycleIds |->
              [order |-> "none", entry |-> None, rests |-> FALSE, protection |-> None]]
  /\ late = {}

-----------------------------------------------------------------------------
(* The codecs: what a client returns or raises for an answer to call c. *)

(* Faulty variant: a 503 is "not ready" whoever made it. *)
AnyUnavailable(r) == r.status = 503

(* 503 means "did nothing" only in ABI's own envelope. *)
NotReady(r) == r.strict /\ r.status = 503 /\ r.code = "execution_not_ready"

(* Faulty variant: the echoed identity is not compared. *)
AnyEcho(c, r) == r.strict /\ r.status = 200

Echoes(c, r) == r.strict /\ r.status = 200 /\ r.cycle = c.id

(* A decline answers only a present desired entry. *)
decode_entry_package_response(c, r) ==
  CASE NotReady(r) -> "not_ready"
    [] Echoes(c, r) /\ r.code \in {"applied", "absent"} -> r.code
    [] Echoes(c, r) /\ r.code = "declined" /\ c.kind = "apply" -> "declined"
    [] OTHER -> "error"

(* Faulty variant: neither the identity nor the levels are compared. *)
decode_apply_protection_unmatched(c, r) ==
  IF r.strict /\ r.status = 200 /\ r.code = "protected" THEN "protected" ELSE "error"

decode_apply_protection_response(c, r) ==
  IF Echoes(c, r) /\ r.code = "protected" /\ r.value = c.value THEN "protected" ELSE "error"

decode_close_position_response(c, r) ==
  IF Echoes(c, r) /\ r.code = "closed" THEN "closed" ELSE "error"

decode_cancel_entry_remainder_response(c, r) ==
  IF Echoes(c, r) /\ r.code = "remainder_gone" THEN "remainder_gone" ELSE "error"

(* The recovery query carries no identity, only the state it reports. *)
decode_recovery_state_response(c, r) ==
  IF r.strict /\ r.status = 200 /\ r.code \in Readings \ {"flat", "closure"}
  THEN r.code ELSE "error"

(* Nor does the lookup; its closure names the cycle it ended, and          *)
(* apply_detected_trade_cycle_closure refuses one of another.  A body      *)
(* that mixes an open position with a closure is not one.                  *)
decode_open_position_response(c, r) ==
  CASE r.strict /\ r.status = 200 /\ r.code \in {"position_open", "flat"} -> r.code
    [] Echoes(c, r) /\ r.code = "closure" -> "closure"
    [] OTHER -> "error"

-----------------------------------------------------------------------------
(* Sending.  The marker of APPLY, CANCEL and CLOSE is saved first. *)

Sends(kind, id, value) ==
  call' = [kind |-> kind, id |-> id, value |-> value, fate |-> "pending"]

Idle == call = None

SendApply(id, entry) ==
  /\ Idle /\ cycle = None /\ marker = None
  /\ abi[id].order = "none" /\ \A r \in late : r.id # id
  /\ marker' = [kind |-> "entry", id |-> id]
  /\ Sends("apply", id, entry)
  /\ UNCHANGED <<cycle, reply, abi, late>>

SendCancel ==
  /\ Idle /\ cycle # None /\ marker = None
  /\ ~cycle.filled
  /\ marker' = [kind |-> "entry", id |-> cycle.id]
  /\ Sends("cancel", cycle.id, None)
  /\ UNCHANGED <<cycle, reply, abi, late>>

SendLookup ==
  /\ Idle /\ cycle # None /\ marker = None
  /\ Sends("lookup", cycle.id, None)
  /\ UNCHANGED <<cycle, marker, reply, abi, late>>

SendProtection(protection) ==
  /\ Idle /\ cycle # None /\ marker = None
  /\ cycle.filled
  /\ protection # cycle.protection
  /\ Sends("protect", cycle.id, protection)
  /\ UNCHANGED <<cycle, marker, reply, abi, late>>

SendRemainder ==
  /\ Idle /\ cycle # None /\ marker = None
  /\ cycle.filled /\ ~cycle.entry_remainder_cancelled
  /\ Sends("remainder", cycle.id, None)
  /\ UNCHANGED <<cycle, marker, reply, abi, late>>

SendClose ==
  /\ Idle /\ cycle # None /\ marker = None
  /\ cycle.filled
  /\ marker' = [kind |-> "close", id |-> cycle.id]
  /\ Sends("close", cycle.id, None)
  /\ UNCHANGED <<cycle, reply, abi, late>>

(* The resolver: the close again, or the recovery query. *)
SendRecovery ==
  /\ Idle /\ marker # None
  /\ Sends(IF marker.kind = "close" THEN "close" ELSE "query", marker.id, None)
  /\ UNCHANGED <<cycle, marker, reply, abi, late>>

-----------------------------------------------------------------------------
(* ABI and the network (external). *)

(* What the request does to the exchange; a value may be rounded. *)
Effect(c, old) ==
  CASE c.kind = "apply" /\ old.order = "none" ->
         {[old EXCEPT !.order = "live", !.entry = v, !.rests = TRUE] : v \in Values}
    [] c.kind \in {"cancel", "neutralize"} /\ old.order \in {"none", "live", "cancelled"} ->
         {[old EXCEPT !.order = "cancelled", !.rests = FALSE]}
    [] c.kind = "protect" /\ old.order = "open" ->
         {[old EXCEPT !.protection = v] : v \in Values}
    [] c.kind = "remainder" /\ old.order \in {"open", "ended"} ->
         {[old EXCEPT !.rests = FALSE]}
    [] c.kind = "close" /\ old.order \in {"open", "ended"} ->
         {[old EXCEPT !.order = "ended", !.rests = FALSE]}
    [] OTHER -> {}

Executes ==
  /\ call # None /\ call.fate = "pending"
  /\ \E new \in Effect(call, abi[call.id]) : abi' = [abi EXCEPT ![call.id] = new]
  /\ call' = [call EXCEPT !.fate = "executed"]
  /\ UNCHANGED <<cycle, marker, reply, late>>

(* A refusal is final: this request will not be executed. *)
Refuses ==
  /\ call # None /\ call.fate = "pending"
  /\ call' = [call EXCEPT !.fate = "refused"]
  /\ UNCHANGED <<cycle, marker, reply, abi, late>>

(* The only answers that mean something, and what they mean. *)
Truthful(c, a) ==
  LET answer(status, code, value) ==
        [status |-> status, strict |-> TRUE, code |-> code, cycle |-> c.id, value |-> value]
      confirmed == [apply |-> answer(200, "applied", a.entry),
                    cancel |-> answer(200, "absent", None),
                    neutralize |-> answer(200, "absent", None),
                    protect |-> answer(200, "protected", a.protection),
                    remainder |-> answer(200, "remainder_gone", None),
                    close |-> answer(200, "closed", None)]
      recovery == [none |-> answer(200, "not_found", None),
                   live |-> answer(200, "live", a.entry),
                   open |-> answer(200, "position_open", a.entry),
                   cancelled |-> answer(200, "terminal_without_fill", None),
                   ended |-> answer(200, "terminal_after_fill", None)]
  IN CASE c.fate = "executed" -> {confirmed[c.kind]}
       [] c.fate = "refused" ->
            {answer(503, "execution_not_ready", None)}
              \cup {answer(200, "declined", None) : k \in {c.kind} \cap {"apply"}}
       [] c.fate = "pending" /\ c.kind = "query" -> {recovery[a.order]}
       [] c.fate = "pending" /\ c.kind = "lookup" ->
            IF a.order = "open" THEN {answer(200, "position_open", None)}
            ELSE {answer(200, "flat", None)}
                   \cup {answer(200, "closure", None) : k \in {a.order} \cap {"ended"}}
       [] OTHER -> {}

(***************************************************************************)
(* Answers that prove nothing, whether or not the request was executed: a  *)
(* page made by a gateway, ABI's own failure, a rejection, a code under    *)
(* another status, a confirmation that names another cycle.                *)
(***************************************************************************)
Meaningless(c) ==
  {[status |-> status, strict |-> FALSE, code |-> "internal_error", cycle |-> c.id,
    value |-> None] : status \in Statuses}
  \cup
  {[status |-> status, strict |-> TRUE, code |-> code, cycle |-> c.id, value |-> None] :
     status \in Statuses \ {200, 503}, code \in ErrorCodes \cup {"absent"}}
  \cup
  {[status |-> 503, strict |-> TRUE, code |-> "internal_error", cycle |-> c.id, value |-> None]}
  \cup
  {[status |-> 200, strict |-> TRUE, code |-> code, cycle |-> other, value |-> value] :
     code \in Confirmations, other \in TradeCycleIds \ {c.id}, value \in Values}

Answers ==
  /\ call # None /\ reply = None
  /\ reply' \in Truthful(call, abi[call.id]) \cup Meaningless(call)
  /\ UNCHANGED <<cycle, marker, call, abi, late>>

Fills(id) ==
  /\ abi[id].order = "live"
  /\ \E rests \in BOOLEAN : abi' = [abi EXCEPT ![id].order = "open", ![id].rests = rests]
  /\ UNCHANGED <<cycle, marker, call, reply, late>>

(* On its own, or by a CANCEL whose client stopped waiting. *)
Dies(id) ==
  /\ abi[id].order = "live"
  /\ abi' = [abi EXCEPT ![id].order = "cancelled", ![id].rests = FALSE]
  /\ UNCHANGED <<cycle, marker, call, reply, late>>

Ends(id) ==
  /\ abi[id].order = "open"
  /\ abi' = [abi EXCEPT ![id].order = "ended", ![id].rests = FALSE]
  /\ UNCHANGED <<cycle, marker, call, reply, late>>

LateArrives(r) ==
  /\ abi[r.id].order = "none"
  /\ \E new \in Effect([kind |-> "apply"], abi[r.id]) : abi' = [abi EXCEPT ![r.id] = new]
  /\ late' = late \ {r}
  /\ UNCHANGED <<cycle, marker, call, reply>>

-----------------------------------------------------------------------------
(* Receiving. *)

Done == call' = None /\ reply' = None

Abandoned ==
  IF call.kind = "apply" /\ call.fate = "pending"
  THEN late \cup {[id |-> call.id, value |-> call.value]} ELSE late

(* The client gave up, or the transport failed: the caller raises, and     *)
(* every marker stays.  Of the requests still on their way only an APPLY   *)
(* can create something; the others are executed now or never.             *)
NoAnswer ==
  /\ call # None /\ reply = None
  /\ Done
  /\ late' = Abandoned
  /\ UNCHANGED <<cycle, marker, abi>>

(* An answer the caller learns nothing from, for whatever reason. *)
Fails ==
  /\ Done
  /\ late' = Abandoned
  /\ UNCHANGED <<cycle, marker, abi>>

NewCycle(id, entry, filled) ==
  [id |-> id, entry |-> entry, filled |-> filled, protection |-> None,
   entry_remainder_cancelled |-> FALSE]

Becomes(new_cycle, new_marker) ==
  /\ Done
  /\ cycle' = new_cycle
  /\ marker' = new_marker
  /\ late' = Abandoned
  /\ UNCHANGED abi

(* _execute_one for APPLY: a confirmation of another entry raises. *)
ApplyAnswered ==
  LET outcome == decode_entry_package_response(call, reply) IN
  /\ call # None /\ reply # None /\ call.kind = "apply"
  /\ CASE outcome = "applied" /\ reply.value = call.value ->
            Becomes(NewCycle(call.id, reply.value, FALSE), None)
       [] outcome \in {"declined", "not_ready"} -> Becomes(cycle, None)
       [] OTHER -> Fails

(* _execute_one for CANCEL: not ready takes only the marker back. *)
CancelAnswered ==
  LET outcome == decode_entry_package_response(call, reply) IN
  /\ call # None /\ reply # None /\ call.kind = "cancel"
  /\ CASE outcome = "absent" -> Becomes(None, None)
       [] outcome = "not_ready" -> Becomes(cycle, None)
       [] OTHER -> Fails

(* The resolver's corrective CANCEL trusts only the exact absence. *)
NeutralizeAnswered ==
  /\ call # None /\ reply # None /\ call.kind = "neutralize"
  /\ IF decode_entry_package_response(call, reply) = "absent"
     THEN Becomes(None, None) ELSE Fails

ProtectionAnswered ==
  /\ call # None /\ reply # None /\ call.kind = "protect"
  /\ IF decode_apply_protection_response(call, reply) = "protected"
     THEN Becomes([cycle EXCEPT !.protection = reply.value], marker) ELSE Fails

RemainderAnswered ==
  /\ call # None /\ reply # None /\ call.kind = "remainder"
  /\ IF decode_cancel_entry_remainder_response(call, reply) = "remainder_gone"
     THEN Becomes([cycle EXCEPT !.entry_remainder_cancelled = TRUE], marker) ELSE Fails

(* Unlike an entry command, a close that ABI was not ready for keeps its   *)
(* marker: the resolver sends it again.                                    *)
CloseAnswered ==
  /\ call # None /\ reply # None /\ call.kind = "close"
  /\ IF decode_close_position_response(call, reply) = "closed"
     THEN Becomes(None, None) ELSE Fails

LookupAnswered ==
  LET outcome == decode_open_position_response(call, reply) IN
  /\ call # None /\ reply # None /\ call.kind = "lookup"
  /\ CASE outcome = "position_open" -> Becomes([cycle EXCEPT !.filled = TRUE], marker)
       [] outcome = "closure" -> Becomes(None, None)
       [] OTHER -> Fails

(* attempt: _resolve_uncertain_apply without a cycle, else                 *)
(* _resolve_uncertain_removal.                                             *)
QueryAnswered ==
  LET outcome == decode_recovery_state_response(call, reply)
      adopting == cycle = None
  IN
  /\ call # None /\ reply # None /\ call.kind = "query"
  /\ CASE outcome \in {"terminal_without_fill", "terminal_after_fill"} -> Becomes(None, None)
       [] outcome = "position_open" ->
            Becomes(IF adopting THEN NewCycle(call.id, reply.value, TRUE) ELSE cycle, None)
       [] outcome = "live" /\ adopting ->
            Becomes(NewCycle(call.id, reply.value, FALSE), None)
       [] outcome = (IF adopting THEN "not_found" ELSE "live") ->
            /\ Sends("neutralize", call.id, None)
            /\ reply' = None
            /\ UNCHANGED <<cycle, marker, abi, late>>
       [] OTHER -> Fails

-----------------------------------------------------------------------------
Client ==
  \/ \E id \in TradeCycleIds, entry \in Values : SendApply(id, entry)
  \/ \E protection \in Values : SendProtection(protection)
  \/ SendCancel \/ SendLookup \/ SendRemainder \/ SendClose \/ SendRecovery
  \/ ApplyAnswered \/ CancelAnswered \/ NeutralizeAnswered \/ ProtectionAnswered
  \/ RemainderAnswered \/ CloseAnswered \/ LookupAnswered \/ QueryAnswered
  \/ NoAnswer

Abi ==
  \/ Executes \/ Refuses \/ Answers
  \/ \E id \in TradeCycleIds : Fills(id) \/ Dies(id) \/ Ends(id)
  \/ \E r \in late : LateArrives(r)

Next == Client \/ Abi

Spec == Init /\ [][Next]_vars

-----------------------------------------------------------------------------
(* An order or a position that exists, or that a request still under way   *)
(* may create.                                                             *)
Exposed(id) ==
  \/ abi[id].order \in {"live", "open"}
  \/ abi[id].order = "none" /\ \E r \in late : r.id = id
  \/ call # None /\ call.kind = "apply" /\ call.id = id /\ call.fate = "pending"

(* Whatever comes back - a gateway's 503 page, an internal error after the *)
(* order was placed, a confirmation of another cycle, nothing at all - no  *)
(* caller gives up the identity of something that exists or may still come *)
(* to exist: the state or its marker goes on naming it.                    *)
NothingForgotten ==
  \A id \in TradeCycleIds :
    Exposed(id) => \/ cycle # None /\ cycle.id = id
                   \/ marker # None /\ marker.id = id

(* What the state takes for confirmed happened on the exchange: the entry  *)
(* it holds is the one placed, a fill is a fill, and a remainder marked as *)
(* cancelled does not rest.                                                *)
ConfirmedIsReal ==
  cycle # None =>
    /\ abi[cycle.id].order # "none"
    /\ abi[cycle.id].entry = cycle.entry
    /\ cycle.filled => abi[cycle.id].order \in {"open", "ended"}
    /\ cycle.entry_remainder_cancelled => ~abi[cycle.id].rests

(* latest_confirmed_management_protection takes a new value only when that *)
(* protection is the one in force for this position.                       *)
ProtectionProved ==
  [][(cycle # None /\ cycle' # None /\ cycle'.protection # cycle.protection)
       => abi[cycle.id].protection = cycle'.protection]_vars
=============================================================================
