---------------------------- MODULE AbiCallsProofs ----------------------------
(***************************************************************************)
(* Proofs about AbiCalls: whatever comes back from ABI, or does not, no    *)
(* caller forgets an order or a position that exists or may still come to  *)
(* exist, and what the state takes for confirmed is so, for every set of   *)
(* trade cycles and values.                                                *)
(***************************************************************************)
EXTENDS AbiCalls, TLAPS

-----------------------------------------------------------------------------
(* The invariant, in parts. *)

(* An order that was placed has the entry it was placed with. *)
EntryKnown(a) == a.order \in {"live", "open", "ended"} => a.entry \in Values

(* The state and its marker name one trade cycle. *)
NamesAgree == cycle # None /\ marker # None => cycle.id = marker.id

(* A call concerns the cycle or the marker it was made for. *)
CallInv ==
  call # None =>
    /\ call.kind = "apply" => cycle = None /\ call.value \in Values
    /\ call.kind \in {"apply", "cancel", "neutralize", "query", "close"} =>
         marker # None /\ marker.id = call.id
    /\ call.kind \in {"cancel", "lookup", "protect", "remainder"} =>
         cycle # None /\ cycle.id = call.id
    /\ call.kind = "remainder" => cycle.filled

(* What is known of the exchange from what became of the request. *)
FateInv ==
  call # None =>
    LET a == abi[call.id] IN
    /\ call.fate = "executed" =>
         /\ call.kind \in Commands
         /\ call.kind = "apply" => a.order # "none"
         /\ call.kind \in {"cancel", "neutralize"} => a.order = "cancelled"
         /\ call.kind = "remainder" => a.order \in {"open", "ended"} /\ ~a.rests
         /\ call.kind = "close" => a.order = "ended"
    /\ call.fate # "executed" /\ call.kind = "apply" =>
         a.order = "none" /\ \A r \in late : r.id # call.id

(* An answer that decodes is true, and stays so until it is acted on. *)
ReplyInv ==
  reply # None =>
    LET a == abi[call.id] IN
    /\ call # None
    /\ Echoes(call, reply) /\ reply.code = "applied" /\ call.kind = "apply" =>
         call.fate = "executed" /\ a.entry = reply.value
    /\ call.kind = "apply" /\ (NotReady(reply) \/ (Echoes(call, reply) /\ reply.code = "declined")) =>
         call.fate = "refused"
    /\ Echoes(call, reply) /\ reply.code = "absent" /\ call.kind \in {"cancel", "neutralize"} =>
         call.fate = "executed"
    /\ Echoes(call, reply) /\ reply.code = "protected" /\ call.kind = "protect" =>
         call.fate = "executed" /\ a.protection = reply.value
    /\ Echoes(call, reply) /\ reply.code = "remainder_gone" /\ call.kind = "remainder" =>
         call.fate = "executed"
    /\ Echoes(call, reply) /\ reply.code = "closed" /\ call.kind = "close" =>
         call.fate = "executed"
    /\ reply.strict /\ reply.status = 200 /\ reply.code \in Readings =>
         /\ reply.code = "live" => a.order # "none" /\ a.entry = reply.value /\ reply.value \in Values
         /\ reply.code = "position_open" => a.order \in {"open", "ended"}
         /\ reply.code = "position_open" /\ call.kind = "query" =>
              a.entry = reply.value /\ reply.value \in Values
         /\ reply.code = "terminal_without_fill" => a.order = "cancelled"
         /\ reply.code \in {"terminal_after_fill", "closure"} => a.order = "ended"

RemainderOfFilled == cycle # None /\ cycle.entry_remainder_cancelled => cycle.filled

AbiInv ==
  /\ TypeOK
  /\ \A id \in TradeCycleIds : EntryKnown(abi[id])
  /\ NamesAgree
  /\ CallInv
  /\ FateInv
  /\ ReplyInv
  /\ RemainderOfFilled
  /\ ConfirmedIsReal
  /\ NothingForgotten

(* The identities the state still has. *)
Named(id) ==
  \/ cycle # None /\ cycle.id = id
  \/ marker # None /\ marker.id = id

-----------------------------------------------------------------------------
(* The exchange. *)

(* How ABI's record of a cycle may change: what was placed, filled, ended  *)
(* or cancelled remains so, and a remainder that is gone stays away.       *)
Onward(a, b) ==
  /\ a.order # "none" => b.order # "none" /\ b.entry = a.entry
  /\ a.order \in {"open", "ended"} => b.order \in {"open", "ended"} /\ (~a.rests => ~b.rests)
  /\ a.order = "ended" => b.order = "ended"
  /\ a.order = "cancelled" => b.order = "cancelled"
  /\ EntryKnown(a) => EntryKnown(b)

(* What a request can do, by its kind. *)
LEMMA EffectKinds ==
  ASSUME NEW c, NEW old \in AbiCycles, NEW new \in Effect(c, old)
  PROVE  /\ new \in AbiCycles
         /\ Onward(old, new)
         /\ c.kind \in Commands
         /\ c.kind # "protect" => new.protection = old.protection
         /\ c.kind = "apply" => old.order = "none" /\ new.order = "live"
         /\ c.kind \in {"cancel", "neutralize"} => new.order = "cancelled"
         /\ c.kind = "remainder" => new.order = old.order /\ new.order \in {"open", "ended"} /\ ~new.rests
         /\ c.kind = "close" => new.order = "ended"
         /\ c.kind = "protect" => new.order = old.order /\ new.order = "open"
<1> USE DEF Effect, AbiCycles, Onward, EntryKnown, Commands
<1>1. CASE c.kind = "apply"
  <2>1. old.order = "none"
    BY <1>1
  <2>2. PICK v \in Values : new = [old EXCEPT !.order = "live", !.entry = v, !.rests = TRUE]
    BY <1>1, <2>1
  <2> QED
    BY <1>1, <2>1, <2>2
<1>2. CASE c.kind \in {"cancel", "neutralize"}
  BY <1>2
<1>3. CASE c.kind = "protect"
  BY <1>3
<1>4. CASE c.kind = "remainder"
  BY <1>4
<1>5. CASE c.kind = "close"
  BY <1>5
<1>6. CASE c.kind \notin Commands
  BY <1>6
<1> QED
  BY <1>1, <1>2, <1>3, <1>4, <1>5, <1>6

(* A record that does not change goes onward. *)
LEMMA OnwardSame == \A a : Onward(a, a)
BY DEF Onward

(* What the state takes for confirmed stays confirmed. *)
LEMMA ConfirmedKept ==
  ASSUME AbiInv, UNCHANGED cycle,
         \A id \in TradeCycleIds : Onward(abi[id], abi'[id])
  PROVE  ConfirmedIsReal' /\ RemainderOfFilled'
<1> SUFFICES ASSUME cycle # None PROVE ConfirmedIsReal'
  BY DEF AbiInv, RemainderOfFilled, ConfirmedIsReal
<1>1. cycle \in Cycles /\ cycle.id \in TradeCycleIds
  BY DEF AbiInv, TypeOK, Cycles
<1>2. Onward(abi[cycle.id], abi'[cycle.id])
  BY <1>1
<1> QED
  BY <1>2 DEF AbiInv, ConfirmedIsReal, RemainderOfFilled, Onward

(* Steps of the exchange that are not ABI's own doing. *)
LEMMA WorldMoves ==
  ASSUME AbiInv, UNCHANGED <<cycle, marker, call, reply>>,
         abi' \in [TradeCycleIds -> AbiCycles],
         \A id \in TradeCycleIds : Onward(abi[id], abi'[id]) /\ abi'[id].protection = abi[id].protection,
         late' \subseteq late,
         call # None /\ call.kind = "apply" /\ call.fate # "executed" => abi'[call.id] = abi[call.id],
         \A id \in TradeCycleIds : Exposed(id)' => Exposed(id)
  PROVE  AbiInv'
<1>1. TypeOK'
  BY DEF AbiInv, TypeOK
<1>2. \A id \in TradeCycleIds : EntryKnown(abi'[id])
  BY DEF AbiInv, Onward
<1>3. ConfirmedIsReal' /\ RemainderOfFilled'
  BY ConfirmedKept
<1>4. NothingForgotten'
  BY DEF AbiInv, NothingForgotten
<1>5. NamesAgree' /\ CallInv'
  BY DEF AbiInv, NamesAgree, CallInv
<1>6. call # None => call.id \in TradeCycleIds
  BY DEF AbiInv, TypeOK, Calls
<1>7. FateInv'
  BY <1>6 DEF AbiInv, FateInv, Onward
<1>8. ReplyInv'
  <2> SUFFICES ASSUME reply # None PROVE ReplyInv'
    BY DEF ReplyInv
  <2>1. call # None /\ call.id \in TradeCycleIds
    BY <1>6 DEF AbiInv, ReplyInv
  <2>2. Onward(abi[call.id], abi'[call.id]) /\ abi'[call.id].protection = abi[call.id].protection
    BY <2>1
  <2>3. call.kind = "apply" /\ call.fate = "executed" => abi[call.id].order # "none"
    BY <2>1 DEF AbiInv, FateInv
  <2>4. (Echoes(call, reply) <=> Echoes(call, reply)') /\ (NotReady(reply) <=> NotReady(reply)')
    BY DEF Echoes, NotReady
  <2> QED
    BY <2>1, <2>2, <2>3, <2>4 DEF AbiInv, ReplyInv, Onward
<1> QED
  BY <1>1, <1>2, <1>3, <1>4, <1>5, <1>7, <1>8 DEF AbiInv

(* Fills, deaths, ends and late arrivals. *)
LEMMA WorldKeeps ==
  ASSUME AbiInv,
         \/ \E id \in TradeCycleIds : Fills(id) \/ Dies(id) \/ Ends(id)
         \/ \E r \in late : LateArrives(r)
  PROVE  AbiInv'
<1>1. abi \in [TradeCycleIds -> AbiCycles]
  BY DEF AbiInv, TypeOK
<1>2. ASSUME NEW id \in TradeCycleIds, Fills(id) \/ Dies(id) \/ Ends(id)
      PROVE  AbiInv'
  <2>1. /\ UNCHANGED <<cycle, marker, call, reply, late>>
        /\ abi[id].order \in {"live", "open"}
        /\ \A o \in TradeCycleIds : o # id => abi'[o] = abi[o]
        /\ abi' \in [TradeCycleIds -> AbiCycles]
        /\ Onward(abi[id], abi'[id]) /\ abi'[id].protection = abi[id].protection
    <3>1. CASE Fills(id)
      BY <1>1, <3>1 DEF Fills, AbiCycles, Onward, EntryKnown
    <3>2. CASE Dies(id)
      BY <1>1, <3>2 DEF Dies, AbiCycles, Onward, EntryKnown
    <3>3. CASE Ends(id)
      BY <1>1, <3>3 DEF Ends, AbiCycles, Onward, EntryKnown
    <3> QED
      BY <1>2, <3>1, <3>2, <3>3
  <2>2. \A o \in TradeCycleIds : Onward(abi[o], abi'[o]) /\ abi'[o].protection = abi[o].protection
    BY <2>1, OnwardSame
  <2>3. call # None /\ call.kind = "apply" /\ call.fate # "executed" => abi'[call.id] = abi[call.id]
    <3>1. call # None => call.id \in TradeCycleIds
      BY DEF AbiInv, TypeOK, Calls
    <3> QED
      BY <2>1, <3>1 DEF AbiInv, FateInv
  <2>4. \A o \in TradeCycleIds : Exposed(o)' => Exposed(o)
    BY <2>1 DEF Exposed
  <2> QED
    BY <2>1, <2>2, <2>3, <2>4, WorldMoves
<1>3. ASSUME NEW r \in late, LateArrives(r)
      PROVE  AbiInv'
  <2>1. r.id \in TradeCycleIds
    BY DEF AbiInv, TypeOK
  <2>2. PICK new \in Effect([kind |-> "apply"], abi[r.id]) : abi' = [abi EXCEPT ![r.id] = new]
    BY <1>3 DEF LateArrives
  <2>3. /\ UNCHANGED <<cycle, marker, call, reply>> /\ late' \subseteq late
        /\ abi[r.id].order = "none"
    BY <1>3 DEF LateArrives
  <2>4. abi[r.id] \in AbiCycles
    BY <1>1, <2>1
  <2>5. new \in AbiCycles /\ Onward(abi[r.id], new) /\ new.protection = abi[r.id].protection
    BY <2>4, EffectKinds
  <2>6. /\ abi' \in [TradeCycleIds -> AbiCycles] /\ abi'[r.id] = new
        /\ \A o \in TradeCycleIds : o # r.id => abi'[o] = abi[o]
    BY <1>1, <2>1, <2>2, <2>5
  <2>7. \A o \in TradeCycleIds : Onward(abi[o], abi'[o]) /\ abi'[o].protection = abi[o].protection
    BY <2>5, <2>6, OnwardSame
  <2>8. call # None /\ call.kind = "apply" /\ call.fate # "executed" => abi'[call.id] = abi[call.id]
    <3>1. call # None => call.id \in TradeCycleIds
      BY DEF AbiInv, TypeOK, Calls
    <3> QED
      BY <2>6, <3>1 DEF AbiInv, FateInv
  <2>9. \A o \in TradeCycleIds : Exposed(o)' => Exposed(o)
    BY <2>3, <2>6 DEF Exposed
  <2> QED
    BY <2>3, <2>6, <2>7, <2>8, <2>9, WorldMoves
<1> QED
  BY <1>2, <1>3

(* A call that has an answer keeps it while its fate is decided. *)
LEMMA FateDecided ==
  ASSUME AbiInv, call # None, call.fate = "pending",
         NEW fate \in {"executed", "refused"}, call' = [call EXCEPT !.fate = fate]
  PROVE  /\ call' \in Calls /\ call' # None /\ call.id \in TradeCycleIds
         /\ call'.kind = call.kind /\ call'.id = call.id /\ call'.value = call.value
         /\ call'.fate = fate
BY RecordAssumption DEF AbiInv, TypeOK, Calls

(* ABI executes the request. *)
LEMMA ExecutesKeeps ==
  ASSUME AbiInv, Executes
  PROVE  AbiInv'
<1>1. /\ call # None /\ call.fate = "pending" /\ call' = [call EXCEPT !.fate = "executed"]
      /\ UNCHANGED <<cycle, marker, reply, late>>
  BY DEF Executes
<1>2. /\ call' \in Calls /\ call' # None /\ call.id \in TradeCycleIds
      /\ call'.kind = call.kind /\ call'.id = call.id /\ call'.value = call.value
      /\ call'.fate = "executed"
  BY <1>1, FateDecided
<1>3. PICK new \in Effect(call, abi[call.id]) : abi' = [abi EXCEPT ![call.id] = new]
  BY DEF Executes
<1>4. abi \in [TradeCycleIds -> AbiCycles] /\ abi[call.id] \in AbiCycles
  BY <1>2 DEF AbiInv, TypeOK
<1>5. /\ new \in AbiCycles
      /\ Onward(abi[call.id], new)
      /\ call.kind \in Commands
      /\ call.kind # "protect" => new.protection = abi[call.id].protection
      /\ call.kind = "apply" => abi[call.id].order = "none" /\ new.order = "live"
      /\ call.kind \in {"cancel", "neutralize"} => new.order = "cancelled"
      /\ call.kind = "remainder" =>
           new.order = abi[call.id].order /\ new.order \in {"open", "ended"} /\ ~new.rests
      /\ call.kind = "close" => new.order = "ended"
      /\ call.kind = "protect" => new.order = abi[call.id].order /\ new.order = "open"
  BY <1>4, EffectKinds
<1>6. /\ abi' \in [TradeCycleIds -> AbiCycles] /\ abi'[call.id] = new
      /\ \A o \in TradeCycleIds : o # call.id => abi'[o] = abi[o]
  BY <1>2, <1>3, <1>4, <1>5
<1>7. \A o \in TradeCycleIds : Onward(abi[o], abi'[o])
  BY <1>5, <1>6, OnwardSame
<1>8. TypeOK'
  BY <1>1, <1>2, <1>6 DEF AbiInv, TypeOK
<1>9. \A id \in TradeCycleIds : EntryKnown(abi'[id])
  BY <1>7 DEF AbiInv, Onward
<1>10. ConfirmedIsReal' /\ RemainderOfFilled'
  BY <1>1, <1>7, ConfirmedKept
<1>11. NamesAgree' /\ CallInv'
  BY <1>1, <1>2 DEF AbiInv, NamesAgree, CallInv
<1>12. FateInv'
  BY <1>2, <1>5, <1>6 DEF FateInv
<1>13. ReplyInv'
  <2> SUFFICES ASSUME reply # None PROVE ReplyInv'
    BY <1>1 DEF ReplyInv
  <2>1. /\ Echoes(call, reply)' <=> Echoes(call, reply)
        /\ NotReady(reply)' <=> NotReady(reply)
        /\ reply' = reply
    BY <1>1, <1>2 DEF Echoes, NotReady
  <2>2. Onward(abi[call.id], abi'[call.id])
    BY <1>2, <1>7
  <2> QED
    BY <1>1, <1>2, <1>5, <1>6, <2>1, <2>2 DEF AbiInv, ReplyInv, Onward
<1>14. NothingForgotten'
  <2> SUFFICES ASSUME NEW id \in TradeCycleIds, Exposed(id)' PROVE Named(id)
    BY <1>1 DEF NothingForgotten, Named
  <2>1. Exposed(id)
    <3>1. CASE id = call.id
      BY <1>1, <1>2, <1>5, <1>6, <3>1 DEF Exposed, Onward, AbiCycles, Commands
    <3>2. CASE id # call.id
      BY <1>1, <1>2, <1>6, <3>2 DEF Exposed
    <3> QED
      BY <3>1, <3>2
  <2> QED
    BY <2>1 DEF AbiInv, NothingForgotten, Named
<1> QED
  BY <1>8, <1>9, <1>10, <1>11, <1>12, <1>13, <1>14 DEF AbiInv

(* ABI refuses the request for good. *)
LEMMA RefusesKeeps ==
  ASSUME AbiInv, Refuses
  PROVE  AbiInv'
<1>1. /\ call # None /\ call.fate = "pending" /\ call' = [call EXCEPT !.fate = "refused"]
      /\ UNCHANGED <<cycle, marker, reply, abi, late>>
  BY DEF Refuses
<1>2. /\ call' \in Calls /\ call' # None /\ call.id \in TradeCycleIds
      /\ call'.kind = call.kind /\ call'.id = call.id /\ call'.value = call.value
      /\ call'.fate = "refused"
  BY <1>1, FateDecided
<1>3. TypeOK'
  BY <1>1, <1>2 DEF AbiInv, TypeOK
<1>4. ReplyInv'
  <2> SUFFICES ASSUME reply # None PROVE ReplyInv'
    BY <1>1 DEF ReplyInv
  <2>1. /\ Echoes(call, reply)' <=> Echoes(call, reply)
        /\ NotReady(reply)' <=> NotReady(reply)
        /\ reply' = reply
    BY <1>1, <1>2 DEF Echoes, NotReady
  <2> QED
    BY <1>1, <1>2, <2>1 DEF AbiInv, ReplyInv
<1>5. FateInv' /\ CallInv' /\ NamesAgree'
  BY <1>1, <1>2 DEF AbiInv, FateInv, CallInv, NamesAgree
<1>6. NothingForgotten'
  BY <1>1, <1>2 DEF AbiInv, NothingForgotten, Exposed
<1> QED
  BY <1>1, <1>3, <1>4, <1>5, <1>6 DEF AbiInv, ConfirmedIsReal, RemainderOfFilled

(* An answer in ABI's own envelope. *)
Says(c, status, code, value) ==
  [status |-> status, strict |-> TRUE, code |-> code, cycle |-> c.id, value |-> value]

(* Such an answer is a reply, and says what it was made to say. *)
LEMMA SaysWhat ==
  ASSUME NEW c \in Calls, NEW status \in Statuses,
         NEW code \in Confirmations \cup Readings \cup ErrorCodes, NEW value \in Values \cup {None}
  PROVE  /\ Says(c, status, code, value) \in Replies
         /\ Says(c, status, code, value).strict
         /\ Says(c, status, code, value).status = status
         /\ Says(c, status, code, value).code = code
         /\ Says(c, status, code, value).cycle = c.id
         /\ Says(c, status, code, value).value = value
BY DEF Says, Replies, Calls

(* No caller learns anything from a meaningless answer. *)
LEMMA MeaninglessSaysNothing ==
  ASSUME NEW c \in Calls, NEW r \in Meaningless(c)
  PROVE  /\ r \in Replies
         /\ ~NotReady(r)
         /\ ~Echoes(c, r)
         /\ ~(r.strict /\ r.status = 200 /\ r.code \in Readings)
<1> USE DEF Replies, Calls, NotReady, Echoes, Readings, Confirmations, ErrorCodes, Statuses
<1>1. ASSUME NEW status \in Statuses,
             r = [status |-> status, strict |-> FALSE, code |-> "internal_error",
                  cycle |-> c.id, value |-> None]
      PROVE  /\ r \in Replies /\ ~NotReady(r) /\ ~Echoes(c, r)
             /\ ~(r.strict /\ r.status = 200 /\ r.code \in Readings)
  BY <1>1
<1>2. ASSUME NEW status \in Statuses \ {200, 503}, NEW code \in ErrorCodes \cup {"absent"},
             r = [status |-> status, strict |-> TRUE, code |-> code, cycle |-> c.id, value |-> None]
      PROVE  /\ r \in Replies /\ ~NotReady(r) /\ ~Echoes(c, r)
             /\ ~(r.strict /\ r.status = 200 /\ r.code \in Readings)
  BY <1>2
<1>3. ASSUME r = [status |-> 503, strict |-> TRUE, code |-> "internal_error", cycle |-> c.id,
                  value |-> None]
      PROVE  /\ r \in Replies /\ ~NotReady(r) /\ ~Echoes(c, r)
             /\ ~(r.strict /\ r.status = 200 /\ r.code \in Readings)
  BY <1>3
<1>4. ASSUME NEW code \in Confirmations, NEW other \in TradeCycleIds \ {c.id}, NEW value \in Values,
             r = [status |-> 200, strict |-> TRUE, code |-> code, cycle |-> other, value |-> value]
      PROVE  /\ r \in Replies /\ ~NotReady(r) /\ ~Echoes(c, r)
             /\ ~(r.strict /\ r.status = 200 /\ r.code \in Readings)
  BY <1>4
<1> HIDE DEF Replies, Calls, NotReady, Echoes, Readings, Confirmations, ErrorCodes, Statuses
<1> QED
  BY <1>1, <1>2, <1>3, <1>4 DEF Meaningless

(* The truthful answers, by what became of the request and by its kind. *)
LEMMA TruthfulShape ==
  ASSUME NEW c \in Calls, c.fate = "executed" => c.kind \in Commands,
         NEW a \in AbiCycles, NEW r \in Truthful(c, a)
  PROVE  \/ c.fate = "executed" /\ c.kind = "apply" /\ r = Says(c, 200, "applied", a.entry)
         \/ c.fate = "executed" /\ c.kind \in {"cancel", "neutralize"} /\ r = Says(c, 200, "absent", None)
         \/ c.fate = "executed" /\ c.kind = "protect" /\ r = Says(c, 200, "protected", a.protection)
         \/ c.fate = "executed" /\ c.kind = "remainder" /\ r = Says(c, 200, "remainder_gone", None)
         \/ c.fate = "executed" /\ c.kind = "close" /\ r = Says(c, 200, "closed", None)
         \/ c.fate = "refused" /\ r = Says(c, 503, "execution_not_ready", None)
         \/ c.fate = "refused" /\ r = Says(c, 200, "declined", None)
         \/ c.kind = "query" /\ a.order = "none" /\ r = Says(c, 200, "not_found", None)
         \/ c.kind = "query" /\ a.order = "live" /\ r = Says(c, 200, "live", a.entry)
         \/ c.kind = "query" /\ a.order = "open" /\ r = Says(c, 200, "position_open", a.entry)
         \/ c.kind = "query" /\ a.order = "cancelled" /\ r = Says(c, 200, "terminal_without_fill", None)
         \/ c.kind = "query" /\ a.order = "ended" /\ r = Says(c, 200, "terminal_after_fill", None)
         \/ c.kind = "lookup" /\ a.order = "open" /\ r = Says(c, 200, "position_open", None)
         \/ c.kind = "lookup" /\ r = Says(c, 200, "flat", None)
         \/ c.kind = "lookup" /\ a.order = "ended" /\ r = Says(c, 200, "closure", None)
<1>1. c.fate \in {"executed", "refused", "pending"}
  BY DEF Calls
<1>2. CASE c.fate = "executed"
  <2> c.kind \in {"apply", "cancel", "neutralize", "protect", "remainder", "close"}
    BY <1>2 DEF Commands
  <2> QED
    BY <1>2 DEF Truthful, Says
<1>3. CASE c.fate = "refused"
  BY <1>3 DEF Truthful, Says
<1>4. CASE c.fate = "pending" /\ c.kind = "query"
  <2> a.order \in {"none", "live", "open", "cancelled", "ended"}
    BY DEF AbiCycles
  <2> QED
    BY <1>4 DEF Truthful, Says
<1>5. CASE c.fate = "pending" /\ c.kind = "lookup"
  BY <1>5 DEF Truthful, Says
<1>6. CASE c.fate = "pending" /\ c.kind \notin {"query", "lookup"}
  BY <1>6 DEF Truthful
<1> QED
  BY <1>1, <1>2, <1>3, <1>4, <1>5, <1>6

(* What a truthful answer lets a caller conclude. *)
LEMMA TruthfulCases ==
  ASSUME NEW c \in Calls, c.fate = "executed" => c.kind \in Commands,
         NEW a \in AbiCycles, NEW r \in Truthful(c, a)
  PROVE  /\ r \in Replies
         /\ NotReady(r) => c.fate = "refused"
         /\ r.code = "applied" => c.kind = "apply" /\ c.fate = "executed" /\ r.value = a.entry
         /\ r.code = "declined" => c.fate = "refused"
         /\ r.code \in {"absent", "remainder_gone", "closed"} => c.fate = "executed"
         /\ r.code = "protected" => c.fate = "executed" /\ r.value = a.protection
         /\ r.code = "live" => a.order = "live" /\ r.value = a.entry
         /\ r.code = "position_open" => a.order = "open" /\ (c.kind = "query" => r.value = a.entry)
         /\ r.code = "terminal_without_fill" => a.order = "cancelled"
         /\ r.code \in {"terminal_after_fill", "closure"} => a.order = "ended"
<1>1. a.entry \in Values \cup {None} /\ a.protection \in Values \cup {None}
  BY DEF AbiCycles
<1>2. \A status \in {200, 503}, code \in Confirmations \cup Readings \cup ErrorCodes,
           value \in {None, a.entry, a.protection} :
        r = Says(c, status, code, value) =>
          r \in Replies /\ r.status = status /\ r.code = code /\ r.value = value
  BY <1>1, SaysWhat DEF Statuses
<1>3. /\ r = Says(c, 200, "applied", a.entry) =>
           r \in Replies /\ r.status = 200 /\ r.code = "applied" /\ r.value = a.entry
      /\ r = Says(c, 200, "absent", None) =>
           r \in Replies /\ r.status = 200 /\ r.code = "absent" /\ r.value = None
      /\ r = Says(c, 200, "protected", a.protection) =>
           r \in Replies /\ r.status = 200 /\ r.code = "protected" /\ r.value = a.protection
      /\ r = Says(c, 200, "remainder_gone", None) =>
           r \in Replies /\ r.status = 200 /\ r.code = "remainder_gone" /\ r.value = None
      /\ r = Says(c, 200, "closed", None) =>
           r \in Replies /\ r.status = 200 /\ r.code = "closed" /\ r.value = None
      /\ r = Says(c, 503, "execution_not_ready", None) =>
           r \in Replies /\ r.status = 503 /\ r.code = "execution_not_ready" /\ r.value = None
      /\ r = Says(c, 200, "declined", None) =>
           r \in Replies /\ r.status = 200 /\ r.code = "declined" /\ r.value = None
      /\ r = Says(c, 200, "not_found", None) =>
           r \in Replies /\ r.status = 200 /\ r.code = "not_found" /\ r.value = None
      /\ r = Says(c, 200, "live", a.entry) =>
           r \in Replies /\ r.status = 200 /\ r.code = "live" /\ r.value = a.entry
      /\ r = Says(c, 200, "position_open", a.entry) =>
           r \in Replies /\ r.status = 200 /\ r.code = "position_open" /\ r.value = a.entry
      /\ r = Says(c, 200, "position_open", None) =>
           r \in Replies /\ r.status = 200 /\ r.code = "position_open" /\ r.value = None
      /\ r = Says(c, 200, "terminal_without_fill", None) =>
           r \in Replies /\ r.status = 200 /\ r.code = "terminal_without_fill" /\ r.value = None
      /\ r = Says(c, 200, "terminal_after_fill", None) =>
           r \in Replies /\ r.status = 200 /\ r.code = "terminal_after_fill" /\ r.value = None
      /\ r = Says(c, 200, "flat", None) =>
           r \in Replies /\ r.status = 200 /\ r.code = "flat" /\ r.value = None
      /\ r = Says(c, 200, "closure", None) =>
           r \in Replies /\ r.status = 200 /\ r.code = "closure" /\ r.value = None
  BY <1>2 DEF Confirmations, Readings, ErrorCodes
<1> QED
  BY <1>3, TruthfulShape DEF NotReady

(* An answer arrives: ABI's own, or one that means nothing. *)
LEMMA AnswersKeeps ==
  ASSUME AbiInv, Answers
  PROVE  AbiInv'
<1>1. /\ call # None /\ reply = None
      /\ reply' \in Truthful(call, abi[call.id]) \cup Meaningless(call)
      /\ UNCHANGED <<cycle, marker, call, abi, late>>
  BY DEF Answers
<1>2. call \in Calls /\ call.id \in TradeCycleIds /\ abi[call.id] \in AbiCycles
  BY <1>1 DEF AbiInv, TypeOK, Calls
<1>3. EntryKnown(abi[call.id]) /\ (call.fate = "executed" => call.kind \in Commands)
  BY <1>1, <1>2 DEF AbiInv, FateInv
<1>4. reply' \in Replies /\ ReplyInv'
  <2>1. CASE reply' \in Meaningless(call)
    <3>1. PICK r \in Meaningless(call) : r = reply'
      BY <2>1
    <3>2. /\ r \in Replies /\ ~NotReady(r) /\ ~Echoes(call, r)
          /\ ~(r.strict /\ r.status = 200 /\ r.code \in Readings)
      BY <1>2, <3>1, MeaninglessSaysNothing
    <3>3. NotReady(reply)' = NotReady(r) /\ Echoes(call, reply)' = Echoes(call, r)
      BY <1>1, <3>1 DEF NotReady, Echoes
    <3> QED
      BY <1>1, <3>1, <3>2, <3>3 DEF ReplyInv
  <2>2. CASE reply' \in Truthful(call, abi[call.id])
    <3>1. PICK r \in Truthful(call, abi[call.id]) : r = reply'
      BY <2>2
    <3>2. /\ r \in Replies
          /\ NotReady(r) => call.fate = "refused"
          /\ r.code = "applied" => call.fate = "executed" /\ r.value = abi[call.id].entry
          /\ r.code = "declined" => call.fate = "refused"
          /\ r.code \in {"absent", "remainder_gone", "closed"} => call.fate = "executed"
          /\ r.code = "protected" => call.fate = "executed" /\ r.value = abi[call.id].protection
          /\ r.code = "live" => abi[call.id].order = "live" /\ r.value = abi[call.id].entry
          /\ r.code = "position_open" =>
               abi[call.id].order = "open" /\ (call.kind = "query" => r.value = abi[call.id].entry)
          /\ r.code = "terminal_without_fill" => abi[call.id].order = "cancelled"
          /\ r.code \in {"terminal_after_fill", "closure"} => abi[call.id].order = "ended"
      BY <1>2, <1>3, <3>1, TruthfulCases
    <3>3. NotReady(reply)' = NotReady(r)
      BY <3>1 DEF NotReady
    <3> QED
      BY <1>1, <1>3, <3>1, <3>2, <3>3 DEF ReplyInv, EntryKnown
  <2> QED
    BY <1>1, <2>1, <2>2
<1>5. TypeOK'
  BY <1>1, <1>4 DEF AbiInv, TypeOK
<1> QED
  BY <1>1, <1>4, <1>5 DEF AbiInv, NamesAgree, CallInv, FateInv, RemainderOfFilled, ConfirmedIsReal,
                         NothingForgotten, Exposed, EntryKnown
-----------------------------------------------------------------------------
(* The client. *)

(* A request is sent: whatever it may create is named by a marker. *)
LEMMA SendKeeps ==
  ASSUME AbiInv, call # None => call.kind # "apply",
         NEW kind \in Commands \cup Reads, NEW id \in TradeCycleIds, NEW value \in Values \cup {None},
         Sends(kind, id, value), UNCHANGED <<cycle, abi, late>>, reply' = None,
         marker' \in Markers \cup {None}, marker # None => marker' = marker,
         NamesAgree', CallInv',
         kind = "apply" => abi[id].order = "none" /\ \A r \in late : r.id # id
  PROVE  AbiInv'
<1>1. /\ call' = [kind |-> kind, id |-> id, value |-> value, fate |-> "pending"]
      /\ call' \in Calls
  BY DEF Sends, Calls
<1>2. call' # None
  BY <1>1, RecordAssumption
<1>3. TypeOK'
  BY <1>1, <1>2 DEF AbiInv, TypeOK
<1>4. FateInv' /\ ReplyInv'
  BY <1>1 DEF FateInv, ReplyInv
<1>5. NothingForgotten'
  <2> SUFFICES ASSUME NEW o \in TradeCycleIds, Exposed(o)' PROVE Named(o)'
    BY DEF NothingForgotten, Named
  <2>1. CASE Exposed(o)
    BY <2>1 DEF AbiInv, NothingForgotten, Named
  <2>2. CASE ~Exposed(o)
    BY <1>1, <1>2, <2>2 DEF Exposed, CallInv, Named
  <2> QED
    BY <2>1, <2>2
<1> QED
  BY <1>3, <1>4, <1>5 DEF AbiInv, EntryKnown, RemainderOfFilled, ConfirmedIsReal

(* The commands and the lookup of a caller, and what the resolver sends. *)
LEMMA SendsKeep ==
  ASSUME AbiInv,
         \/ \E id \in TradeCycleIds, entry \in Values : SendApply(id, entry)
         \/ \E protection \in Values : SendProtection(protection)
         \/ SendCancel \/ SendLookup \/ SendRemainder \/ SendClose \/ SendRecovery
  PROVE  AbiInv'
<1>1. /\ cycle # None => cycle \in Cycles /\ cycle.id \in TradeCycleIds
      /\ marker # None => marker \in Markers /\ marker.id \in TradeCycleIds
      /\ marker \in Markers \cup {None}
      /\ call = None => reply = None
  BY DEF AbiInv, TypeOK, Cycles, Markers
<1>2. ASSUME NEW id \in TradeCycleIds, NEW entry \in Values, SendApply(id, entry)
      PROVE  AbiInv'
  <2>1. marker' \in Markers /\ marker' # None /\ marker'.id = id
    BY <1>2, RecordAssumption DEF SendApply, Markers
  <2>2. NamesAgree' /\ CallInv'
    BY <1>2, <2>1 DEF SendApply, Sends, NamesAgree, CallInv
  <2> QED
    BY <1>1, <1>2, <2>1, <2>2, SendKeeps DEF SendApply, Idle, Commands
<1>3. ASSUME NEW protection \in Values, SendProtection(protection)
      PROVE  AbiInv'
  <2>1. NamesAgree' /\ CallInv'
    BY <1>3 DEF SendProtection, Sends, NamesAgree, CallInv, AbiInv
  <2> QED
    BY <1>1, <1>3, <2>1, SendKeeps DEF SendProtection, Idle, Commands
<1>4. CASE SendCancel
  <2>1. marker' \in Markers /\ marker' # None /\ marker'.id = cycle.id
    BY <1>1, <1>4, RecordAssumption DEF SendCancel, Markers
  <2>2. NamesAgree' /\ CallInv'
    BY <1>4, <2>1 DEF SendCancel, Sends, NamesAgree, CallInv
  <2> QED
    BY <1>1, <1>4, <2>1, <2>2, SendKeeps DEF SendCancel, Idle, Commands
<1>5. CASE SendLookup
  <2>1. NamesAgree' /\ CallInv'
    BY <1>5 DEF SendLookup, Sends, NamesAgree, CallInv, AbiInv
  <2> QED
    BY <1>1, <1>5, <2>1, SendKeeps DEF SendLookup, Idle, Reads
<1>6. CASE SendRemainder
  <2>1. NamesAgree' /\ CallInv'
    BY <1>6 DEF SendRemainder, Sends, NamesAgree, CallInv, AbiInv
  <2> QED
    BY <1>1, <1>6, <2>1, SendKeeps DEF SendRemainder, Idle, Commands
<1>7. CASE SendClose
  <2>1. marker' \in Markers /\ marker' # None /\ marker'.id = cycle.id
    BY <1>1, <1>7, RecordAssumption DEF SendClose, Markers
  <2>2. NamesAgree' /\ CallInv'
    BY <1>7, <2>1 DEF SendClose, Sends, NamesAgree, CallInv
  <2> QED
    BY <1>1, <1>7, <2>1, <2>2, SendKeeps DEF SendClose, Idle, Commands
<1>8. CASE SendRecovery
  <2>1. PICK kind \in {"close", "query"} :
          Sends(kind, marker.id, None) /\ UNCHANGED <<cycle, marker, reply, abi, late>>
    BY <1>8 DEF SendRecovery
  <2>2. NamesAgree' /\ CallInv'
    BY <1>8, <2>1 DEF SendRecovery, Sends, NamesAgree, CallInv, AbiInv
  <2> QED
    BY <1>1, <1>8, <2>1, <2>2, SendKeeps DEF SendRecovery, Idle, Commands, Reads
<1> QED
  BY <1>2, <1>3, <1>4, <1>5, <1>6, <1>7, <1>8

(* A call ends: whatever the state gives up is neither there nor coming. *)
LEMMA CallEnds ==
  ASSUME AbiInv, call # None, Done, late' = Abandoned, UNCHANGED abi,
         cycle' \in Cycles \cup {None}, marker' \in Markers \cup {None},
         NamesAgree', RemainderOfFilled', ConfirmedIsReal',
         \A id \in TradeCycleIds : Named(id) /\ Exposed(id)' => Named(id)'
  PROVE  AbiInv'
<1>1. call \in Calls /\ (call.kind = "apply" => call.value \in Values) /\ call.id \in TradeCycleIds
  BY DEF AbiInv, TypeOK, Calls, CallInv
<1>2. TypeOK'
  BY <1>1 DEF AbiInv, TypeOK, Done, Abandoned
<1>3. CallInv' /\ FateInv' /\ ReplyInv'
  BY DEF CallInv, FateInv, ReplyInv, Done
<1>4. NothingForgotten'
  <2> SUFFICES ASSUME NEW id \in TradeCycleIds, Exposed(id)' PROVE Named(id)'
    BY DEF NothingForgotten, Named
  <2>1. Exposed(id)
    BY DEF Exposed, Done, Abandoned
  <2> QED
    BY <2>1 DEF AbiInv, NothingForgotten, Named
<1> QED
  BY <1>2, <1>3, <1>4 DEF AbiInv, EntryKnown

(* A call from which the caller learns nothing. *)
LEMMA FailsKeeps ==
  ASSUME AbiInv, call # None, Fails
  PROVE  AbiInv'
<1>1. cycle' \in Cycles \cup {None} /\ marker' \in Markers \cup {None}
  BY DEF Fails, AbiInv, TypeOK
<1>2. NamesAgree' /\ RemainderOfFilled' /\ ConfirmedIsReal'
  BY DEF Fails, AbiInv, NamesAgree, RemainderOfFilled, ConfirmedIsReal
<1>3. \A id \in TradeCycleIds : Named(id) => Named(id)'
  BY DEF Fails, Named
<1> QED
  BY <1>1, <1>2, <1>3, CallEnds DEF Fails

(* The codecs accept only what they should. *)
LEMMA EntryDecoded ==
  ASSUME NEW c, NEW r
  PROVE  LET outcome == decode_entry_package_response(c, r) IN
         /\ outcome = "applied" => Echoes(c, r) /\ r.code = "applied"
         /\ outcome = "absent" => Echoes(c, r) /\ r.code = "absent"
         /\ outcome = "declined" => Echoes(c, r) /\ r.code = "declined"
         /\ outcome = "not_ready" => NotReady(r)
BY DEF decode_entry_package_response, NotReady, Echoes

(* A trade cycle that starts. *)
LEMMA NewCycleTyped ==
  ASSUME NEW id \in TradeCycleIds, NEW entry \in Values, NEW filled \in BOOLEAN
  PROVE  /\ NewCycle(id, entry, filled) \in Cycles
         /\ NewCycle(id, entry, filled) # None
         /\ NewCycle(id, entry, filled).id = id
         /\ NewCycle(id, entry, filled).entry = entry
         /\ NewCycle(id, entry, filled).filled = filled
         /\ NewCycle(id, entry, filled).protection = None
         /\ NewCycle(id, entry, filled).entry_remainder_cancelled = FALSE
<1>1. NewCycle(id, entry, filled) \in Cycles
  BY DEF NewCycle, Cycles
<1> QED
  BY <1>1, RecordAssumption DEF NewCycle

(* Everything that the state gives up has an order that is over. *)
LEMMA GivenUp ==
  ASSUME AbiInv, call # None, Becomes(None, None),
         abi[call.id].order \in {"cancelled", "ended"},
         \A id \in TradeCycleIds : Named(id) => id = call.id
  PROVE  AbiInv'
<1>1. NamesAgree' /\ RemainderOfFilled' /\ ConfirmedIsReal'
  BY DEF Becomes, NamesAgree, RemainderOfFilled, ConfirmedIsReal
<1>2. \A id \in TradeCycleIds : Named(id) => ~Exposed(id)'
  BY DEF Becomes, Done, Exposed
<1> QED
  BY <1>1, <1>2, CallEnds DEF Becomes

(* A trade cycle is taken over, and its marker cleared. *)
LEMMA Adopted ==
  ASSUME AbiInv, call # None, NEW entry \in Values, NEW filled \in BOOLEAN,
         Becomes(NewCycle(call.id, entry, filled), None),
         abi[call.id].order # "none", abi[call.id].entry = entry,
         filled => abi[call.id].order \in {"open", "ended"},
         \A id \in TradeCycleIds : Named(id) => id = call.id
  PROVE  AbiInv'
<1>1. call.id \in TradeCycleIds
  BY DEF AbiInv, TypeOK, Calls
<1>2. /\ cycle' \in Cycles /\ cycle' # None /\ cycle'.id = call.id
      /\ cycle'.entry = entry /\ cycle'.filled = filled
      /\ cycle'.entry_remainder_cancelled = FALSE
  <2>1. cycle' = NewCycle(call.id, entry, filled)
    BY DEF Becomes
  <2>2. cycle' \in Cycles
    BY <1>1, <2>1, NewCycleTyped
  <2> QED
    BY <2>1, <2>2, RecordAssumption DEF NewCycle
<1>3. NamesAgree' /\ RemainderOfFilled' /\ ConfirmedIsReal'
  BY <1>2 DEF Becomes, NamesAgree, RemainderOfFilled, ConfirmedIsReal
<1>4. \A id \in TradeCycleIds : Named(id) => Named(id)'
  BY <1>2 DEF Named
<1> QED
  BY <1>2, <1>3, <1>4, CallEnds DEF Becomes

(* The marker is taken back, and the cycle, if any, still names the call. *)
LEMMA MarkerCleared ==
  ASSUME AbiInv, call # None, Becomes(cycle, None),
         \A id \in TradeCycleIds : Named(id) => id = call.id,
         \/ cycle # None /\ cycle.id = call.id
         \/ call.fate = "refused" /\ call.kind = "apply"
  PROVE  AbiInv'
<1>1. cycle' \in Cycles \cup {None}
  BY DEF Becomes, AbiInv, TypeOK
<1>2. NamesAgree' /\ RemainderOfFilled' /\ ConfirmedIsReal'
  BY DEF Becomes, AbiInv, NamesAgree, RemainderOfFilled, ConfirmedIsReal
<1>3. \A id \in TradeCycleIds : Named(id) /\ Exposed(id)' => Named(id)'
  <2>1. CASE cycle # None /\ cycle.id = call.id
    BY <2>1 DEF Becomes, Named
  <2>2. CASE call.fate = "refused" /\ call.kind = "apply"
    <3>1. abi[call.id].order = "none" /\ \A r \in late : r.id # call.id
      BY <2>2 DEF AbiInv, FateInv
    <3> QED
      BY <2>2, <3>1 DEF Becomes, Done, Abandoned, Exposed
  <2> QED
    BY <2>1, <2>2
<1> QED
  BY <1>1, <1>2, <1>3, CallEnds DEF Becomes

(* The cycle goes on under its name and with its entry. *)
LEMMA CycleGoesOn ==
  ASSUME AbiInv, call # None, cycle # None, NEW new \in Cycles, Becomes(new, marker),
         new.id = cycle.id, new.entry = cycle.entry,
         new.filled => abi[cycle.id].order \in {"open", "ended"},
         new.entry_remainder_cancelled => new.filled /\ ~abi[cycle.id].rests
  PROVE  AbiInv'
<1>1. cycle' = new /\ cycle' # None /\ UNCHANGED <<marker, abi>>
  BY RecordAssumption DEF Becomes
<1>2. NamesAgree' /\ RemainderOfFilled' /\ ConfirmedIsReal'
  BY <1>1 DEF AbiInv, NamesAgree, RemainderOfFilled, ConfirmedIsReal
<1>3. \A id \in TradeCycleIds : Named(id) => Named(id)'
  BY <1>1 DEF Named
<1>4. marker' \in Markers \cup {None}
  BY <1>1 DEF AbiInv, TypeOK
<1> QED
  BY <1>1, <1>2, <1>3, <1>4, CallEnds DEF Becomes

(* The names the state has for a call that a marker or the cycle is for. *)
LEMMA CallNamed ==
  ASSUME AbiInv, call # None, call.kind # "apply" \/ cycle = None
  PROVE  /\ \A id \in TradeCycleIds : Named(id) => id = call.id
         /\ call.kind \notin {"apply", "query", "neutralize", "close"} => cycle # None /\ cycle.id = call.id
         /\ call \in Calls /\ call.id \in TradeCycleIds
<1>1. call \in Calls /\ call.kind \in Commands \cup Reads /\ call.id \in TradeCycleIds
  BY DEF AbiInv, TypeOK, Calls
<1>2. call.kind \notin {"apply", "query", "neutralize", "close"} => cycle # None /\ cycle.id = call.id
  BY <1>1 DEF AbiInv, CallInv, Commands, Reads
<1>3. \A id \in TradeCycleIds : Named(id) => id = call.id
  BY <1>1, <1>2 DEF AbiInv, CallInv, NamesAgree, Named
<1> QED
  BY <1>1, <1>2, <1>3

(* An APPLY is answered. *)
LEMMA ApplyAnsweredKeeps ==
  ASSUME AbiInv, ApplyAnswered
  PROVE  AbiInv'
<1> DEFINE outcome == decode_entry_package_response(call, reply)
<1>1. call # None /\ reply # None /\ call.kind = "apply"
  BY DEF ApplyAnswered
<1>2. cycle = None /\ call.value \in Values
  BY <1>1 DEF AbiInv, CallInv
<1>3. \A id \in TradeCycleIds : Named(id) => id = call.id
  BY <1>1, <1>2, CallNamed
<1>4. CASE outcome = "applied" /\ reply.value = call.value
  <2>1. Becomes(NewCycle(call.id, call.value, FALSE), None)
    BY <1>4 DEF ApplyAnswered
  <2>2. call.fate = "executed" /\ abi[call.id].entry = call.value
    BY <1>1, <1>4, EntryDecoded DEF AbiInv, ReplyInv
  <2>3. abi[call.id].order # "none"
    BY <1>1, <2>2 DEF AbiInv, FateInv
  <2> QED
    BY <1>1, <1>2, <1>3, <2>1, <2>2, <2>3, Adopted
<1>5. CASE outcome \in {"declined", "not_ready"}
  <2>1. Becomes(cycle, None)
    BY <1>5 DEF ApplyAnswered
  <2>2. call.fate = "refused"
    BY <1>1, <1>5, EntryDecoded DEF AbiInv, ReplyInv
  <2> QED
    BY <1>1, <1>3, <2>1, <2>2, MarkerCleared
<1>6. CASE ~(outcome = "applied" /\ reply.value = call.value) /\ outcome \notin {"declined", "not_ready"}
  <2>1. Fails
    BY <1>6 DEF ApplyAnswered
  <2> QED
    BY <1>1, <2>1, FailsKeeps
<1> QED
  BY <1>4, <1>5, <1>6

(* A CANCEL is answered. *)
LEMMA CancelAnsweredKeeps ==
  ASSUME AbiInv, CancelAnswered
  PROVE  AbiInv'
<1> DEFINE outcome == decode_entry_package_response(call, reply)
<1>1. call # None /\ reply # None /\ call.kind = "cancel"
  BY DEF CancelAnswered
<1>2. /\ \A id \in TradeCycleIds : Named(id) => id = call.id
      /\ cycle # None /\ cycle.id = call.id
  BY <1>1, CallNamed
<1>3. CASE outcome = "absent"
  <2>1. Becomes(None, None)
    BY <1>3 DEF CancelAnswered
  <2>2. abi[call.id].order = "cancelled"
    BY <1>1, <1>3, EntryDecoded DEF AbiInv, ReplyInv, FateInv
  <2> QED
    BY <1>1, <1>2, <2>1, <2>2, GivenUp
<1>4. CASE outcome = "not_ready"
  <2>1. Becomes(cycle, None)
    BY <1>4 DEF CancelAnswered
  <2> QED
    BY <1>1, <1>2, <2>1, MarkerCleared
<1>5. CASE outcome \notin {"absent", "not_ready"}
  <2>1. Fails
    BY <1>5 DEF CancelAnswered
  <2> QED
    BY <1>1, <2>1, FailsKeeps
<1> QED
  BY <1>3, <1>4, <1>5

(* The resolver's corrective CANCEL is answered. *)
LEMMA NeutralizeAnsweredKeeps ==
  ASSUME AbiInv, NeutralizeAnswered
  PROVE  AbiInv'
<1>1. call # None /\ reply # None /\ call.kind = "neutralize"
  BY DEF NeutralizeAnswered
<1>2. \A id \in TradeCycleIds : Named(id) => id = call.id
  BY <1>1, CallNamed
<1>3. CASE decode_entry_package_response(call, reply) = "absent"
  <2>1. Becomes(None, None)
    BY <1>3 DEF NeutralizeAnswered
  <2>2. abi[call.id].order = "cancelled"
    BY <1>1, <1>3, EntryDecoded DEF AbiInv, ReplyInv, FateInv
  <2> QED
    BY <1>1, <1>2, <2>1, <2>2, GivenUp
<1>4. CASE decode_entry_package_response(call, reply) # "absent"
  <2>1. Fails
    BY <1>4 DEF NeutralizeAnswered
  <2> QED
    BY <1>1, <2>1, FailsKeeps
<1> QED
  BY <1>3, <1>4

(* A protection is answered: what is taken over is in force. *)
LEMMA ProtectionAnsweredKeeps ==
  ASSUME AbiInv, ProtectionAnswered
  PROVE  /\ AbiInv'
         /\ cycle # None /\ cycle' # None
         /\ cycle'.protection # cycle.protection => abi[cycle.id].protection = cycle'.protection
<1>1. call # None /\ reply # None /\ call.kind = "protect"
  BY DEF ProtectionAnswered
<1>2. cycle \in Cycles /\ cycle # None /\ cycle.id = call.id
  BY <1>1, CallNamed DEF AbiInv, TypeOK
<1>3. CASE decode_apply_protection_response(call, reply) = "protected"
  <2>1. Becomes([cycle EXCEPT !.protection = reply.value], marker)
    BY <1>3 DEF ProtectionAnswered
  <2>2. Echoes(call, reply) /\ reply.code = "protected"
    BY <1>3 DEF decode_apply_protection_response
  <2>3. abi[cycle.id].protection = reply.value
    BY <1>1, <1>2, <2>2 DEF AbiInv, ReplyInv
  <2>4. reply.value \in Values \cup {None}
    BY <1>1 DEF AbiInv, TypeOK, Replies
  <2> DEFINE new == [cycle EXCEPT !.protection = reply.value]
  <2>5. /\ new \in Cycles /\ new.id = cycle.id /\ new.entry = cycle.entry
        /\ new.filled = cycle.filled /\ new.protection = reply.value
        /\ new.entry_remainder_cancelled = cycle.entry_remainder_cancelled
    BY <1>2, <2>4 DEF Cycles
  <2>6. /\ cycle.filled => abi[cycle.id].order \in {"open", "ended"}
        /\ cycle.entry_remainder_cancelled => cycle.filled /\ ~abi[cycle.id].rests
    BY <1>2 DEF AbiInv, ConfirmedIsReal, RemainderOfFilled
  <2>7. cycle' = new
    BY <2>1 DEF Becomes
  <2> HIDE DEF new
  <2>8. Becomes(new, marker)
    BY <2>1 DEF new
  <2>9. AbiInv'
    BY <1>1, <1>2, <2>5, <2>6, <2>8, CycleGoesOn
  <2> QED
    BY <1>2, <2>3, <2>5, <2>7, <2>9, RecordAssumption
<1>4. CASE decode_apply_protection_response(call, reply) # "protected"
  <2>1. Fails
    BY <1>4 DEF ProtectionAnswered
  <2> QED
    BY <1>1, <1>2, <2>1, FailsKeeps DEF Fails
<1> QED
  BY <1>3, <1>4

(* The cancellation of a remainder is answered. *)
LEMMA RemainderAnsweredKeeps ==
  ASSUME AbiInv, RemainderAnswered
  PROVE  AbiInv'
<1>1. call # None /\ reply # None /\ call.kind = "remainder"
  BY DEF RemainderAnswered
<1>2. cycle \in Cycles /\ cycle # None /\ cycle.id = call.id /\ cycle.filled
  BY <1>1, CallNamed DEF AbiInv, TypeOK, CallInv
<1>3. CASE decode_cancel_entry_remainder_response(call, reply) = "remainder_gone"
  <2> DEFINE new == [cycle EXCEPT !.entry_remainder_cancelled = TRUE]
  <2>1. Becomes(new, marker)
    BY <1>3 DEF RemainderAnswered
  <2>2. Echoes(call, reply) /\ reply.code = "remainder_gone"
    BY <1>3 DEF decode_cancel_entry_remainder_response
  <2>3. abi[cycle.id].order \in {"open", "ended"} /\ ~abi[cycle.id].rests
    BY <1>1, <1>2, <2>2 DEF AbiInv, ReplyInv, FateInv
  <2>4. new \in Cycles /\ new.id = cycle.id /\ new.entry = cycle.entry /\ new.filled
    BY <1>2 DEF Cycles
  <2> HIDE DEF new
  <2> QED
    BY <1>1, <1>2, <2>1, <2>3, <2>4, CycleGoesOn
<1>4. CASE decode_cancel_entry_remainder_response(call, reply) # "remainder_gone"
  <2>1. Fails
    BY <1>4 DEF RemainderAnswered
  <2> QED
    BY <1>1, <2>1, FailsKeeps
<1> QED
  BY <1>3, <1>4

(* A close is answered. *)
LEMMA CloseAnsweredKeeps ==
  ASSUME AbiInv, CloseAnswered
  PROVE  AbiInv'
<1>1. call # None /\ reply # None /\ call.kind = "close"
  BY DEF CloseAnswered
<1>2. \A id \in TradeCycleIds : Named(id) => id = call.id
  BY <1>1, CallNamed
<1>3. CASE decode_close_position_response(call, reply) = "closed"
  <2>1. Becomes(None, None)
    BY <1>3 DEF CloseAnswered
  <2>2. Echoes(call, reply) /\ reply.code = "closed"
    BY <1>3 DEF decode_close_position_response
  <2>3. abi[call.id].order = "ended"
    BY <1>1, <2>2 DEF AbiInv, ReplyInv, FateInv
  <2> QED
    BY <1>1, <1>2, <2>1, <2>3, GivenUp
<1>4. CASE decode_close_position_response(call, reply) # "closed"
  <2>1. Fails
    BY <1>4 DEF CloseAnswered
  <2> QED
    BY <1>1, <2>1, FailsKeeps
<1> QED
  BY <1>3, <1>4

(* A lookup is answered. *)
LEMMA LookupAnsweredKeeps ==
  ASSUME AbiInv, LookupAnswered
  PROVE  AbiInv'
<1> DEFINE outcome == decode_open_position_response(call, reply)
<1>1. call # None /\ reply # None /\ call.kind = "lookup"
  BY DEF LookupAnswered
<1>2. /\ \A id \in TradeCycleIds : Named(id) => id = call.id
      /\ cycle \in Cycles /\ cycle # None /\ cycle.id = call.id
  BY <1>1, CallNamed DEF AbiInv, TypeOK
<1>3. CASE outcome = "position_open"
  <2> DEFINE new == [cycle EXCEPT !.filled = TRUE]
  <2>1. Becomes(new, marker)
    BY <1>3 DEF LookupAnswered
  <2>2. reply.strict /\ reply.status = 200 /\ reply.code = "position_open"
    BY <1>3 DEF decode_open_position_response
  <2>3. abi[cycle.id].order \in {"open", "ended"}
    BY <1>1, <1>2, <2>2 DEF AbiInv, ReplyInv, Readings
  <2>4. /\ new \in Cycles /\ new.id = cycle.id /\ new.entry = cycle.entry /\ new.filled
        /\ new.entry_remainder_cancelled = cycle.entry_remainder_cancelled
    BY <1>2 DEF Cycles
  <2>5. cycle.entry_remainder_cancelled => ~abi[cycle.id].rests
    BY <1>2 DEF AbiInv, ConfirmedIsReal
  <2> HIDE DEF new
  <2> QED
    BY <1>1, <1>2, <2>1, <2>3, <2>4, <2>5, CycleGoesOn
<1>4. CASE outcome = "closure"
  <2>1. Becomes(None, None)
    BY <1>4 DEF LookupAnswered
  <2>2. reply.strict /\ reply.status = 200 /\ reply.code = "closure"
    BY <1>4 DEF decode_open_position_response, Echoes
  <2>3. abi[call.id].order = "ended"
    BY <1>1, <2>2 DEF AbiInv, ReplyInv, Readings
  <2> QED
    BY <1>1, <1>2, <2>1, <2>3, GivenUp
<1>5. CASE outcome \notin {"position_open", "closure"}
  <2>1. Fails
    BY <1>5 DEF LookupAnswered
  <2> QED
    BY <1>1, <2>1, FailsKeeps
<1> QED
  BY <1>3, <1>4, <1>5

(* The resolver's recovery query is answered. *)
LEMMA QueryAnsweredKeeps ==
  ASSUME AbiInv, QueryAnswered
  PROVE  AbiInv'
<1> DEFINE outcome == decode_recovery_state_response(call, reply)
<1>1. call # None /\ reply # None /\ call.kind = "query"
  BY DEF QueryAnswered
<1>2. /\ \A id \in TradeCycleIds : Named(id) => id = call.id
      /\ call.id \in TradeCycleIds
      /\ cycle # None => cycle.id = call.id
      /\ marker # None /\ marker.id = call.id /\ marker \in Markers
  <2>1. marker # None /\ marker.id = call.id /\ marker \in Markers
    BY <1>1 DEF AbiInv, CallInv, TypeOK
  <2> QED
    BY <1>1, <2>1, CallNamed DEF AbiInv, NamesAgree
<1>3. outcome # "error" => reply.strict /\ reply.status = 200 /\ reply.code = outcome /\ outcome \in Readings
  BY DEF decode_recovery_state_response
<1>4. outcome # "error" =>
         /\ outcome = "live" =>
              abi[call.id].order # "none" /\ abi[call.id].entry = reply.value /\ reply.value \in Values
         /\ outcome = "position_open" =>
              /\ abi[call.id].order \in {"open", "ended"}
              /\ abi[call.id].entry = reply.value /\ reply.value \in Values
         /\ outcome \in {"terminal_without_fill", "terminal_after_fill"} =>
              abi[call.id].order \in {"cancelled", "ended"}
  BY <1>1, <1>3 DEF AbiInv, ReplyInv
<1> HIDE DEF outcome
<1>5. CASE outcome \in {"terminal_without_fill", "terminal_after_fill"}
  <2>1. Becomes(None, None)
    BY <1>5 DEF QueryAnswered, outcome
  <2> QED
    BY <1>1, <1>2, <1>4, <1>5, <2>1, GivenUp
<1>6. CASE outcome = "position_open"
  <2>1. CASE cycle = None
    <3>1. Becomes(NewCycle(call.id, reply.value, TRUE), None)
      BY <1>6, <2>1 DEF QueryAnswered, outcome
    <3>2. /\ reply.value \in Values /\ abi[call.id].order \in {"open", "ended"}
          /\ abi[call.id].order # "none" /\ abi[call.id].entry = reply.value
      BY <1>4, <1>6
    <3> QED
      BY <1>1, <1>2, <3>1, <3>2, Adopted
  <2>2. CASE cycle # None
    <3>1. Becomes(cycle, None)
      BY <1>6, <2>2 DEF QueryAnswered, outcome
    <3> QED
      BY <1>1, <1>2, <2>2, <3>1, MarkerCleared
  <2> QED
    BY <2>1, <2>2
<1>7. CASE outcome = "live" /\ cycle = None
  <2>1. Becomes(NewCycle(call.id, reply.value, FALSE), None)
    BY <1>7 DEF QueryAnswered, outcome
  <2> QED
    BY <1>1, <1>2, <1>4, <1>7, <2>1, Adopted
<1>8. CASE \/ outcome = "not_found" /\ cycle = None
           \/ outcome = "live" /\ cycle # None
  <2>1. /\ Sends("neutralize", call.id, None)
        /\ reply' = None
        /\ UNCHANGED <<cycle, marker, abi, late>>
    BY <1>8 DEF QueryAnswered, outcome
  <2>2. NamesAgree' /\ CallInv'
    BY <1>2, <2>1 DEF AbiInv, NamesAgree, CallInv, Sends
  <2> QED
    BY <1>1, <1>2, <2>1, <2>2, SendKeeps DEF Commands
<1>9. CASE /\ outcome \notin {"terminal_without_fill", "terminal_after_fill", "position_open"}
           /\ ~(outcome = "not_found" /\ cycle = None) /\ outcome # "live"
  <2>1. Fails
    BY <1>9 DEF QueryAnswered, outcome
  <2> QED
    BY <1>1, <2>1, FailsKeeps
<1> QED
  BY <1>5, <1>6, <1>7, <1>8, <1>9

-----------------------------------------------------------------------------
(* The results. *)

(* Every step keeps the invariant. *)
LEMMA AbiStep ==
  ASSUME AbiInv, [Next]_vars
  PROVE  AbiInv'
<1>1. CASE Abi
  BY <1>1, ExecutesKeeps, RefusesKeeps, AnswersKeeps, WorldKeeps DEF Abi
<1>2. CASE NoAnswer
  BY <1>2, FailsKeeps DEF NoAnswer, Fails
<1>3. CASE Client
  BY <1>2, <1>3, SendsKeep, ApplyAnsweredKeeps, CancelAnsweredKeeps, NeutralizeAnsweredKeeps,
     ProtectionAnsweredKeeps, RemainderAnsweredKeeps, CloseAnsweredKeeps, LookupAnsweredKeeps,
     QueryAnsweredKeeps DEF Client
<1>4. CASE UNCHANGED vars
  BY <1>4 DEF vars, AbiInv, TypeOK, EntryKnown, NamesAgree, CallInv, FateInv, ReplyInv,
     Echoes, NotReady, RemainderOfFilled, ConfirmedIsReal, NothingForgotten, Exposed
<1> QED
  BY <1>1, <1>3, <1>4 DEF Next

(* The invariant holds of every behaviour of the clients and of ABI. *)
THEOREM AbiInvariance == Spec => []AbiInv
<1>1. Init => AbiInv
  <2> SUFFICES ASSUME Init PROVE AbiInv
    OBVIOUS
  <2>1. TypeOK
    BY DEF Init, TypeOK, AbiCycles
  <2> QED
    BY <2>1 DEF Init, AbiInv, EntryKnown, NamesAgree, CallInv, FateInv, ReplyInv,
       RemainderOfFilled, ConfirmedIsReal, NothingForgotten, Exposed
<1> QED
  BY <1>1, AbiStep, PTL DEF Spec

(* Whatever answer comes back, or none, the state or its marker names      *)
(* every order and position that exists or that an APPLY still under way   *)
(* may create.                                                             *)
THEOREM NothingIsForgotten == Spec => []NothingForgotten
BY AbiInvariance, PTL DEF AbiInv

(* The confirmed part of the state is the truth about the exchange.        *)
THEOREM OnlyTheRealIsConfirmed == Spec => []ConfirmedIsReal
BY AbiInvariance, PTL DEF AbiInv

(* The confirmed protection changes only to the one in force.  Of all the  *)
(* steps only the answer to a protection command changes it.               *)
THEOREM OnlyProvedProtection == Spec => ProtectionProved
<1>1. ASSUME AbiInv, [Next]_vars, cycle # None, cycle' # None, cycle'.protection # cycle.protection
      PROVE  abi[cycle.id].protection = cycle'.protection
  <2>1. cycle \in Cycles
    BY <1>1 DEF AbiInv, TypeOK
  <2>2. CASE ProtectionAnswered
    BY <1>1, <2>2, ProtectionAnsweredKeeps
  <2>3. CASE UNCHANGED cycle
    BY <1>1, <2>3
  <2>4. CASE ApplyAnswered
    BY <1>1, <2>4 DEF ApplyAnswered, AbiInv, CallInv
  <2>5. CASE CancelAnswered \/ NeutralizeAnswered \/ CloseAnswered
    BY <1>1, <2>5 DEF CancelAnswered, NeutralizeAnswered, CloseAnswered, Becomes, Fails
  <2>6. CASE RemainderAnswered
    BY <1>1, <2>1, <2>6 DEF RemainderAnswered, Becomes, Fails, Cycles
  <2>7. CASE LookupAnswered
    BY <1>1, <2>1, <2>7 DEF LookupAnswered, Becomes, Fails, Cycles
  <2>8. CASE QueryAnswered
    BY <1>1, <2>8 DEF QueryAnswered, Becomes, Fails
  <2>9. CASE Abi
    BY <2>3, <2>9 DEF Abi, Executes, Refuses, Answers, Fills, Dies, Ends, LateArrives
  <2>10. CASE \/ \E id \in TradeCycleIds, entry \in Values : SendApply(id, entry)
              \/ \E protection \in Values : SendProtection(protection)
              \/ SendCancel \/ SendLookup \/ SendRemainder \/ SendClose \/ SendRecovery \/ NoAnswer
    BY <2>3, <2>10 DEF SendApply, SendProtection, SendCancel, SendLookup, SendRemainder, SendClose,
       SendRecovery, NoAnswer
  <2> QED
    BY <1>1, <2>2, <2>3, <2>4, <2>5, <2>6, <2>7, <2>8, <2>9, <2>10 DEF Next, Client, vars
<1>2. AbiInv /\ [Next]_vars =>
        [(cycle # None /\ cycle' # None /\ cycle'.protection # cycle.protection)
           => abi[cycle.id].protection = cycle'.protection]_vars
  BY <1>1
<1> QED
  BY <1>2, AbiInvariance, PTL DEF Spec, ProtectionProved
=============================================================================
