---------------------------- MODULE StateRecords ----------------------------
(***************************************************************************)
(* The codec of the durable state file, and what its lines may hold.  Four *)
(* releases have written lines to it, each with fields the one before did  *)
(* not know, and replay reads all of them.  UpgradedStore puts it into the *)
(* store and states what it must do.                                       *)
(*                                                                         *)
(* A JSON object is a function from the fields it has to their values.     *)
(* Fields that every release writes and no rule tells apart are one field: *)
(* "identity" stands for the instance, its strategy, snapshot and risk,    *)
(* "trade_cycle_id" for the cycle's package and protection as well, "fill" *)
(* for the frozen entry and its times; "other" is a field nobody knows.    *)
(***************************************************************************)
EXTENDS Naturals

CONSTANTS
  Identities,     \* strategy instance ids
  TradeCycleIds,
  Bars,
  Null,           \* JSON's null, Python's None
  Absent          \* no field

ASSUME RecordsAssumption == {Null, Absent} \cap (Identities \cup TradeCycleIds \cup Bars) = {}

Error == [error |-> TRUE]

Contexts == [fill : {"fill"}, entry_order_expires_at_bar : Bars \cup {Null}]

Cycles == [trade_cycle_id : TradeCycleIds,
           frozen_entry_context : Contexts \cup {Null}, entry_remainder_cancelled : BOOLEAN]

(* StrategyInstanceRuntimeState.__post_init__ *)
ValidAggregate(state) ==
  LET cycle == state.current_trade_cycle
      entry == state.pending_entry_recovery
      close == state.pending_close_recovery
  IN /\ entry # Null /\ cycle # Null => entry = cycle.trade_cycle_id
     /\ close # Null => cycle # Null /\ close = cycle.trade_cycle_id
     /\ entry = Null \/ close = Null

States ==
  {state \in [identity : Identities, current_trade_cycle : Cycles \cup {Null},
              pending_entry_recovery : TradeCycleIds \cup {Null},
              pending_close_recovery : TradeCycleIds \cup {Null}] : ValidAggregate(state)}

-----------------------------------------------------------------------------
(* Encoding: the aggregate's fields, all of them, and the version. *)

encode_state_line(state) ==
  [field \in DOMAIN state \cup {"schema_version"} |->
     IF field = "schema_version" THEN 4 ELSE state[field]]

-----------------------------------------------------------------------------
(* Decoding.  Each object is read against the exact fields of its version. *)

COMMON_KEYS == {"identity", "schema_version", "current_trade_cycle"}

ENVELOPE_KEYS(version) ==
  CASE version = 1 -> COMMON_KEYS
    [] version = 2 -> COMMON_KEYS \cup {"pending_entry_recovery"}
    [] OTHER -> COMMON_KEYS \cup {"pending_entry_recovery", "pending_close_recovery"}

CYCLE_KEYS(v4) ==
  {"trade_cycle_id", "frozen_entry_context"}
    \cup (IF v4 THEN {"entry_remainder_cancelled"} ELSE {})

FROZEN_ENTRY_CONTEXT_KEYS(v4) ==
  {"fill"} \cup (IF v4 THEN {"entry_order_expires_at_bar"} ELSE {})

(* Faulty variant: unknown fields are ignored. *)
has_known_fields(object, fields) == fields \subseteq DOMAIN object

(* _reject_unknown_keys, and the KeyError of a field that is missing. *)
has_exact_fields(object, fields) == DOMAIN object = fields

(* The value of a field that is there, or null: a version without the      *)
(* field decodes to the aggregate's default.                               *)
Field(object, field) == IF field \in DOMAIN object THEN object[field] ELSE Null

decode_frozen_entry_context(data, v4) ==
  IF has_exact_fields(data, FROZEN_ENTRY_CONTEXT_KEYS(v4))
  THEN [fill |-> Field(data, "fill"),
        entry_order_expires_at_bar |->
          IF v4 THEN Field(data, "entry_order_expires_at_bar") ELSE Null]
  ELSE Error

decode_cycle(data, v4) ==
  LET frozen == Field(data, "frozen_entry_context")
      context == IF frozen = Null THEN Null ELSE decode_frozen_entry_context(frozen, v4)
      mark == IF v4 THEN Field(data, "entry_remainder_cancelled") ELSE FALSE
  IN IF /\ has_exact_fields(data, CYCLE_KEYS(v4))
        /\ context # Error
        /\ mark # Null
     THEN [trade_cycle_id |-> Field(data, "trade_cycle_id"), frozen_entry_context |-> context,
           entry_remainder_cancelled |-> mark]
     ELSE Error

(* Faulty variant: the version-4 fields are expected from version 3 on. *)
v4_from_v3(version) == version \in 3 .. 4

is_v4(version) == version = 4

decode_envelope(envelope) ==
  LET version == Field(envelope, "schema_version")
      data == Field(envelope, "current_trade_cycle")
      cycle == IF data = Null THEN Null ELSE decode_cycle(data, is_v4(version))
      state == [identity |-> Field(envelope, "identity"), current_trade_cycle |-> cycle,
                pending_entry_recovery |-> Field(envelope, "pending_entry_recovery"),
                pending_close_recovery |-> Field(envelope, "pending_close_recovery")]
  IN IF /\ version \in 1 .. 4
        /\ has_exact_fields(envelope, ENVELOPE_KEYS(version))
        /\ cycle # Error
        /\ ValidAggregate(state)
     THEN state ELSE Error

-----------------------------------------------------------------------------
(* The lines a file may hold, as far as their fields go: written by some   *)
(* release, edited by hand, or of a release to come.                       *)

Present(record) == [x \in {y \in DOMAIN record : record[y] # Absent} |-> record[x]]

ContextData ==
  {Present(r) : r \in [fill : {"fill", Absent},
                       entry_order_expires_at_bar : Bars \cup {Null, Absent},
                       other : {"other", Absent}]}

CycleData ==
  {Present(r) : r \in [trade_cycle_id : TradeCycleIds \cup {Absent},
                       frozen_entry_context : ContextData \cup {Null, Absent},
                       entry_remainder_cancelled : {TRUE, FALSE, Null, Absent},
                       other : {"other", Absent}]}

JsonObjects ==
  {Present(r) : r \in [schema_version : (1 .. 5) \cup {Absent}, identity : Identities,
                       current_trade_cycle : CycleData \cup {Null, Absent},
                       pending_entry_recovery : TradeCycleIds \cup {Null, Absent},
                       pending_close_recovery : TradeCycleIds \cup {Null, Absent},
                       other : {"other", Absent}]}

(* Null and Absent are none of the values a line is made of. *)
ASSUME NullAssumption ==
  /\ Null # Absent
  /\ \A x \in {Null, Absent} :
       /\ x \notin Contexts /\ x \notin ContextData /\ x \notin Cycles /\ x \notin CycleData
       /\ x \notin BOOLEAN /\ x \notin {"fill", "other"} /\ x \notin 1 .. 5 /\ x # Error

-----------------------------------------------------------------------------
(* The reference: what release v writes for a state, if it can hold it. *)

Without(object, fields) == [x \in DOMAIN object \ fields |-> object[x]]

OldContext(context) ==
  IF context = Null THEN Null ELSE Without(context, {"entry_order_expires_at_bar"})

OldCycle(cycle) ==
  IF cycle = Null THEN Null
  ELSE [Without(cycle, {"entry_remainder_cancelled"}) EXCEPT !.frozen_entry_context = OldContext(@)]

KnownTo(v, state) ==
  LET cycle == state.current_trade_cycle IN
  /\ v < 2 => state.pending_entry_recovery = Null
  /\ v < 3 => state.pending_close_recovery = Null
  /\ v < 4 /\ cycle # Null =>
       /\ ~cycle.entry_remainder_cancelled
       /\ cycle.frozen_entry_context # Null =>
            cycle.frozen_entry_context.entry_order_expires_at_bar = Null

LineOf(v, state) ==
  LET old == [Without(encode_state_line(state),
                      (IF v < 2 THEN {"pending_entry_recovery"} ELSE {})
                        \cup (IF v < 3 THEN {"pending_close_recovery"} ELSE {}))
                EXCEPT !.schema_version = v, !.current_trade_cycle = OldCycle(@)]
  IN IF v = 4 THEN encode_state_line(state) ELSE old

ReleaseLines ==
  UNION {{[line |-> LineOf(v, state), state |-> state] :
             state \in {s \in States : KnownTo(v, s)}}
           : v \in 1 .. 4}
=============================================================================
