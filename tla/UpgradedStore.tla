---------------------------- MODULE UpgradedStore ----------------------------
(***************************************************************************)
(* DurableStore with the codec of StateRecords: the file may begin with a  *)
(* line of any release, or with one nobody should have written, and goes   *)
(* on with lines of this release.                                          *)
(***************************************************************************)
EXTENDS DurableStore, StateRecords, FiniteSets

State(key, cycle, close) ==
  [identity |-> key, current_trade_cycle |-> cycle,
   pending_entry_recovery |-> Null, pending_close_recovery |-> close]

(* get_or_create *)
Initial(key) == State(key, Null, Null)

Identity(state) == state.identity

(* One change of each instance is enough for records that supersede: a     *)
(* trade that is being closed.                                             *)
Closing(key) ==
  LET id == CHOOSE id \in TradeCycleIds : TRUE IN
  State(key,
        [trade_cycle_id |-> id, entry_remainder_cancelled |-> TRUE,
         frozen_entry_context |->
           [fill |-> "fill", entry_order_expires_at_bar |-> CHOOSE b \in Bars : TRUE]],
        id)

SavedStates == {Initial(k) : k \in Keys} \cup {Closing(k) : k \in Keys}

(* The lines are the same for every key. *)
OneKeysLines == {o \in JsonObjects : o.identity = CHOOSE k \in Keys : TRUE}

NoLines == {}

(* decode_state_line, tabulated: TLC reads every line of the run once. *)
Accepted ==
  {object \in OneKeysLines \cup {encode_state_line(s) : s \in States} :
     decode_envelope(object) # Error}

Readings == [object \in Accepted |-> decode_envelope(object)]

decode_state_line(object) == IF object \in Accepted THEN Readings[object] ELSE Error

(* The store is one of these records, and reads its lines with this codec. *)
ASSUME RecordsStoreAssumption ==
  /\ Keys = Identities /\ Values = States /\ NoState = Error
  /\ Found \subseteq JsonObjects
  /\ \A s \in States : KeyOf(s) = Identity(s) /\ Encode(s) = encode_state_line(s)
  /\ \A object \in Objects : Decode(object) = decode_envelope(object)

-----------------------------------------------------------------------------
(* The object on the line the file began with. *)
First == file[1].texts[1].object

(* An upgrade forgets nothing: when the file begins with the line of a     *)
(* state, from whichever release, the store starts and, until the instance *)
(* is saved again, serves that very state, its markers and its frozen fill *)
(* included (decode_state_line; README: "v1-v3 lines still load").         *)
UpgradeForgetsNothing ==
  \A w \in ReleaseLines : file # <<>> /\ file[1].ended /\ First = w.line =>
    /\ Readable(file) => process # "refused"
    /\ Serving /\ Cardinality(Records(file, Identity(w.state))) = 1 =>
         states[Identity(w.state)] = w.state

(* A store that serves has read nothing but lines of its releases: none    *)
(* with a field missing or too many, of a release to come, or of an        *)
(* aggregate that contradicts itself, is read as something it does not     *)
(* say (_reject_unknown_keys, __post_init__).                              *)
NothingInvented ==
  Serving => \A i \in 1 .. Len(file) :
    Decodes(file[i]) => \E w \in ReleaseLines : w.line = file[i].texts[1].object
=============================================================================
