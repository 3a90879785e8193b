---------------------------- MODULE DurableStore ----------------------------
(***************************************************************************)
(* JsonlStrategyInstanceRuntimeStateRepository: an append-only file of     *)
(* JSON lines, an in-memory index read from it once at startup, and a      *)
(* poison flag.  One lock serialises every call, so each is one step; but  *)
(* an append may stop half way, because the write fails or the process     *)
(* dies, and then what is in the file is a prefix of "record, newline".    *)
(*                                                                         *)
(* The file is a sequence of lines.  A line is the sequence of texts       *)
(* written since the last newline: append mode puts a new record behind    *)
(* whatever an unfinished line already holds.                              *)
(***************************************************************************)
EXTENDS Naturals, Sequences

CONSTANTS
  Keys,           \* strategy instance ids
  Values,         \* aggregates
  KeyOf(_),       \* an aggregate's strategy instance id
  InitialValue(_),\* the aggregate get_or_create makes for a key
  Encode(_),      \* encode_state_line
  Decode(_),      \* decode_state_line: an aggregate, or NoState when it raises
  NoState,
  None,
  Found,          \* JSON objects on the one line the file may begin with
  Saves,          \* bound: the aggregates handlers save
  Tears,          \* the partial appends that can happen
  MaxLines,       \* bound: no append to a file of this many lines,
  MaxTexts        \* bound: nor behind this many texts on one line

ASSUME StoreAssumption ==
  /\ \A v \in Values : KeyOf(v) \in Keys
  /\ \A k \in Keys : InitialValue(k) \in Values /\ KeyOf(InitialValue(k)) = k
  /\ None \notin Values /\ NoState \notin Values
  /\ None \notin [Keys -> Values \cup {None}]
  /\ Saves \subseteq Values
  /\ Tears \subseteq {"character", "fragment", "line"}
  /\ MaxLines \in Nat
  /\ MaxTexts \in Nat

(* What the store needs of its codec. *)
ASSUME CodecAssumption ==
  /\ \A v \in Values : Decode(Encode(v)) = v
  /\ \A o \in Found : Decode(o) \in Values \cup {NoState}

VARIABLES
  file,      \* the lines on disk
  states,    \* self._states
  poisoned,  \* self._poison is not None
  process    \* "up", "down", or "refused": replay raised at startup

vars == <<file, states, poisoned, process>>

Objects == Found \cup {Encode(v) : v \in Saves}
Texts == [object : Objects, cut : {"no", "record", "character"}]
Lines == [texts : Seq(Texts), ended : BOOLEAN]

-----------------------------------------------------------------------------
(* _append: text, newline, flush, fsync. *)

AppendText(f, text) ==
  IF f = <<>> \/ f[Len(f)].ended
  THEN Append(f, [texts |-> <<text>>, ended |-> FALSE])
  ELSE [f EXCEPT ![Len(f)].texts = Append(@, text)]

EndLine(f) == [f EXCEPT ![Len(f)].ended = TRUE]

(* How far an append can get: "fragment" stops inside the record, "line"   *)
(* before its newline, and "character" between the bytes of a character    *)
(* json.dumps(ensure_ascii=False) left as it is.                           *)
Written(f, v, part) ==
  LET cut == CASE part = "fragment"  -> "record"
               [] part = "character" -> "character"
               [] OTHER              -> "no"
      longer == AppendText(f, [object |-> Encode(v), cut |-> cut])
  IN
  CASE part = "nothing" -> f
    [] part = "all"     -> EndLine(longer)
    [] OTHER            -> longer

-----------------------------------------------------------------------------
(***************************************************************************)
(* _replay.  A line parses as JSON when it is exactly one whole record,    *)
(* and decodes when that record is an aggregate's.                         *)
(***************************************************************************)
Parses(line) == Len(line.texts) = 1 /\ line.texts[1].cut = "no"

Decodes(line) == Parses(line) /\ Decode(line.texts[1].object) # NoState

ValueOn(line) == Decode(line.texts[1].object)

(* read_text decodes the whole file before a line is looked at. *)
Readable(f) ==
  \A i \in 1 .. Len(f) : \A j \in 1 .. Len(f[i].texts) : f[i].texts[j].cut # "character"

(* Faulty variant: the last line gets no leniency. *)
ReplaySucceedsStrictly(f) == \A i \in 1 .. Len(f) : Decodes(f[i])

(* Only a parse failure of the last line is tolerated. *)
ReplaySucceeds(f) ==
  /\ Readable(f)
  /\ \A i \in 1 .. Len(f) : Decodes(f[i]) \/ (i = Len(f) /\ ~Parses(f[i]))

Holds(line, k) == Decodes(line) /\ KeyOf(ValueOn(line)) = k

Records(f, k) == {i \in 1 .. Len(f) : Holds(f[i], k)}

Latest(f, k) ==
  f[CHOOSE i \in 1 .. Len(f) : Holds(f[i], k) /\ \A j \in i + 1 .. Len(f) : ~Holds(f[j], k)]

Earliest(f, k) ==
  f[CHOOSE i \in 1 .. Len(f) : Holds(f[i], k) /\ \A j \in 1 .. i - 1 : ~Holds(f[j], k)]

(* Faulty variant: the first record of a key wins. *)
ReplayedFirst(f) ==
  [k \in Keys |->
     IF Records(f, k) = {} THEN None ELSE ValueOn(Earliest(f, k))]

(* The later record of a key supersedes the earlier ones. *)
Replayed(f) ==
  [k \in Keys |->
     IF Records(f, k) = {} THEN None ELSE ValueOn(Latest(f, k))]

-----------------------------------------------------------------------------
TypeOK ==
  /\ file \in Seq(Lines)
  /\ states \in [Keys -> Values \cup {None}]
  /\ poisoned \in BOOLEAN
  /\ process \in {"up", "down", "refused"}

(* No file yet, or one an earlier release or somebody else has left. *)
Init ==
  /\ file \in {<<>>} \cup
       {<<[texts |-> <<[object |-> o, cut |-> "no"]>>, ended |-> TRUE]>> : o \in Found}
  /\ states = [k \in Keys |-> None]
  /\ poisoned = FALSE
  /\ process = "down"

Serving == process = "up" /\ ~poisoned

(* get_or_create appends for an unknown key, save for a known one; every   *)
(* other call reads, or raises and changes nothing.                        *)
Appends(v) ==
  /\ Serving
  /\ Len(file) < MaxLines
  /\ file # <<>> => file[Len(file)].ended \/ Len(file[Len(file)].texts) < MaxTexts
  /\ states[KeyOf(v)] = None => v = InitialValue(KeyOf(v))

(* The append comes first, the index after it. *)
Save(v) ==
  /\ Appends(v)
  /\ file' = Written(file, v, "all")
  /\ states' = [states EXCEPT ![KeyOf(v)] = v]
  /\ UNCHANGED <<poisoned, process>>

(* Faulty variant: the store goes on after a failed write. *)
SaveFailsUnpoisoned(v) ==
  /\ Appends(v)
  /\ \E part \in {"nothing", "all"} \cup Tears : file' = Written(file, v, part)
  /\ UNCHANGED <<states, poisoned, process>>

(* write, flush or fsync raises. *)
SaveFails(v) ==
  /\ Appends(v)
  /\ \E part \in {"nothing", "all"} \cup Tears : file' = Written(file, v, part)
  /\ poisoned' = TRUE
  /\ UNCHANGED <<states, process>>

(* The process dies inside an append, or between two calls. *)
Die(v) ==
  /\ process = "up"
  /\ \/ UNCHANGED file
     \/ /\ Appends(v)
        /\ \E part \in {"all"} \cup Tears : file' = Written(file, v, part)
  /\ process' = "down"
  /\ UNCHANGED <<states, poisoned>>

(* A new repository instance. *)
Start ==
  /\ process = "down"
  /\ IF ReplaySucceeds(file)
     THEN process' = "up" /\ states' = Replayed(file) /\ poisoned' = FALSE
     ELSE process' = "refused" /\ UNCHANGED <<states, poisoned>>
  /\ UNCHANGED file

(* A store that refused to start stays as it is until someone mends it. *)
Refused == process = "refused" /\ UNCHANGED vars

Next ==
  \/ \E v \in Saves : Save(v) \/ SaveFails(v) \/ Die(v)
  \/ Start
  \/ Refused

Spec == Init /\ [][Next]_vars

-----------------------------------------------------------------------------
(* Properties. *)

(* What a handler reads is what a restart would give it: every save that   *)
(* returned is in the file and wins over all earlier ones, and none that   *)
(* raised is being served.  The one the crash safety of every marker rests *)
(* on.                                                                     *)
ServedIsDurable ==
  Serving => ReplaySucceeds(file) /\ states = Replayed(file)

Map ==
  INSTANCE DurableMap
    WITH saved <- Replayed(file),
         view <- IF Serving THEN states ELSE None

(* The file, its replay and the poison flag implement a durable map. *)
ImplementsDurableMap == Map!Spec

(* A file of complete records. *)
Clean(f) == \A i \in 1 .. Len(f) : f[i].ended /\ Decodes(f[i])

(* An append to a clean file, wherever it stops, leaves a file that a      *)
(* restart accepts and that differs from the old one at most in the value  *)
(* being written; only one that stops inside a character leaves a file no  *)
(* restart can read (_append, _replay).                                    *)
OneTearIsHarmless ==
  [][Clean(file) /\ file' # file /\ Readable(file') =>
       /\ ReplaySucceeds(file')
       /\ \E v \in Saves :
            Replayed(file') \in {Replayed(file), [Replayed(file) EXCEPT ![KeyOf(v)] = v]}]_vars
=============================================================================
