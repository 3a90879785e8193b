------------------------- MODULE DurableStoreProofs -------------------------
(***************************************************************************)
(* Theorems about DurableStore and UpgradedStore, for every set of         *)
(* instances and a file of any length.                                     *)
(*                                                                         *)
(* The theorems about DurableStore hold for every codec that satisfies     *)
(* CodecAssumption, and cite nothing about the codec beyond it. The last   *)
(* two sections are about the codec of StateRecords: which lines it        *)
(* accepts and as what, and so what a store that reads its lines with it   *)
(* (RecordsStoreAssumption) recalls of the lines of earlier releases.      *)
(*                                                                         *)
(* That the store serves what a restart would read is proved for as long   *)
(* as nothing is appended behind an unfinished line (MaxTexts <= 1); with  *)
(* such an append it is false, as the run store_glued shows.               *)
(***************************************************************************)
EXTENDS UpgradedStore, FiniteSetTheorems, SequenceTheorems, WellFoundedInduction, TLAPS

-----------------------------------------------------------------------------
(* Replay and its last records. *)

Last(f, k, i) == Holds(f[i], k) /\ \A j \in i + 1 .. Len(f) : ~Holds(f[j], k)

(* An instance with a record has a last one. *)
LEMMA LastRecordExists ==
  ASSUME NEW f \in Seq(Lines), NEW k, Records(f, k) # {}
  PROVE  \E i \in 1 .. Len(f) : Last(f, k, i)
<1> DEFINE behind == {m \in Nat : m < Len(f) /\ Holds(f[Len(f) - m], k)}
<1>1. behind # {}
  <2>1. PICK i \in 1 .. Len(f) : Holds(f[i], k)
    BY DEF Records
  <2>2. Len(f) - i \in Nat /\ Len(f) - i < Len(f) /\ Len(f) - (Len(f) - i) = i
    OBVIOUS
  <2>3. Len(f) - i \in behind
    BY <2>1, <2>2
  <2> QED BY <2>3
<1> DEFINE R == OpToRel(<, Nat)
<1>2. IsWellFoundedOn(R, Nat)
  BY NatLessThanWellFounded
<1> HIDE DEF R
<1>3. PICK m \in behind : \A y \in behind : ~(<<y, m>> \in R)
  BY <1>1, <1>2, WFMin
<1>4. \A y \in behind : ~(y < m)
  BY <1>3 DEF R, OpToRel
<1>5. Len(f) - m \in 1 .. Len(f) /\ Holds(f[Len(f) - m], k)
  OBVIOUS
<1>6. ASSUME NEW j \in Len(f) - m + 1 .. Len(f)
      PROVE  ~Holds(f[j], k)
  <2>1. Len(f) - j \in Nat /\ Len(f) - j < m /\ Len(f) - (Len(f) - j) = j
    BY <1>6
  <2>2. Len(f) - j \notin behind /\ Len(f) - j < Len(f)
    BY <1>4, <2>1
  <2> QED BY <2>1, <2>2
<1> QED BY <1>5, <1>6 DEF Last

(* It is the one replay takes. *)
LEMMA LatestIsLast ==
  ASSUME NEW f \in Seq(Lines), NEW k, NEW i \in 1 .. Len(f), Last(f, k, i)
  PROVE  Latest(f, k) = f[i] /\ Records(f, k) # {}
<1>1. \A m \in 1 .. Len(f) : Last(f, k, m) => m = i
  BY DEF Last
<1>2. Latest(f, k) = f[CHOOSE m \in 1 .. Len(f) : Last(f, k, m)]
  BY DEF Latest, Last
<1>3. (CHOOSE m \in 1 .. Len(f) : Last(f, k, m)) = i
  BY <1>1
<1>4. i \in Records(f, k)
  BY DEF Records, Last
<1> QED BY <1>2, <1>3, <1>4

(* What a file with one more line replays to: a line that holds no record  *)
(* changes nothing, another one the value of its own instance.             *)
LEMMA ReplayOfOneMore ==
  ASSUME NEW f \in Seq(Lines), NEW line \in Lines, NEW k \in Keys
  PROVE  Replayed(Append(f, line))[k] =
           IF Holds(line, k) THEN ValueOn(line) ELSE Replayed(f)[k]
<1> DEFINE g == Append(f, line)
<1>1. /\ g \in Seq(Lines) /\ Len(f) \in Nat /\ Len(g) = Len(f) + 1
      /\ g[Len(f) + 1] = line
      /\ \A i \in 1 .. Len(f) : g[i] = f[i]
  OBVIOUS
<1> HIDE DEF g
<1>2. CASE Holds(line, k)
  <2>1. Len(g) \in 1 .. Len(g) /\ Last(g, k, Len(g))
    BY <1>1, <1>2 DEF Last
  <2>2. Latest(g, k) = line /\ Records(g, k) # {}
    BY <1>1, <2>1, LatestIsLast
  <2> QED BY <1>2, <2>2 DEF Replayed, g
<1>3. CASE ~Holds(line, k) /\ Records(f, k) = {}
  <2>1. Records(g, k) = {}
    BY <1>1, <1>3 DEF Records
  <2> QED BY <1>3, <2>1 DEF Replayed, g
<1>4. CASE ~Holds(line, k) /\ Records(f, k) # {}
  <2>1. PICK i \in 1 .. Len(f) : Last(f, k, i)
    BY <1>4, LastRecordExists
  <2>2. i \in 1 .. Len(g) /\ Last(g, k, i)
    BY <1>1, <1>4, <2>1 DEF Last
  <2>3. /\ Latest(f, k) = f[i] /\ Latest(g, k) = g[i] /\ g[i] = f[i]
        /\ Records(g, k) # {}
    BY <1>1, <2>1, <2>2, LatestIsLast
  <2> QED BY <1>4, <2>3 DEF Replayed, g
<1> QED BY <1>2, <1>3, <1>4

(* Replay gives an instance one of its aggregates, or none. *)
LEMMA ReplayedType ==
  ASSUME NEW f \in Seq(Lines)
  PROVE  Replayed(f) \in [Keys -> Values \cup {None}]
<1>1. ASSUME NEW line \in Lines, Decodes(line)
      PROVE  ValueOn(line) \in Values
  <2>1. line.texts[1] \in Texts
    BY <1>1 DEF Decodes, Parses, Lines
  <2>2. Decode(line.texts[1].object) \in Values \cup {NoState}
    BY <2>1, CodecAssumption, StoreAssumption DEF Texts, Objects
  <2> QED BY <1>1, <2>2 DEF Decodes, ValueOn
<1>2. ASSUME NEW k \in Keys, Records(f, k) # {}
      PROVE  ValueOn(Latest(f, k)) \in Values
  <2>1. PICK i \in 1 .. Len(f) : Last(f, k, i)
    BY <1>2, LastRecordExists
  <2>2. Latest(f, k) = f[i] /\ f[i] \in Lines /\ Decodes(f[i])
    BY <2>1, LatestIsLast DEF Last, Holds
  <2> QED BY <1>1, <2>2
<1> QED BY <1>2 DEF Replayed

-----------------------------------------------------------------------------
(* Appends. *)

Parts == {"nothing", "all"} \cup Tears

(* The line an append starts, as far as it gets. *)
NewLine(v, part) ==
  [texts |-> <<[object |-> Encode(v),
                cut |-> CASE part = "fragment"  -> "record"
                          [] part = "character" -> "character"
                          [] OTHER              -> "no"]>>,
   ended |-> part = "all"]

LEMMA TextType ==
  ASSUME NEW v \in Saves, NEW part
  PROVE  [object |-> Encode(v),
          cut |-> CASE part = "fragment"  -> "record"
                    [] part = "character" -> "character"
                    [] OTHER              -> "no"] \in Texts
<1> DEFINE cut == CASE part = "fragment"  -> "record"
                    [] part = "character" -> "character"
                    [] OTHER              -> "no"
<1>1. cut \in {"no", "record", "character"}
  <2>1. CASE part = "fragment"
    BY <2>1
  <2>2. CASE part = "character"
    BY <2>2
  <2>3. CASE part # "fragment" /\ part # "character"
    BY <2>3
  <2> QED BY <2>1, <2>2, <2>3
<1> HIDE DEF cut
<1>2. [object |-> Encode(v), cut |-> cut] \in Texts
  BY <1>1 DEF Texts, Objects
<1> QED BY <1>2 DEF cut

LEMMA NewLineType ==
  ASSUME NEW v \in Saves, NEW part
  PROVE  NewLine(v, part) \in Lines
<1> DEFINE text == [object |-> Encode(v),
                    cut |-> CASE part = "fragment"  -> "record"
                              [] part = "character" -> "character"
                              [] OTHER              -> "no"]
<1>1. text \in Texts
  BY TextType
<1>2. NewLine(v, part) = [texts |-> <<text>>, ended |-> part = "all"]
  BY DEF NewLine
<1> HIDE DEF text
<1>3. <<text>> \in Seq(Texts)
  BY <1>1
<1> QED BY <1>2, <1>3 DEF Lines

(* The newline ends the line just begun. *)
LEMMA LastReplaced ==
  ASSUME NEW S, NEW f \in Seq(S), NEW a \in S, NEW b \in S
  PROVE  [Append(f, a) EXCEPT ![Len(f) + 1] = b] = Append(f, b)
<1> DEFINE g == Append(f, a)
           h == [g EXCEPT ![Len(f) + 1] = b]
<1>1. /\ g \in Seq(S) /\ Len(g) = Len(f) + 1 /\ Len(f) \in Nat
      /\ \A i \in 1 .. Len(f) : g[i] = f[i]
  BY AppendProperties, LenProperties
<1>2. Len(f) + 1 \in 1 .. Len(g)
  BY <1>1
<1> HIDE DEF g
<1>3. /\ h \in Seq(S) /\ Len(h) = Len(f) + 1
      /\ \A i \in 1 .. Len(f) + 1 : h[i] = IF i = Len(f) + 1 THEN b ELSE g[i]
  BY <1>1, <1>2, ExceptSeq
<1>4. /\ Append(f, b) \in Seq(S) /\ Len(Append(f, b)) = Len(f) + 1
      /\ \A i \in 1 .. Len(f) + 1 : Append(f, b)[i] = IF i = Len(f) + 1 THEN b ELSE f[i]
  BY <1>1, AppendProperties
<1> HIDE DEF h
<1>5. h = Append(f, b)
  BY <1>1, <1>3, <1>4, SeqEqual
<1> QED BY <1>5 DEF g, h

LEMMA LineEnded ==
  ASSUME NEW S, NEW line \in [texts : S, ended : BOOLEAN]
  PROVE  /\ [line EXCEPT !.ended = TRUE] \in [texts : S, ended : BOOLEAN]
         /\ [line EXCEPT !.ended = TRUE].texts = line.texts
         /\ [line EXCEPT !.ended = TRUE].ended
OBVIOUS

LEMMA SameLine ==
  ASSUME NEW S, NEW a \in [texts : S, ended : BOOLEAN], NEW b \in [texts : S, ended : BOOLEAN],
         a.texts = b.texts, a.ended <=> b.ended
  PROVE  a = b
OBVIOUS

(* Behind whole lines an append is a line of its own. *)
LEMMA WrittenBehindWhole ==
  ASSUME NEW f \in Seq(Lines), f = <<>> \/ f[Len(f)].ended,
         NEW v \in Saves, NEW part \in Parts \ {"nothing"}
  PROVE  Written(f, v, part) = Append(f, NewLine(v, part))
<1> DEFINE cut == CASE part = "fragment"  -> "record"
                    [] part = "character" -> "character"
                    [] OTHER              -> "no"
           text == [object |-> Encode(v), cut |-> cut]
           longer == AppendText(f, text)
           line == [texts |-> <<text>>, ended |-> FALSE]
<1>0. text \in Texts
  BY TextType
<1>1. longer = Append(f, line)
  BY DEF AppendText
<1>2. Written(f, v, part) = IF part = "all" THEN EndLine(longer) ELSE longer
  BY DEF Written
<1>3. NewLine(v, part) = [texts |-> <<text>>, ended |-> part = "all"]
  BY DEF NewLine
<1> HIDE DEF text, cut
<1>4. EndLine(Append(f, line)) = Append(f, [texts |-> <<text>>, ended |-> TRUE])
  <2> DEFINE g == Append(f, line)
  <2>1. Len(f) \in Nat /\ Len(g) = Len(f) + 1 /\ g[Len(f) + 1] = line
    OBVIOUS
  <2>2. EndLine(g) = [g EXCEPT ![Len(f) + 1] = [line EXCEPT !.ended = TRUE]]
    BY <2>1 DEF EndLine
  <2>3. [line EXCEPT !.ended = TRUE] = [texts |-> <<text>>, ended |-> TRUE]
    <3> DEFINE whole == [texts |-> <<text>>, ended |-> TRUE]
               ending == [line EXCEPT !.ended = TRUE]
    <3>1. line \in [texts : {<<text>>}, ended : BOOLEAN]
      OBVIOUS
    <3>2. /\ whole \in [texts : {<<text>>}, ended : BOOLEAN]
          /\ whole.texts = <<text>> /\ whole.ended /\ line.texts = <<text>>
      OBVIOUS
    <3> HIDE DEF line, whole
    <3>3. /\ ending \in [texts : {<<text>>}, ended : BOOLEAN]
          /\ ending.texts = line.texts /\ ending.ended
      BY <3>1, LineEnded
    <3> HIDE DEF ending
    <3>4. ending = whole
      BY <3>2, <3>3, SameLine
    <3> QED BY <3>4 DEF ending, whole
  <2>4. line \in Lines /\ [texts |-> <<text>>, ended |-> TRUE] \in Lines
    <3>1. text \in Texts
      BY <1>0
    <3>2. <<text>> \in Seq(Texts)
      BY <3>1
    <3> QED BY <3>2 DEF Lines
  <2> DEFINE ended == [texts |-> <<text>>, ended |-> TRUE]
  <2>5. EndLine(Append(f, line)) = [Append(f, line) EXCEPT ![Len(f) + 1] = ended]
    BY <2>2, <2>3
  <2>6. line \in Lines /\ ended \in Lines
    BY <2>4
  <2> HIDE DEF line, ended
  <2>7. EndLine(Append(f, line)) = Append(f, ended)
    BY <2>5, <2>6, LastReplaced
  <2> QED BY <2>7 DEF ended
<1>5. CASE part = "all"
  BY <1>1, <1>2, <1>3, <1>4, <1>5
<1>6. CASE part # "all"
  BY <1>1, <1>2, <1>3, <1>6
<1> QED BY <1>5, <1>6

(* What replay makes of the line an append started: a whole record is read *)
(* as what was saved, newline or not; a part of one is no record.          *)
LEMMA NewLineReads ==
  ASSUME NEW v \in Saves, NEW part \in Parts \ {"nothing"}
  PROVE  LET line == NewLine(v, part) IN
         /\ Len(line.texts) = 1
         /\ line.ended <=> part = "all"
         /\ line.texts[1].cut = "character" <=> part = "character"
         /\ part \in {"all", "line"} => Decodes(line) /\ ValueOn(line) = v
         /\ part \notin {"all", "line"} => ~Parses(line)
         /\ line.ended => line.texts[1].cut = "no"
<1> DEFINE cut == CASE part = "fragment"  -> "record"
                    [] part = "character" -> "character"
                    [] OTHER              -> "no"
           text == [object |-> Encode(v), cut |-> cut]
           line == NewLine(v, part)
<1>1. line = [texts |-> <<text>>, ended |-> part = "all"]
  BY DEF NewLine
<1>2. cut = IF part = "fragment" THEN "record"
            ELSE IF part = "character" THEN "character" ELSE "no"
  <2>1. CASE part = "fragment"
    BY <2>1
  <2>2. CASE part = "character"
    BY <2>2
  <2>3. CASE part # "fragment" /\ part # "character"
    BY <2>3
  <2> QED BY <2>1, <2>2, <2>3
<1> HIDE DEF cut, line
<1>3. /\ Len(line.texts) = 1 /\ line.texts[1].object = Encode(v) /\ line.texts[1].cut = cut
      /\ line.ended <=> part = "all"
  BY <1>1
<1>4. part \in {"all", "line", "fragment", "character"}
  BY StoreAssumption DEF Parts
<1>5. Parses(line) <=> part \in {"all", "line"}
  BY <1>2, <1>3, <1>4 DEF Parses
<1>6. Decode(Encode(v)) = v /\ v # NoState
  BY CodecAssumption, StoreAssumption
<1>7. ValueOn(line) = v /\ (Parses(line) => Decodes(line))
  BY <1>3, <1>6 DEF ValueOn, Decodes
<1> QED BY <1>2, <1>3, <1>4, <1>5, <1>7 DEF line

LEMMA ReplayOfNewLine ==
  ASSUME NEW f \in Seq(Lines), NEW v \in Saves, NEW part \in Parts \ {"nothing"}
  PROVE  Replayed(Append(f, NewLine(v, part))) =
           IF part \in {"all", "line"} THEN [Replayed(f) EXCEPT ![KeyOf(v)] = v]
           ELSE Replayed(f)
<1> DEFINE line == NewLine(v, part)
           g == Append(f, line)
<1>1. line \in Lines /\ g \in Seq(Lines)
  BY NewLineType
<1>2. \A k \in Keys : Replayed(g)[k] = IF Holds(line, k) THEN ValueOn(line) ELSE Replayed(f)[k]
  BY <1>1, ReplayOfOneMore
<1>3. /\ part \in {"all", "line"} => Decodes(line) /\ ValueOn(line) = v
      /\ part \notin {"all", "line"} => ~Parses(line)
  BY NewLineReads
<1>4. Replayed(f) \in [Keys -> Values \cup {None}] /\ Replayed(g) \in [Keys -> Values \cup {None}]
  BY <1>1, ReplayedType
<1> HIDE DEF g, line
<1>5. CASE part \in {"all", "line"}
  <2>1. \A k \in Keys : Holds(line, k) <=> k = KeyOf(v)
    BY <1>3, <1>5 DEF Holds
  <2>2. Replayed(g) = [Replayed(f) EXCEPT ![KeyOf(v)] = v]
    BY <1>2, <1>3, <1>4, <1>5, <2>1
  <2> QED BY <1>5, <2>2 DEF g, line
<1>6. CASE part \notin {"all", "line"}
  <2>1. \A k \in Keys : ~Holds(line, k)
    BY <1>3, <1>6 DEF Holds, Decodes
  <2>2. Replayed(g) = Replayed(f)
    BY <1>2, <1>4, <2>1
  <2> QED BY <1>6, <2>2 DEF g, line
<1> QED BY <1>5, <1>6

(* Behind complete records a restart accepts whatever an append leaves,    *)
(* unless it stopped inside a character.                                   *)
LEMMA SucceedsWithNewLine ==
  ASSUME NEW f \in Seq(Lines), \A i \in 1 .. Len(f) : Decodes(f[i]),
         NEW v \in Saves, NEW part \in Parts \ {"nothing", "character"}
  PROVE  ReplaySucceeds(Append(f, NewLine(v, part)))
<1> DEFINE line == NewLine(v, part)
           g == Append(f, line)
<1>1. /\ Len(f) \in Nat /\ Len(g) = Len(f) + 1 /\ g[Len(f) + 1] = line
      /\ \A i \in 1 .. Len(f) : g[i] = f[i]
  BY NewLineType, AppendProperties, LenProperties
<1>2. /\ Len(line.texts) = 1 /\ line.texts[1].cut # "character"
      /\ Decodes(line) \/ ~Parses(line)
  BY NewLineReads
<1> HIDE DEF line, g
<1>3. Readable(g)
  <2> SUFFICES ASSUME NEW i \in 1 .. Len(g), NEW j \in 1 .. Len(g[i].texts)
               PROVE  g[i].texts[j].cut # "character"
    BY DEF Readable
  <2>1. CASE i = Len(g)
    BY <1>1, <1>2, <2>1
  <2>2. CASE i \in 1 .. Len(f)
    BY <1>1, <2>2 DEF Decodes, Parses
  <2> QED BY <1>1, <2>1, <2>2
<1>4. \A i \in 1 .. Len(g) : Decodes(g[i]) \/ (i = Len(g) /\ ~Parses(g[i]))
  BY <1>1, <1>2
<1> QED BY <1>3, <1>4 DEF ReplaySucceeds, g, line

-----------------------------------------------------------------------------
(* Types, whatever is appended behind what. *)

LEMMA WrittenType ==
  ASSUME NEW f \in Seq(Lines), NEW v \in Saves, NEW part \in Parts
  PROVE  Written(f, v, part) \in Seq(Lines)
<1>1. CASE part = "nothing"
  BY <1>1 DEF Written
<1>2. CASE part # "nothing" /\ (f = <<>> \/ f[Len(f)].ended)
  BY <1>2, WrittenBehindWhole, NewLineType, AppendProperties
<1>3. CASE part # "nothing" /\ f # <<>> /\ ~f[Len(f)].ended
  <2> DEFINE text == [object |-> Encode(v),
                      cut |-> CASE part = "fragment"  -> "record"
                                [] part = "character" -> "character"
                                [] OTHER              -> "no"]
             longer == AppendText(f, text)
  <2>1. text \in Texts
    BY TextType
  <2>2. Written(f, v, part) = IF part = "all" THEN EndLine(longer) ELSE longer
    BY <1>3 DEF Written
  <2> HIDE DEF text
  <2>3. Len(f) \in 1 .. Len(f) /\ f[Len(f)] \in Lines
    BY <1>3, LenProperties, EmptySeq
  <2> DEFINE line == [f[Len(f)] EXCEPT !.texts = Append(@, text)]
  <2>4. line \in Lines
    <3> DEFINE old == f[Len(f)]
    <3>1. old \in [texts : Seq(Texts), ended : BOOLEAN]
      BY <2>3 DEF Lines
    <3> HIDE DEF old
    <3>2. Append(old.texts, text) \in Seq(Texts)
      BY <2>1, <3>1, AppendProperties
    <3>3. [old EXCEPT !.texts = Append(old.texts, text)] \in Lines
      BY <3>1, <3>2 DEF Lines
    <3> QED BY <3>3 DEF old
  <2>5. longer = [f EXCEPT ![Len(f)] = line]
    BY <1>3 DEF AppendText
  <2> HIDE DEF line, longer
  <2>6. longer \in Seq(Lines) /\ Len(longer) = Len(f)
    BY <2>3, <2>4, <2>5, ExceptSeq
  <2>7. EndLine(longer) \in Seq(Lines)
    <3>1. longer[Len(longer)] \in Lines
      BY <2>3, <2>6
    <3>2. [longer[Len(longer)] EXCEPT !.ended = TRUE] \in Lines
      BY <3>1 DEF Lines
    <3> QED BY <2>3, <2>6, <3>2, ExceptSeq DEF EndLine
  <2> QED BY <2>2, <2>6, <2>7
<1> QED BY <1>1, <1>2, <1>3

LEMMA InitTypes == Init => TypeOK
<1> SUFFICES ASSUME Init PROVE TypeOK
  OBVIOUS
<1>1. ASSUME NEW o \in Found
      PROVE  <<[texts |-> <<[object |-> o, cut |-> "no"]>>, ended |-> TRUE]>> \in Seq(Lines)
  <2> DEFINE text == [object |-> o, cut |-> "no"]
  <2>1. text \in Texts
    BY DEF Texts, Objects
  <2> HIDE DEF text
  <2>2. [texts |-> <<text>>, ended |-> TRUE] \in Lines
    BY <2>1 DEF Lines
  <2>3. <<[texts |-> <<text>>, ended |-> TRUE]>> \in Seq(Lines)
    BY <2>2
  <2> QED BY <2>3 DEF text
<1>2. file \in Seq(Lines)
  <2>1. CASE file = <<>>
    BY <2>1
  <2>2. CASE file # <<>>
    <3>1. PICK o \in Found :
            file = <<[texts |-> <<[object |-> o, cut |-> "no"]>>, ended |-> TRUE]>>
      BY <2>2 DEF Init
    <3> QED BY <1>1, <3>1
  <2> QED BY <2>1, <2>2
<1> QED BY <1>2 DEF Init, TypeOK

(* What a step may do to the file: nothing, or an append that got as far   *)
(* as it got.                                                              *)
LEMMA FileSteps ==
  ASSUME Next
  PROVE  \/ UNCHANGED file
         \/ \E v \in Saves, part \in Parts : Appends(v) /\ file' = Written(file, v, part)
<1>1. ASSUME NEW v \in Saves, Save(v) \/ SaveFails(v) \/ Die(v)
      PROVE  \/ UNCHANGED file
             \/ \E part \in Parts : Appends(v) /\ file' = Written(file, v, part)
  BY <1>1 DEF Save, SaveFails, Die, Parts
<1> QED BY <1>1 DEF Next, Start, Refused, vars

LEMMA NextTypes == TypeOK /\ [Next]_vars => TypeOK'
<1> SUFFICES ASSUME TypeOK, [Next]_vars PROVE TypeOK'
  OBVIOUS
<1>1. CASE UNCHANGED vars
  BY <1>1 DEF TypeOK, vars
<1>2. CASE Next
  <2>1. file' \in Seq(Lines)
    BY <1>2, FileSteps, WrittenType DEF TypeOK
  <2>2. ASSUME NEW v \in Saves, Save(v) \/ SaveFails(v) \/ Die(v)
        PROVE  TypeOK'
    <3>1. v \in Values
      BY StoreAssumption
    <3> QED BY <2>1, <2>2, <3>1 DEF Save, SaveFails, Die, TypeOK
  <2>3. CASE Start
    <3>1. Replayed(file) \in [Keys -> Values \cup {None}]
      BY ReplayedType DEF TypeOK
    <3> QED BY <2>1, <2>3, <3>1 DEF Start, TypeOK
  <2>4. CASE Refused
    BY <2>4 DEF Refused, TypeOK, vars
  <2> QED BY <1>2, <2>2, <2>3, <2>4 DEF Next
<1> QED BY <1>1, <1>2

(* The file, the index and the flag have their types in every reachable    *)
(* state, whatever is appended behind what.                                *)
THEOREM StoreTypes == Spec => []TypeOK
BY InitTypes, NextTypes, PTL DEF Spec

-----------------------------------------------------------------------------
(* One torn append. *)

(* An append to a file of complete records (_append), wherever it stops,   *)
(* leaves one _replay accepts and that differs from the old one at most in *)
(* the value being written, unless it stopped inside a character.          *)
THEOREM TornAppendIsHarmless == Spec => OneTearIsHarmless
<1> DEFINE Harmless ==
      Clean(file) /\ file' # file /\ Readable(file') =>
        /\ ReplaySucceeds(file')
        /\ \E v \in Saves :
             Replayed(file') \in {Replayed(file), [Replayed(file) EXCEPT ![KeyOf(v)] = v]}
<1>1. TypeOK /\ [Next]_vars => [Harmless]_vars
  <2> SUFFICES ASSUME TypeOK, Next, Clean(file), file' # file, Readable(file')
               PROVE  /\ ReplaySucceeds(file')
                      /\ \E v \in Saves : Replayed(file') \in
                           {Replayed(file), [Replayed(file) EXCEPT ![KeyOf(v)] = v]}
    OBVIOUS
  <2>1. PICK v \in Saves, part \in Parts : file' = Written(file, v, part)
    BY FileSteps
  <2>2. part # "nothing"
    BY <2>1 DEF Written
  <2>3. file \in Seq(Lines) /\ (file = <<>> \/ file[Len(file)].ended)
    <3>1. file \in Seq(Lines)
      BY DEF TypeOK
    <3>2. file # <<>> => Len(file) \in 1 .. Len(file)
      BY <3>1, LenProperties, EmptySeq
    <3> QED BY <3>1, <3>2 DEF Clean
  <2>4. file' = Append(file, NewLine(v, part))
    BY <2>1, <2>2, <2>3, WrittenBehindWhole
  <2>5. part # "character"
    <3> DEFINE line == NewLine(v, part)
    <3>1. Len(file') \in 1 .. Len(file') /\ file'[Len(file')] = line
      BY <2>3, <2>4, NewLineType, AppendProperties, LenProperties
    <3>2. Len(line.texts) = 1 /\ (line.texts[1].cut = "character" <=> part = "character")
      BY <2>2, NewLineReads
    <3> HIDE DEF line
    <3> QED BY <3>1, <3>2 DEF Readable
  <2>6. ReplaySucceeds(file')
    BY <2>2, <2>3, <2>4, <2>5, SucceedsWithNewLine DEF Clean
  <2>7. Replayed(file') \in {Replayed(file), [Replayed(file) EXCEPT ![KeyOf(v)] = v]}
    BY <2>2, <2>3, <2>4, ReplayOfNewLine
  <2> QED BY <2>6, <2>7
<1> QED BY <1>1, StoreTypes, PTL DEF Spec, OneTearIsHarmless

-----------------------------------------------------------------------------
(* The store as long as nothing is appended behind an unfinished line. *)

(* A line is one text, and one that was ended is a whole record. *)
OneRecordPerLine ==
  \A i \in 1 .. Len(file) :
    Len(file[i].texts) = 1 /\ (file[i].ended => file[i].texts[1].cut = "no")

DurableInv == TypeOK /\ OneRecordPerLine /\ ServedIsDurable

LEMMA InitDurable == Init => DurableInv
<1> SUFFICES ASSUME Init PROVE DurableInv
  OBVIOUS
<1>1. OneRecordPerLine
  <2>1. CASE file = <<>>
    BY <2>1 DEF OneRecordPerLine
  <2>2. CASE file # <<>>
    <3>1. PICK o \in Found :
            file = <<[texts |-> <<[object |-> o, cut |-> "no"]>>, ended |-> TRUE]>>
      BY <2>2 DEF Init
    <3> QED BY <3>1 DEF OneRecordPerLine
  <2> QED BY <2>1, <2>2
<1> QED BY <1>1, InitTypes DEF Init, DurableInv, ServedIsDurable, Serving

(* An append is a line of its own. *)
LEMMA AppendsBehindWhole ==
  ASSUME MaxTexts <= 1, DurableInv, NEW v \in Saves, Appends(v), NEW part \in Parts \ {"nothing"}
  PROVE  Written(file, v, part) = Append(file, NewLine(v, part))
<1>1. file \in Seq(Lines) /\ (file # <<>> => Len(file) \in 1 .. Len(file))
  BY LenProperties, EmptySeq DEF DurableInv, TypeOK
<1>2. file = <<>> \/ file[Len(file)].ended
  <2> SUFFICES ASSUME file # <<>>, ~file[Len(file)].ended PROVE FALSE
    OBVIOUS
  <2>1. Len(file[Len(file)].texts) = 1
    BY <1>1 DEF DurableInv, OneRecordPerLine
  <2>2. Len(file[Len(file)].texts) < MaxTexts
    BY DEF Appends
  <2> QED BY <2>1, <2>2, StoreAssumption
<1> QED BY <1>1, <1>2, WrittenBehindWhole

(* What a restart would read after an append that got as far as part. *)
LEMMA ReplayAfterAppend ==
  ASSUME MaxTexts <= 1, DurableInv, NEW v \in Saves, Appends(v), NEW part \in Parts,
         file' = Written(file, v, part)
  PROVE  Replayed(file') =
           IF part \in {"all", "line"} THEN [Replayed(file) EXCEPT ![KeyOf(v)] = v]
           ELSE Replayed(file)
<1>1. CASE part = "nothing"
  BY <1>1 DEF Written
<1>2. CASE part # "nothing"
  <2>1. file' = Append(file, NewLine(v, part)) /\ file \in Seq(Lines)
    BY <1>2, AppendsBehindWhole DEF DurableInv, TypeOK
  <2>2. Replayed(Append(file, NewLine(v, part))) =
          IF part \in {"all", "line"} THEN [Replayed(file) EXCEPT ![KeyOf(v)] = v]
          ELSE Replayed(file)
    BY <1>2, <2>1, ReplayOfNewLine
  <2> QED BY <2>1, <2>2
<1> QED BY <1>1, <1>2

LEMMA OneRecordKept ==
  ASSUME MaxTexts <= 1, DurableInv, Next
  PROVE  OneRecordPerLine'
<1>1. CASE UNCHANGED file
  BY <1>1 DEF DurableInv, OneRecordPerLine
<1>2. ASSUME NEW v \in Saves, NEW part \in Parts, Appends(v), file' = Written(file, v, part)
      PROVE  OneRecordPerLine'
  <2>1. CASE part = "nothing"
    BY <1>1, <1>2, <2>1 DEF Written
  <2>2. CASE part # "nothing"
    <3> DEFINE line == NewLine(v, part)
    <3>1. file' = Append(file, line)
      BY <1>2, <2>2, AppendsBehindWhole
    <3>2. /\ Len(file) \in Nat /\ Len(file') = Len(file) + 1 /\ file'[Len(file) + 1] = line
          /\ \A i \in 1 .. Len(file) : file'[i] = file[i]
      BY <3>1, NewLineType, AppendProperties, LenProperties DEF DurableInv, TypeOK
    <3>3. Len(line.texts) = 1 /\ (line.ended => line.texts[1].cut = "no")
      BY <2>2, NewLineReads
    <3> HIDE DEF line
    <3> QED BY <3>2, <3>3 DEF DurableInv, OneRecordPerLine
  <2> QED BY <2>1, <2>2
<1> QED BY <1>1, <1>2, FileSteps

(* An append is behind records only. *)
LEMMA AppendsBehindRecords ==
  ASSUME MaxTexts <= 1, DurableInv, NEW v \in Saves, Appends(v)
  PROVE  \A i \in 1 .. Len(file) : Decodes(file[i])
<1> SUFFICES ASSUME NEW i \in 1 .. Len(file), ~Decodes(file[i]) PROVE FALSE
  OBVIOUS
<1>1. i = Len(file) /\ ~Parses(file[i])
  BY DEF Appends, DurableInv, ServedIsDurable, ReplaySucceeds
<1>2. Len(file[i].texts) = 1 /\ (file[i].ended => file[i].texts[1].cut = "no")
  BY DEF DurableInv, OneRecordPerLine
<1>3. ~file[i].ended
  BY <1>1, <1>2 DEF Parses
<1>4. file # <<>>
  BY EmptySeq
<1> QED BY <1>1, <1>2, <1>3, <1>4, StoreAssumption DEF Appends

(* A save that returns is in the file. *)
LEMMA SavedIsDurable ==
  ASSUME MaxTexts <= 1, DurableInv, NEW v \in Saves, Save(v)
  PROVE  ReplaySucceeds(file') /\ states' = Replayed(file')
<1>1. /\ Appends(v) /\ Serving /\ file' = Written(file, v, "all") /\ "all" \in Parts
      /\ states' = [states EXCEPT ![KeyOf(v)] = v]
  BY DEF Save, Appends, Parts
<1>2. states = Replayed(file)
  BY <1>1 DEF DurableInv, ServedIsDurable
<1>3. Replayed(file') = [Replayed(file) EXCEPT ![KeyOf(v)] = v]
  BY <1>1, ReplayAfterAppend
<1>4. file' = Append(file, NewLine(v, "all"))
  BY <1>1, AppendsBehindWhole
<1>5. ReplaySucceeds(file')
  BY <1>1, <1>4, AppendsBehindRecords, SucceedsWithNewLine DEF DurableInv, TypeOK
<1> QED BY <1>1, <1>2, <1>3, <1>5

LEMMA NextDurable ==
  ASSUME MaxTexts <= 1
  PROVE  DurableInv /\ [Next]_vars => DurableInv'
<1> SUFFICES ASSUME DurableInv, [Next]_vars PROVE DurableInv'
  OBVIOUS
<1>1. TypeOK'
  BY NextTypes DEF DurableInv
<1>2. CASE UNCHANGED vars
  BY <1>1, <1>2 DEF DurableInv, OneRecordPerLine, ServedIsDurable, Serving, vars
<1>3. CASE Next
  <2>1. ServedIsDurable'
    <3>1. ASSUME NEW v \in Saves, Save(v)
          PROVE  ServedIsDurable'
      BY <3>1, SavedIsDurable DEF ServedIsDurable
    <3>2. ASSUME NEW v \in Saves, SaveFails(v) \/ Die(v)
          PROVE  ServedIsDurable'
      BY <3>2 DEF SaveFails, Die, ServedIsDurable, Serving
    <3>3. CASE Start
      BY <3>3 DEF Start, ServedIsDurable, Serving
    <3>4. CASE Refused
      BY <3>4 DEF Refused, vars, DurableInv, ServedIsDurable, Serving
    <3> QED BY <1>3, <3>1, <3>2, <3>3, <3>4 DEF Next
  <2> QED BY <1>1, <1>3, <2>1, OneRecordKept DEF DurableInv
<1> QED BY <1>2, <1>3

(* The store (_append, _replay, the poison flag) satisfies its inductive   *)
(* invariant in every reachable state, as long as nothing is appended      *)
(* behind an unfinished line.                                              *)
THEOREM DurableInvariance ==
  ASSUME MaxTexts <= 1
  PROVE  Spec => []DurableInv
<1>1. DurableInv /\ [Next]_vars => DurableInv'
  BY NextDurable
<1> QED BY <1>1, InitDurable, PTL DEF Spec

(* What the repository serves (_states) is what a restart would read: a    *)
(* save that returned is in the file and wins, and none that raised is     *)
(* served, as long as nothing was appended behind an unfinished line.      *)
THEOREM ServesWhatIsDurable ==
  ASSUME MaxTexts <= 1
  PROVE  Spec => []ServedIsDurable
<1>1. DurableInv => ServedIsDurable
  BY DEF DurableInv
<1>2. Spec => []DurableInv
  BY DurableInvariance
<1> QED BY <1>1, <1>2, PTL

-----------------------------------------------------------------------------
(* The refinement of DurableMap. *)

(* A save that returns is a Put. *)
LEMMA SaveIsAPut ==
  ASSUME MaxTexts <= 1, DurableInv, DurableInv', NEW v \in Saves, Save(v)
  PROVE  Map!Put(KeyOf(v))
<1> DEFINE k == KeyOf(v)
<1>1. /\ Appends(v) /\ Serving /\ Serving' /\ "all" \in Parts
      /\ file' = Written(file, v, "all")
  BY DEF Save, Appends, Parts, Serving
<1>2. v \in Values /\ k \in Keys /\ v # None
  BY StoreAssumption
<1> HIDE DEF k
<1>3. Replayed(file') = [Replayed(file) EXCEPT ![k] = v]
  BY <1>1, ReplayAfterAppend DEF k
<1>4. /\ Replayed(file) \in [Keys -> Values \cup {None}]
      /\ Replayed(file') \in [Keys -> Values \cup {None}]
  BY ReplayedType DEF DurableInv, TypeOK
<1>5. states # None /\ states' = Replayed(file')
  BY <1>1, SavedIsDurable, StoreAssumption DEF DurableInv, TypeOK
<1>6. Map!Written(k)
  BY <1>2, <1>3, <1>4 DEF Map!Written
<1> QED BY <1>1, <1>5, <1>6 DEF Map!Put, k

(* One that raises, or in which the process dies, is a Fail: it took       *)
(* effect or it did not.                                                   *)
LEMMA FailureIsAFail ==
  ASSUME MaxTexts <= 1, DurableInv, NEW v \in Saves, Appends(v), ~Serving',
         NEW part \in Parts, file' = Written(file, v, part), TypeOK'
  PROVE  Map!Fail(KeyOf(v))
<1> DEFINE k == KeyOf(v)
<1>1. v \in Values /\ k \in Keys /\ v # None
  BY StoreAssumption
<1>2. Replayed(file') \in {Replayed(file), [Replayed(file) EXCEPT ![k] = v]}
  BY ReplayAfterAppend
<1> HIDE DEF k
<1>3. /\ Replayed(file) \in [Keys -> Values \cup {None}]
      /\ Replayed(file') \in [Keys -> Values \cup {None}]
  BY ReplayedType DEF DurableInv, TypeOK
<1>4. Serving /\ states # None
  BY StoreAssumption DEF DurableInv, TypeOK, Appends
<1>5. Map!Written(k) \/ Replayed(file') = Replayed(file)
  BY <1>1, <1>2, <1>3 DEF Map!Written
<1> QED BY <1>4, <1>5 DEF Map!Fail, k

(* The file, its replay and the poison flag implement the map that         *)
(* survives restarts the handlers rely on, as long as nothing is appended  *)
(* behind an unfinished line.                                              *)
THEOREM DurableMapImplemented ==
  ASSUME MaxTexts <= 1
  PROVE  Spec => ImplementsDurableMap
<1>1. Init => Map!Init
  <2> SUFFICES ASSUME Init PROVE Map!Init
    OBVIOUS
  <2>1. Replayed(file) \in [Keys -> Values \cup {None}] /\ ~Serving
    BY InitTypes, ReplayedType DEF Init, TypeOK, Serving
  <2> QED BY <2>1 DEF Map!Init
<1>2. DurableInv /\ DurableInv' /\ [Next]_vars => [Map!Next]_(Map!vars)
  <2> SUFFICES ASSUME DurableInv, DurableInv', [Next]_vars
               PROVE  [Map!Next]_(Map!vars)
    OBVIOUS
  <2>1. CASE UNCHANGED vars
    BY <2>1 DEF vars, Map!vars, Serving
  <2>2. \A v \in Saves : KeyOf(v) \in Keys
    BY StoreAssumption
  <2>3. ASSUME NEW v \in Saves, Save(v)
        PROVE  Map!Next
    BY <2>2, <2>3, SaveIsAPut DEF Map!Next
  <2>4. ASSUME NEW v \in Saves, SaveFails(v)
        PROVE  Map!Next
    <3>1. PICK part \in Parts : file' = Written(file, v, part)
      BY <2>4 DEF SaveFails, Parts
    <3>2. Appends(v) /\ ~Serving' /\ TypeOK'
      BY <2>4 DEF SaveFails, Serving, DurableInv
    <3> QED BY <2>2, <3>1, <3>2, FailureIsAFail DEF Map!Next
  <2>5. ASSUME NEW v \in Saves, Die(v)
        PROVE  Map!Next
    <3>1. ~Serving' /\ TypeOK'
      BY <2>5 DEF Die, Serving, DurableInv
    <3>2. CASE UNCHANGED file
      BY <3>1, <3>2 DEF Map!Next, Map!Stop
    <3>3. CASE Appends(v) /\ \E part \in {"all"} \cup Tears : file' = Written(file, v, part)
      <4>1. PICK part \in Parts : file' = Written(file, v, part)
        BY <3>3 DEF Parts
      <4> QED BY <2>2, <3>1, <3>3, <4>1, FailureIsAFail DEF Map!Next
    <3> QED BY <2>5, <3>2, <3>3 DEF Die
  <2>6. CASE Start
    <3>1. ~Serving /\ file' = file
      BY <2>6 DEF Start, Serving
    <3>2. CASE ReplaySucceeds(file)
      BY <2>6, <3>1, <3>2 DEF Start, Serving, Map!Next, Map!Restart
    <3>3. CASE ~ReplaySucceeds(file)
      BY <2>6, <3>1, <3>3 DEF Start, Serving, Map!vars
    <3> QED BY <3>2, <3>3
  <2>7. CASE Refused
    BY <2>1, <2>7 DEF Refused
  <2> QED BY <2>1, <2>3, <2>4, <2>5, <2>6, <2>7 DEF Next
<1>3. Spec => []DurableInv
  BY DurableInvariance
<1> QED BY <1>1, <1>2, <1>3, PTL DEF Spec, ImplementsDurableMap, Map!Spec

-----------------------------------------------------------------------------
(* The codec of StateRecords. *)

(* An object is its fields. *)
LEMMA SameObject ==
  ASSUME NEW f, NEW g, f = [x \in DOMAIN f |-> f[x]], g = [x \in DOMAIN g |-> g[x]],
         DOMAIN f = DOMAIN g, \A x \in DOMAIN f : f[x] = g[x]
  PROVE  f = g
OBVIOUS

(* An object has the fields that are not absent, with their values. *)
LEMMA PresentFields ==
  ASSUME NEW r
  PROVE  /\ DOMAIN Present(r) = {y \in DOMAIN r : r[y] # Absent}
         /\ \A x \in DOMAIN Present(r) : Present(r)[x] = r[x]
         /\ Present(r) = [x \in DOMAIN Present(r) |-> Present(r)[x]]
BY DEF Present

(* A frozen context's data. *)
LEMMA ContextFields ==
  ASSUME NEW data \in ContextData
  PROVE  /\ data = [x \in DOMAIN data |-> data[x]]
         /\ DOMAIN data \subseteq {"fill", "entry_order_expires_at_bar", "other"}
         /\ "fill" \in DOMAIN data => data["fill"] = "fill"
         /\ "entry_order_expires_at_bar" \in DOMAIN data =>
              data["entry_order_expires_at_bar"] \in Bars \cup {Null}
<1>1. PICK r \in [fill : {"fill", Absent}, entry_order_expires_at_bar : Bars \cup {Null, Absent},
                  other : {"other", Absent}] : data = Present(r)
  BY DEF ContextData
<1>2. /\ DOMAIN data = {y \in DOMAIN r : r[y] # Absent}
      /\ \A x \in DOMAIN data : data[x] = r[x]
      /\ data = [x \in DOMAIN data |-> data[x]]
  BY <1>1, PresentFields
<1>3. /\ DOMAIN r = {"fill", "entry_order_expires_at_bar", "other"}
      /\ r["fill"] \in {"fill", Absent}
      /\ r["entry_order_expires_at_bar"] \in Bars \cup {Null, Absent}
  OBVIOUS
<1> QED BY <1>2, <1>3

(* A trade cycle's data. *)
LEMMA CycleFields ==
  ASSUME NEW data \in CycleData
  PROVE  /\ data = [x \in DOMAIN data |-> data[x]]
         /\ DOMAIN data \subseteq
              {"trade_cycle_id", "frozen_entry_context", "entry_remainder_cancelled", "other"}
         /\ "trade_cycle_id" \in DOMAIN data => data["trade_cycle_id"] \in TradeCycleIds
         /\ "frozen_entry_context" \in DOMAIN data =>
              data["frozen_entry_context"] \in ContextData \cup {Null}
         /\ "entry_remainder_cancelled" \in DOMAIN data =>
              data["entry_remainder_cancelled"] \in BOOLEAN \cup {Null}
<1>1. PICK r \in [trade_cycle_id : TradeCycleIds \cup {Absent},
                  frozen_entry_context : ContextData \cup {Null, Absent},
                  entry_remainder_cancelled : {TRUE, FALSE, Null, Absent},
                  other : {"other", Absent}] : data = Present(r)
  BY DEF CycleData
<1>2. /\ DOMAIN data = {y \in DOMAIN r : r[y] # Absent}
      /\ \A x \in DOMAIN data : data[x] = r[x]
      /\ data = [x \in DOMAIN data |-> data[x]]
  BY <1>1, PresentFields
<1>3. /\ DOMAIN r = {"trade_cycle_id", "frozen_entry_context", "entry_remainder_cancelled", "other"}
      /\ r["trade_cycle_id"] \in TradeCycleIds \cup {Absent}
      /\ r["frozen_entry_context"] \in ContextData \cup {Null, Absent}
  OBVIOUS
<1>4. r["entry_remainder_cancelled"] \in BOOLEAN \cup {Null, Absent}
  OBVIOUS
<1> QED BY <1>2, <1>3, <1>4

(* A line's object. *)
LEMMA EnvelopeFields ==
  ASSUME NEW object \in JsonObjects
  PROVE  /\ object = [x \in DOMAIN object |-> object[x]]
         /\ "schema_version" \in DOMAIN object => object["schema_version"] \in 1 .. 5
         /\ "identity" \in DOMAIN object => object["identity"] \in Identities
         /\ "current_trade_cycle" \in DOMAIN object =>
              object["current_trade_cycle"] \in CycleData \cup {Null}
         /\ "pending_entry_recovery" \in DOMAIN object =>
              object["pending_entry_recovery"] \in TradeCycleIds \cup {Null}
         /\ "pending_close_recovery" \in DOMAIN object =>
              object["pending_close_recovery"] \in TradeCycleIds \cup {Null}
<1>1. PICK r \in [schema_version : (1 .. 5) \cup {Absent}, identity : Identities,
                  current_trade_cycle : CycleData \cup {Null, Absent},
                  pending_entry_recovery : TradeCycleIds \cup {Null, Absent},
                  pending_close_recovery : TradeCycleIds \cup {Null, Absent},
                  other : {"other", Absent}] : object = Present(r)
  BY DEF JsonObjects
<1>2. /\ DOMAIN object = {y \in DOMAIN r : r[y] # Absent}
      /\ \A x \in DOMAIN object : object[x] = r[x]
      /\ object = [x \in DOMAIN object |-> object[x]]
  BY <1>1, PresentFields
<1>3. /\ r["schema_version"] \in (1 .. 5) \cup {Absent} /\ r["identity"] \in Identities
      /\ r["current_trade_cycle"] \in CycleData \cup {Null, Absent}
      /\ r["pending_entry_recovery"] \in TradeCycleIds \cup {Null, Absent}
      /\ r["pending_close_recovery"] \in TradeCycleIds \cup {Null, Absent}
  OBVIOUS
<1> QED BY <1>2, <1>3

(* A context that is accepted is the data it is read from; without the     *)
(* fields of version 4 it is read with no expiry bar.                      *)
LEMMA ContextDecoded ==
  ASSUME NEW data \in ContextData, NEW v4 \in BOOLEAN,
         decode_frozen_entry_context(data, v4) # Error
  PROVE  LET context == decode_frozen_entry_context(data, v4) IN
         /\ context \in Contexts
         /\ v4 => context = data
         /\ ~v4 => OldContext(context) = data /\ context.entry_order_expires_at_bar = Null
<1> DEFINE context == decode_frozen_entry_context(data, v4)
<1>1. DOMAIN data = FROZEN_ENTRY_CONTEXT_KEYS(v4)
  BY DEF decode_frozen_entry_context, has_exact_fields
<1>2. /\ data = [x \in DOMAIN data |-> data[x]]
      /\ "fill" \in DOMAIN data => data["fill"] = "fill"
      /\ "entry_order_expires_at_bar" \in DOMAIN data =>
           data["entry_order_expires_at_bar"] \in Bars \cup {Null}
  BY ContextFields
<1>3. CASE v4
  <2>1. DOMAIN data = {"fill", "entry_order_expires_at_bar"}
    BY <1>1, <1>3 DEF FROZEN_ENTRY_CONTEXT_KEYS
  <2>2. context = [fill |-> data["fill"],
                   entry_order_expires_at_bar |-> data["entry_order_expires_at_bar"]]
    BY <1>1, <1>3, <2>1 DEF decode_frozen_entry_context, has_exact_fields, Field
  <2>3. data = [fill |-> data["fill"],
                entry_order_expires_at_bar |-> data["entry_order_expires_at_bar"]]
    BY <1>2, <2>1
  <2>4. context \in Contexts
    BY <1>2, <2>1, <2>2 DEF Contexts
  <2> QED BY <1>3, <2>2, <2>3, <2>4
<1>4. CASE ~v4
  <2>1. DOMAIN data = {"fill"}
    BY <1>1, <1>4 DEF FROZEN_ENTRY_CONTEXT_KEYS
  <2>2. context = [fill |-> "fill", entry_order_expires_at_bar |-> Null]
    BY <1>1, <1>2, <1>4, <2>1 DEF decode_frozen_entry_context, has_exact_fields, Field
  <2>3. context \in Contexts
    BY <2>2 DEF Contexts
  <2>4. context # Null
    BY <2>3, NullAssumption
  <2>5. OldContext(context) = [x \in {"fill"} |-> context[x]]
    <3>1. DOMAIN context \ {"entry_order_expires_at_bar"} = {"fill"}
      BY <2>2
    <3> HIDE DEF context
    <3> QED BY <2>4, <3>1 DEF OldContext, Without
  <2>6. OldContext(context) = data
    BY <1>2, <2>1, <2>2, <2>5
  <2> QED BY <1>4, <2>2, <2>3, <2>6
<1> QED BY <1>3, <1>4

(* A cycle without the fields of version 4. *)
LEMMA OldCycleFields ==
  ASSUME NEW cycle \in Cycles
  PROVE  /\ DOMAIN OldCycle(cycle) = {"trade_cycle_id", "frozen_entry_context"}
         /\ OldCycle(cycle) = [x \in DOMAIN OldCycle(cycle) |-> OldCycle(cycle)[x]]
         /\ OldCycle(cycle)["trade_cycle_id"] = cycle.trade_cycle_id
         /\ OldCycle(cycle)["frozen_entry_context"] = OldContext(cycle.frozen_entry_context)
<1> DEFINE old == Without(cycle, {"entry_remainder_cancelled"})
<1>1. cycle # Null
  BY NullAssumption
<1>2. DOMAIN cycle \ {"entry_remainder_cancelled"} = {"trade_cycle_id", "frozen_entry_context"}
  BY DEF Cycles
<1>3. old = [x \in {"trade_cycle_id", "frozen_entry_context"} |-> cycle[x]]
  BY <1>2 DEF Without
<1>4. OldCycle(cycle) = [old EXCEPT !.frozen_entry_context = OldContext(@)]
  BY <1>1 DEF OldCycle
<1> HIDE DEF old
<1> QED BY <1>3, <1>4

(* A cycle that is accepted is the data it is read from; without the       *)
(* fields of version 4 it is read as one whose remainder is not cancelled. *)
LEMMA CycleDecoded ==
  ASSUME NEW data \in CycleData, NEW v4 \in BOOLEAN, decode_cycle(data, v4) # Error
  PROVE  LET cycle == decode_cycle(data, v4) IN
         /\ cycle \in Cycles
         /\ v4 => cycle = data
         /\ ~v4 => /\ OldCycle(cycle) = data
                   /\ ~cycle.entry_remainder_cancelled
                   /\ cycle.frozen_entry_context # Null =>
                        cycle.frozen_entry_context.entry_order_expires_at_bar = Null
<1> DEFINE cycle == decode_cycle(data, v4)
           frozen == Field(data, "frozen_entry_context")
           context == IF frozen = Null THEN Null ELSE decode_frozen_entry_context(frozen, v4)
           mark == IF v4 THEN Field(data, "entry_remainder_cancelled") ELSE FALSE
           id == Field(data, "trade_cycle_id")
<1>1. /\ DOMAIN data = CYCLE_KEYS(v4) /\ context # Error /\ mark # Null
      /\ cycle = [trade_cycle_id |-> id, frozen_entry_context |-> context,
                  entry_remainder_cancelled |-> mark]
  BY DEF decode_cycle, has_exact_fields
<1>2. /\ data = [x \in DOMAIN data |-> data[x]]
      /\ "trade_cycle_id" \in DOMAIN data => data["trade_cycle_id"] \in TradeCycleIds
      /\ "frozen_entry_context" \in DOMAIN data =>
           data["frozen_entry_context"] \in ContextData \cup {Null}
      /\ "entry_remainder_cancelled" \in DOMAIN data =>
           data["entry_remainder_cancelled"] \in BOOLEAN \cup {Null}
  BY CycleFields
<1>3. "trade_cycle_id" \in DOMAIN data /\ "frozen_entry_context" \in DOMAIN data
  BY <1>1 DEF CYCLE_KEYS
<1>4. /\ id = data["trade_cycle_id"] /\ id \in TradeCycleIds
      /\ frozen = data["frozen_entry_context"] /\ frozen \in ContextData \cup {Null}
  BY <1>2, <1>3 DEF Field
<1> HIDE DEF id, frozen, cycle
<1>5. /\ context \in Contexts \cup {Null}
      /\ v4 => context = frozen
      /\ ~v4 => /\ OldContext(context) = frozen
                /\ context # Null => context.entry_order_expires_at_bar = Null
  <2>1. CASE frozen = Null
    BY <2>1 DEF OldContext
  <2>2. CASE frozen # Null
    <3>1. frozen \in ContextData /\ context = decode_frozen_entry_context(frozen, v4)
      BY <1>4, <2>2
    <3> HIDE DEF context
    <3> QED BY <1>1, <3>1, ContextDecoded
  <2> QED BY <2>1, <2>2
<1> HIDE DEF context
<1>6. CASE v4
  <2>1. DOMAIN data = {"trade_cycle_id", "frozen_entry_context", "entry_remainder_cancelled"}
    BY <1>1, <1>6 DEF CYCLE_KEYS
  <2>2. mark = data["entry_remainder_cancelled"] /\ mark \in BOOLEAN
    BY <1>1, <1>2, <1>6, <2>1 DEF Field
  <2> HIDE DEF mark
  <2>3. cycle \in Cycles
    BY <1>1, <1>4, <1>5, <2>2 DEF Cycles
  <2>4. data = [trade_cycle_id |-> data["trade_cycle_id"],
                frozen_entry_context |-> data["frozen_entry_context"],
                entry_remainder_cancelled |-> data["entry_remainder_cancelled"]]
    BY <1>2, <2>1
  <2>5. cycle = data
    BY <1>1, <1>4, <1>5, <1>6, <2>2, <2>4
  <2> QED BY <1>6, <2>3, <2>5 DEF cycle
<1>7. CASE ~v4
  <2>1. DOMAIN data = {"trade_cycle_id", "frozen_entry_context"}
    BY <1>1, <1>7 DEF CYCLE_KEYS
  <2>2. cycle = [trade_cycle_id |-> id, frozen_entry_context |-> context,
                 entry_remainder_cancelled |-> FALSE]
    BY <1>1, <1>7
  <2>3. cycle \in Cycles
    BY <1>4, <1>5, <2>2 DEF Cycles
  <2>4. /\ cycle.trade_cycle_id = id /\ cycle.frozen_entry_context = context
        /\ ~cycle.entry_remainder_cancelled
    BY <2>2
  <2>5. OldCycle(cycle) = data
    <3> DEFINE old == OldCycle(cycle)
    <3>1. /\ DOMAIN old = {"trade_cycle_id", "frozen_entry_context"}
          /\ old = [x \in DOMAIN old |-> old[x]]
          /\ old["trade_cycle_id"] = id /\ old["frozen_entry_context"] = frozen
      BY <1>5, <1>7, <2>3, <2>4, OldCycleFields
    <3> HIDE DEF old
    <3>2. old = data
      BY <1>2, <1>4, <2>1, <3>1
    <3> QED BY <3>2 DEF old
  <2> QED BY <1>5, <1>7, <2>3, <2>4, <2>5 DEF cycle
<1> QED BY <1>6, <1>7

-----------------------------------------------------------------------------
(* The line this release writes has the fields of the state. *)
LEMMA EncodedFields ==
  ASSUME NEW state \in States
  PROVE  LET line == encode_state_line(state) IN
         /\ DOMAIN line = ENVELOPE_KEYS(4)
         /\ line = [x \in DOMAIN line |-> line[x]]
         /\ line["schema_version"] = 4
         /\ line["identity"] = state.identity
         /\ line["current_trade_cycle"] = state.current_trade_cycle
         /\ line["pending_entry_recovery"] = state.pending_entry_recovery
         /\ line["pending_close_recovery"] = state.pending_close_recovery
<1>1. DOMAIN state = {"identity", "current_trade_cycle", "pending_entry_recovery",
                      "pending_close_recovery"}
  BY DEF States
<1>2. DOMAIN state \cup {"schema_version"} = ENVELOPE_KEYS(4)
  BY <1>1 DEF ENVELOPE_KEYS, COMMON_KEYS
<1>3. encode_state_line(state) =
        [field \in ENVELOPE_KEYS(4) |-> IF field = "schema_version" THEN 4 ELSE state[field]]
  BY <1>2 DEF encode_state_line
<1> QED BY <1>1, <1>2, <1>3

(* So has the line of an earlier release, with the cycle of that release. *)
LEMMA LineFields ==
  ASSUME NEW v \in 1 .. 4, NEW state \in States
  PROVE  LET line == LineOf(v, state)
             cycle == state.current_trade_cycle
         IN /\ DOMAIN line = ENVELOPE_KEYS(v)
            /\ line = [x \in DOMAIN line |-> line[x]]
            /\ line["schema_version"] = v
            /\ line["identity"] = state.identity
            /\ line["current_trade_cycle"] = IF v = 4 THEN cycle ELSE OldCycle(cycle)
            /\ v >= 2 => line["pending_entry_recovery"] = state.pending_entry_recovery
            /\ v >= 3 => line["pending_close_recovery"] = state.pending_close_recovery
<1> DEFINE whole == encode_state_line(state)
           line == LineOf(v, state)
<1>1. /\ DOMAIN whole = ENVELOPE_KEYS(4)
      /\ whole = [x \in DOMAIN whole |-> whole[x]]
      /\ whole["schema_version"] = 4
      /\ whole["identity"] = state.identity
      /\ whole["current_trade_cycle"] = state.current_trade_cycle
      /\ whole["pending_entry_recovery"] = state.pending_entry_recovery
      /\ whole["pending_close_recovery"] = state.pending_close_recovery
  BY EncodedFields
<1> HIDE DEF whole
<1>2. CASE v = 4
  <2>1. line = whole
    BY <1>2 DEF LineOf, whole
  <2> QED BY <1>1, <1>2, <2>1
<1>3. CASE v # 4
  <2> DEFINE drop == (IF v < 2 THEN {"pending_entry_recovery"} ELSE {})
                       \cup (IF v < 3 THEN {"pending_close_recovery"} ELSE {})
             rest == Without(whole, drop)
  <2>1. line = [rest EXCEPT !.schema_version = v, !.current_trade_cycle = OldCycle(@)]
    BY <1>3 DEF LineOf, whole
  <2>2. ENVELOPE_KEYS(4) \ drop = ENVELOPE_KEYS(v)
    BY <1>3 DEF ENVELOPE_KEYS, COMMON_KEYS
  <2>3. rest = [x \in ENVELOPE_KEYS(v) |-> whole[x]]
    BY <1>1, <2>2 DEF Without
  <2> HIDE DEF rest, drop
  <2>4. /\ COMMON_KEYS \subseteq ENVELOPE_KEYS(v)
        /\ v >= 2 => "pending_entry_recovery" \in ENVELOPE_KEYS(v)
        /\ v >= 3 => "pending_close_recovery" \in ENVELOPE_KEYS(v)
    BY DEF ENVELOPE_KEYS
  <2>5. \A x \in COMMON_KEYS : x \in ENVELOPE_KEYS(v)
    BY <2>4
  <2> QED BY <1>1, <1>3, <2>1, <2>3, <2>4, <2>5 DEF COMMON_KEYS
<1> QED BY <1>2, <1>3

(* A line that is accepted is one some release writes for a state it can   *)
(* hold.                                                                   *)
LEMMA AcceptedIsReleased ==
  ASSUME NEW object \in JsonObjects, decode_envelope(object) # Error
  PROVE  \E v \in 1 .. 4, state \in States : KnownTo(v, state) /\ object = LineOf(v, state)
<1> DEFINE v == Field(object, "schema_version")
           data == Field(object, "current_trade_cycle")
           cycle == IF data = Null THEN Null ELSE decode_cycle(data, is_v4(v))
           entry == Field(object, "pending_entry_recovery")
           close == Field(object, "pending_close_recovery")
           state == [identity |-> Field(object, "identity"), current_trade_cycle |-> cycle,
                     pending_entry_recovery |-> entry, pending_close_recovery |-> close]
<1>1. /\ v \in 1 .. 4 /\ DOMAIN object = ENVELOPE_KEYS(v) /\ cycle # Error
      /\ ValidAggregate(state)
  BY DEF decode_envelope, has_exact_fields
<1>2. /\ object = [x \in DOMAIN object |-> object[x]]
      /\ "identity" \in DOMAIN object => object["identity"] \in Identities
      /\ "current_trade_cycle" \in DOMAIN object =>
           object["current_trade_cycle"] \in CycleData \cup {Null}
      /\ "pending_entry_recovery" \in DOMAIN object =>
           object["pending_entry_recovery"] \in TradeCycleIds \cup {Null}
      /\ "pending_close_recovery" \in DOMAIN object =>
           object["pending_close_recovery"] \in TradeCycleIds \cup {Null}
  BY EnvelopeFields
<1>3. /\ {"identity", "schema_version", "current_trade_cycle"} \subseteq DOMAIN object
      /\ "pending_entry_recovery" \in DOMAIN object <=> v >= 2
      /\ "pending_close_recovery" \in DOMAIN object <=> v >= 3
      /\ DOMAIN object \subseteq {"identity", "schema_version", "current_trade_cycle",
                                  "pending_entry_recovery", "pending_close_recovery"}
  BY <1>1 DEF ENVELOPE_KEYS, COMMON_KEYS
<1>4. /\ v = object["schema_version"]
      /\ Field(object, "identity") = object["identity"] /\ object["identity"] \in Identities
      /\ data = object["current_trade_cycle"] /\ data \in CycleData \cup {Null}
  BY <1>2, <1>3 DEF Field
<1>5. /\ entry \in TradeCycleIds \cup {Null} /\ close \in TradeCycleIds \cup {Null}
      /\ IF v >= 2 THEN entry = object["pending_entry_recovery"] ELSE entry = Null
      /\ IF v >= 3 THEN close = object["pending_close_recovery"] ELSE close = Null
  BY <1>2, <1>3 DEF Field
<1> HIDE DEF v, data, entry, close
<1>6. /\ cycle \in Cycles \cup {Null}
      /\ v = 4 => cycle = data
      /\ v # 4 => /\ OldCycle(cycle) = data
                  /\ cycle # Null =>
                       /\ ~cycle.entry_remainder_cancelled
                       /\ cycle.frozen_entry_context # Null =>
                            cycle.frozen_entry_context.entry_order_expires_at_bar = Null
  <2>1. CASE data = Null
    BY <2>1 DEF OldCycle
  <2>2. CASE data # Null
    <3>1. /\ data \in CycleData /\ cycle = decode_cycle(data, is_v4(v))
          /\ is_v4(v) \in BOOLEAN /\ (is_v4(v) <=> v = 4)
      BY <1>4, <2>2 DEF is_v4
    <3> HIDE DEF cycle
    <3> QED BY <1>1, <3>1, CycleDecoded
  <2> QED BY <2>1, <2>2
<1> HIDE DEF cycle
<1>7. state \in States
  BY <1>1, <1>4, <1>5, <1>6 DEF States
<1>8. KnownTo(v, state)
  BY <1>1, <1>5, <1>6 DEF KnownTo
<1>9. object = LineOf(v, state)
  <2> DEFINE line == LineOf(v, state)
  <2>1. /\ state.identity = object["identity"] /\ state.current_trade_cycle = cycle
        /\ state.pending_entry_recovery = entry /\ state.pending_close_recovery = close
    BY <1>4
  <2> HIDE DEF state
  <2>2. /\ DOMAIN line = ENVELOPE_KEYS(v)
        /\ line = [x \in DOMAIN line |-> line[x]]
        /\ line["schema_version"] = v
        /\ line["identity"] = state.identity
        /\ line["current_trade_cycle"] = IF v = 4 THEN cycle ELSE OldCycle(cycle)
        /\ v >= 2 => line["pending_entry_recovery"] = state.pending_entry_recovery
        /\ v >= 3 => line["pending_close_recovery"] = state.pending_close_recovery
    BY <1>1, <1>7, <2>1, LineFields
  <2> HIDE DEF line
  <2>3. \A x \in DOMAIN object : object[x] = line[x]
    BY <1>1, <1>3, <1>4, <1>5, <1>6, <2>1, <2>2
  <2>4. object = line
    BY <1>1, <1>2, <2>2, <2>3, SameObject
  <2> QED BY <2>4 DEF line
<1> QED BY <1>1, <1>7, <1>8, <1>9

-----------------------------------------------------------------------------
(* What a release has written is read back. *)

(* What is left of a context is an object. *)
LEMMA OldContextData ==
  ASSUME NEW context \in Contexts
  PROVE  LET data == OldContext(context) IN
         data \in ContextData /\ DOMAIN data = {"fill"} /\ data["fill"] = "fill"
<1> DEFINE data == OldContext(context)
           r == [fill |-> "fill", entry_order_expires_at_bar |-> Absent, other |-> Absent]
<1>1. context # Null /\ DOMAIN context \ {"entry_order_expires_at_bar"} = {"fill"}
  BY NullAssumption DEF Contexts
<1>2. data = [x \in {"fill"} |-> context[x]]
  BY <1>1 DEF OldContext, Without
<1> HIDE DEF data
<1>3. DOMAIN data = {"fill"} /\ data["fill"] = "fill"
  BY <1>2 DEF Contexts
<1>4. {y \in DOMAIN r : r[y] # Absent} = {"fill"}
  BY NullAssumption
<1>5. Present(r) = [x \in {"fill"} |-> r[x]]
  BY <1>4 DEF Present
<1>6. Present(r) = data
  BY <1>2, <1>3, <1>5
<1>7. r \in [fill : {"fill", Absent}, entry_order_expires_at_bar : Bars \cup {Null, Absent},
             other : {"other", Absent}]
  OBVIOUS
<1> HIDE DEF r
<1>8. data \in ContextData
  BY <1>6, <1>7 DEF ContextData
<1> QED BY <1>3, <1>8 DEF data

(* What is left of a cycle is an object. *)
LEMMA OldCycleData ==
  ASSUME NEW cycle \in Cycles
  PROVE  OldCycle(cycle) \in CycleData
<1> DEFINE data == OldCycle(cycle)
           id == cycle.trade_cycle_id
           context == OldContext(cycle.frozen_entry_context)
           r == [trade_cycle_id |-> id, frozen_entry_context |-> context,
                 entry_remainder_cancelled |-> Absent, other |-> Absent]
<1>1. /\ DOMAIN data = {"trade_cycle_id", "frozen_entry_context"}
      /\ data = [x \in DOMAIN data |-> data[x]]
      /\ data["trade_cycle_id"] = id /\ data["frozen_entry_context"] = context
  BY OldCycleFields
<1>2. id \in TradeCycleIds /\ id # Absent
  BY RecordsAssumption DEF Cycles
<1>3. context \in ContextData \cup {Null} /\ context # Absent
  <2>1. cycle.frozen_entry_context \in Contexts \cup {Null}
    BY DEF Cycles
  <2>2. context \in ContextData \cup {Null}
    BY <2>1, OldContextData DEF OldContext
  <2> QED BY <2>2, NullAssumption
<1> HIDE DEF data, id, context
<1>4. {y \in DOMAIN r : r[y] # Absent} = {"trade_cycle_id", "frozen_entry_context"}
  BY <1>2, <1>3
<1>5. Present(r) = [x \in {"trade_cycle_id", "frozen_entry_context"} |-> r[x]]
  BY <1>4 DEF Present
<1>6. Present(r) = data
  BY <1>1, <1>5
<1>7. r \in [trade_cycle_id : TradeCycleIds \cup {Absent},
             frozen_entry_context : ContextData \cup {Null, Absent},
             entry_remainder_cancelled : {TRUE, FALSE, Null, Absent},
             other : {"other", Absent}]
  BY <1>2, <1>3
<1> HIDE DEF r
<1> QED BY <1>6, <1>7 DEF CycleData, data

(* A context is read back from the data a release that knows it writes. *)
LEMMA ContextReadBack ==
  ASSUME NEW context \in Contexts, NEW v4 \in BOOLEAN,
         v4 \/ context.entry_order_expires_at_bar = Null
  PROVE  LET data == IF v4 THEN context ELSE OldContext(context) IN
         /\ data # Null
         /\ decode_frozen_entry_context(data, v4) = context
<1>1. /\ context # Null /\ context.fill = "fill"
      /\ DOMAIN context = {"fill", "entry_order_expires_at_bar"}
      /\ context = [fill |-> "fill",
                    entry_order_expires_at_bar |-> context.entry_order_expires_at_bar]
  BY NullAssumption DEF Contexts
<1>2. CASE v4
  BY <1>1, <1>2 DEF decode_frozen_entry_context, has_exact_fields, FROZEN_ENTRY_CONTEXT_KEYS,
                    Field
<1>3. CASE ~v4
  <2> DEFINE data == OldContext(context)
  <2>1. data \in ContextData /\ DOMAIN data = {"fill"} /\ data["fill"] = "fill"
    BY OldContextData
  <2> HIDE DEF data
  <2>2. decode_frozen_entry_context(data, v4) =
          [fill |-> "fill", entry_order_expires_at_bar |-> Null]
    BY <1>3, <2>1 DEF decode_frozen_entry_context, has_exact_fields,
                      FROZEN_ENTRY_CONTEXT_KEYS, Field
  <2> QED BY <1>1, <1>3, <2>1, <2>2, NullAssumption DEF data
<1> QED BY <1>2, <1>3

(* A cycle is read back from the data a release that knows it writes. *)
LEMMA CycleReadBack ==
  ASSUME NEW cycle \in Cycles, NEW v4 \in BOOLEAN,
         v4 \/ /\ ~cycle.entry_remainder_cancelled
               /\ cycle.frozen_entry_context # Null =>
                    cycle.frozen_entry_context.entry_order_expires_at_bar = Null
  PROVE  LET data == IF v4 THEN cycle ELSE OldCycle(cycle) IN
         /\ data # Null
         /\ decode_cycle(data, v4) = cycle
<1> DEFINE context == cycle.frozen_entry_context
           data == IF v4 THEN cycle ELSE OldCycle(cycle)
           frozen == IF v4 THEN context ELSE OldContext(context)
           read == IF frozen = Null THEN Null ELSE decode_frozen_entry_context(frozen, v4)
           mark == IF v4 THEN Field(data, "entry_remainder_cancelled") ELSE FALSE
<1>1. /\ cycle # Null /\ cycle.trade_cycle_id \in TradeCycleIds
      /\ context \in Contexts \cup {Null} /\ cycle.entry_remainder_cancelled \in BOOLEAN
      /\ DOMAIN cycle =
           {"trade_cycle_id", "frozen_entry_context", "entry_remainder_cancelled"}
      /\ cycle = [trade_cycle_id |-> cycle.trade_cycle_id, frozen_entry_context |-> context,
                  entry_remainder_cancelled |-> cycle.entry_remainder_cancelled]
  BY NullAssumption DEF Cycles
<1>2. /\ DOMAIN data = CYCLE_KEYS(v4)
      /\ data["trade_cycle_id"] = cycle.trade_cycle_id
      /\ data["frozen_entry_context"] = frozen
      /\ v4 => data["entry_remainder_cancelled"] = cycle.entry_remainder_cancelled
  BY <1>1, OldCycleFields DEF CYCLE_KEYS
<1>3. read = context
  <2>1. CASE context = Null
    BY <2>1 DEF OldContext
  <2>2. CASE context # Null
    BY <1>1, <2>2, ContextReadBack
  <2> QED BY <2>1, <2>2
<1>4. context # Error
  <2>1. \A c \in Contexts : c # Error
    BY DEF Contexts, Error
  <2> QED BY <1>1, <2>1, NullAssumption
<1>5. data # Null
  BY <1>1, OldCycleData, NullAssumption
<1> HIDE DEF data
<1>6. {"trade_cycle_id", "frozen_entry_context"} \subseteq DOMAIN data
  BY <1>2 DEF CYCLE_KEYS
<1>7. /\ Field(data, "trade_cycle_id") = cycle.trade_cycle_id
      /\ Field(data, "frozen_entry_context") = frozen
  BY <1>2, <1>6 DEF Field
<1>8. mark = cycle.entry_remainder_cancelled /\ mark # Null
  <2>1. CASE v4
    <3>1. "entry_remainder_cancelled" \in DOMAIN data
      BY <1>2, <2>1 DEF CYCLE_KEYS
    <3>2. mark = cycle.entry_remainder_cancelled
      BY <1>2, <2>1, <3>1 DEF Field
    <3> HIDE DEF mark
    <3> QED BY <1>1, <3>2, NullAssumption
  <2>2. CASE ~v4
    <3>1. cycle.entry_remainder_cancelled = FALSE
      BY <1>1, <2>2
    <3> QED BY <2>2, <3>1, NullAssumption
  <2> QED BY <2>1, <2>2
<1> HIDE DEF frozen, read, mark, context
<1>9. decode_cycle(data, v4) =
        [trade_cycle_id |-> cycle.trade_cycle_id, frozen_entry_context |-> context,
         entry_remainder_cancelled |-> cycle.entry_remainder_cancelled]
  <2>1. decode_cycle(data, v4) =
          IF has_exact_fields(data, CYCLE_KEYS(v4)) /\ read # Error /\ mark # Null
          THEN [trade_cycle_id |-> Field(data, "trade_cycle_id"), frozen_entry_context |-> read,
                entry_remainder_cancelled |-> mark]
          ELSE Error
    BY <1>7 DEF decode_cycle, read, mark
  <2> QED BY <1>2, <1>3, <1>4, <1>7, <1>8, <2>1 DEF has_exact_fields
<1> QED BY <1>1, <1>5, <1>9 DEF data

(* The line a release wrote for a state is read as that state. *)
LEMMA ReleasedIsReadBack ==
  ASSUME NEW v \in 1 .. 4, NEW state \in States, KnownTo(v, state)
  PROVE  decode_envelope(LineOf(v, state)) = state /\ state # Error
<1> DEFINE line == LineOf(v, state)
           cycle == state.current_trade_cycle
           data == IF v = 4 THEN cycle ELSE OldCycle(cycle)
           read == IF data = Null THEN Null ELSE decode_cycle(data, is_v4(v))
<1>1. /\ DOMAIN line = ENVELOPE_KEYS(v)
      /\ line["schema_version"] = v
      /\ line["identity"] = state.identity
      /\ line["current_trade_cycle"] = data
      /\ v >= 2 => line["pending_entry_recovery"] = state.pending_entry_recovery
      /\ v >= 3 => line["pending_close_recovery"] = state.pending_close_recovery
  BY LineFields
<1>2. /\ cycle \in Cycles \cup {Null} /\ ValidAggregate(state)
      /\ state = [identity |-> state.identity, current_trade_cycle |-> cycle,
                  pending_entry_recovery |-> state.pending_entry_recovery,
                  pending_close_recovery |-> state.pending_close_recovery]
  BY DEF States
<1>3. read = cycle
  <2>1. CASE cycle = Null
    BY <2>1 DEF OldCycle
  <2>2. CASE cycle # Null
    <3>1. /\ cycle \in Cycles /\ is_v4(v) \in BOOLEAN /\ (is_v4(v) <=> v = 4)
      BY <1>2, <2>2 DEF is_v4
    <3>2. v = 4 \/ /\ ~cycle.entry_remainder_cancelled
                   /\ cycle.frozen_entry_context # Null =>
                        cycle.frozen_entry_context.entry_order_expires_at_bar = Null
      BY <2>2 DEF KnownTo
    <3> HIDE DEF cycle
    <3> QED BY <3>1, <3>2, CycleReadBack
  <2> QED BY <2>1, <2>2
<1>4. cycle # Error /\ state # Error
  <2>1. \A c \in Cycles : c # Error
    BY DEF Cycles, Error
  <2>2. \A s \in States : s # Error
    BY DEF States, Error
  <2> QED BY <1>2, <2>1, <2>2, NullAssumption
<1> HIDE DEF line, data, cycle
<1>5. /\ {"identity", "schema_version", "current_trade_cycle"} \subseteq DOMAIN line
      /\ "pending_entry_recovery" \in DOMAIN line <=> v >= 2
      /\ "pending_close_recovery" \in DOMAIN line <=> v >= 3
  BY <1>1 DEF ENVELOPE_KEYS, COMMON_KEYS
<1>6. /\ v < 2 => state.pending_entry_recovery = Null
      /\ v < 3 => state.pending_close_recovery = Null
  BY DEF KnownTo
<1>7. /\ Field(line, "schema_version") = v /\ Field(line, "identity") = state.identity
      /\ Field(line, "current_trade_cycle") = data
      /\ Field(line, "pending_entry_recovery") = state.pending_entry_recovery
      /\ Field(line, "pending_close_recovery") = state.pending_close_recovery
  BY <1>1, <1>5, <1>6 DEF Field
<1> HIDE DEF read
<1>8. decode_envelope(line) =
        IF /\ v \in 1 .. 4 /\ has_exact_fields(line, ENVELOPE_KEYS(v)) /\ read # Error
           /\ ValidAggregate(state)
        THEN state ELSE Error
  BY <1>2, <1>3, <1>7 DEF decode_envelope, read
<1> QED BY <1>1, <1>2, <1>3, <1>4, <1>8 DEF has_exact_fields, line

-----------------------------------------------------------------------------
(* The store with this codec. *)

(* A line the store reads is one of a release. *)
LEMMA ReadIsReleased ==
  ASSUME NEW object \in Objects, Decode(object) # NoState
  PROVE  \E w \in ReleaseLines : w.line = object
<1>1. PICK v \in 1 .. 4, state \in States : KnownTo(v, state) /\ object = LineOf(v, state)
  <2>1. CASE object \in Found
    <3>1. object \in JsonObjects /\ decode_envelope(object) # Error
      BY <2>1, RecordsStoreAssumption
    <3> QED BY <3>1, AcceptedIsReleased
  <2>2. CASE object \notin Found
    <3>1. PICK state \in States : object = encode_state_line(state)
      BY <2>2, RecordsStoreAssumption, StoreAssumption DEF Objects
    <3>2. object = LineOf(4, state) /\ KnownTo(4, state)
      BY <3>1 DEF LineOf, KnownTo
    <3> QED BY <3>2
  <2> QED BY <2>1, <2>2
<1> DEFINE w == [line |-> LineOf(v, state), state |-> state]
<1>2. w \in ReleaseLines
  BY <1>1 DEF ReleaseLines
<1>3. w.line = object
  BY <1>1
<1> QED BY <1>2, <1>3

(* A line of a release is read as the state it was written for. *)
LEMMA ReleasedIsRead ==
  ASSUME NEW w \in ReleaseLines, w.line \in Objects
  PROVE  /\ Decode(w.line) = w.state /\ w.state # NoState
         /\ w.state \in States /\ KeyOf(w.state) = Identity(w.state)
         /\ Identity(w.state) \in Keys
<1>1. PICK v \in 1 .. 4, state \in States :
        KnownTo(v, state) /\ w = [line |-> LineOf(v, state), state |-> state]
  BY DEF ReleaseLines
<1>2. w.line = LineOf(v, state) /\ w.state = state
  BY <1>1
<1>3. decode_envelope(w.line) = state /\ state # Error
  BY <1>1, <1>2, ReleasedIsReadBack
<1>4. Identity(state) \in Identities
  BY DEF Identity, States
<1> QED BY <1>2, <1>3, <1>4, RecordsStoreAssumption

(* A store that serves, and any other, has read nothing but lines of its   *)
(* releases (_reject_unknown_keys, __post_init__), whatever line the file  *)
(* began with and whatever was appended behind what.                       *)
THEOREM NothingIsInvented == Spec => []NothingInvented
<1>1. TypeOK => NothingInvented
  <2> SUFFICES ASSUME TypeOK, NEW i \in 1 .. Len(file), Decodes(file[i])
               PROVE  \E w \in ReleaseLines : w.line = file[i].texts[1].object
    BY DEF NothingInvented
  <2>1. file[i] \in Lines
    BY DEF TypeOK
  <2>2. file[i].texts[1] \in Texts
    BY <2>1 DEF Decodes, Parses, Lines
  <2>3. file[i].texts[1].object \in Objects
    BY <2>2 DEF Texts
  <2> QED BY <2>3, ReadIsReleased DEF Decodes
<1> QED BY <1>1, StoreTypes, PTL

(***************************************************************************)
(* Behind the first line there are records, and at the very end perhaps    *)
(* part of one; a store that refused to start had a reason.                *)
(***************************************************************************)
UpgradeInv ==
  /\ \A i \in 2 .. Len(file) : Decodes(file[i]) \/ (i = Len(file) /\ ~Parses(file[i]))
  /\ process = "refused" => ~ReplaySucceeds(file)

(* A file the store is first given is at most one line. *)
LEMMA InitUpgrade == Init => UpgradeInv
<1> SUFFICES ASSUME Init PROVE UpgradeInv
  OBVIOUS
<1>1. Len(file) <= 1 /\ Len(file) \in Nat
  <2>1. CASE file = <<>>
    BY <2>1
  <2>2. CASE file # <<>>
    BY <2>2 DEF Init
  <2> QED BY <2>1, <2>2
<1> QED BY <1>1 DEF Init, UpgradeInv

(* A record is appended behind records only, and a replay that failed      *)
(* fails again as long as nothing is appended.                             *)
LEMMA NextUpgrade ==
  ASSUME MaxTexts <= 1, DurableInv, UpgradeInv, [Next]_vars
  PROVE  UpgradeInv'
<1>1. CASE UNCHANGED file
  <2>1. process' = "refused" => ~ReplaySucceeds(file)
    BY DEF UpgradeInv, Next, Save, SaveFails, Die, Appends, Serving, Start, Refused, vars
  <2> QED BY <1>1, <2>1 DEF UpgradeInv
<1>2. ASSUME NEW v \in Saves, NEW part \in Parts, Appends(v), file' = Written(file, v, part),
             file' # file, Next
      PROVE  UpgradeInv'
  <2> DEFINE line == NewLine(v, part)
  <2>1. part # "nothing"
    BY <1>2 DEF Written
  <2>2. file' = Append(file, line)
    BY <1>2, <2>1, AppendsBehindWhole
  <2>3. /\ Len(file) \in Nat /\ Len(file') = Len(file) + 1 /\ file'[Len(file) + 1] = line
        /\ \A i \in 1 .. Len(file) : file'[i] = file[i]
    BY <2>2, NewLineType, AppendProperties, LenProperties DEF DurableInv, TypeOK
  <2>4. Decodes(line) \/ ~Parses(line)
    BY <2>1, NewLineReads
  <2>5. \A i \in 1 .. Len(file) : Decodes(file[i])
    BY <1>2, AppendsBehindRecords
  <2>6. process' # "refused"
    BY <1>2 DEF Appends, Serving, Next, Save, SaveFails, Die, Start, Refused
  <2> HIDE DEF line
  <2>7. \A i \in 2 .. Len(file') : Decodes(file'[i]) \/ (i = Len(file') /\ ~Parses(file'[i]))
    BY <2>3, <2>4, <2>5
  <2> QED BY <2>6, <2>7 DEF UpgradeInv
<1>3. CASE UNCHANGED vars
  BY <1>1, <1>3 DEF vars
<1> QED BY <1>1, <1>2, <1>3, FileSteps

(* A file that begins with the line of a state, from whichever release,    *)
(* never keeps the store from starting, and until the instance is saved    *)
(* again the store serves that very state (decode_state_line, _replay), as *)
(* long as nothing is appended behind an unfinished line.                  *)
THEOREM UpgradesForgetNothing ==
  ASSUME MaxTexts <= 1
  PROVE  Spec => []UpgradeForgetsNothing
<1>1. DurableInv /\ UpgradeInv => UpgradeForgetsNothing
  <2> SUFFICES ASSUME DurableInv, UpgradeInv, NEW w \in ReleaseLines,
                      file # <<>>, file[1].ended, First = w.line
               PROVE  /\ Readable(file) => process # "refused"
                      /\ Serving /\ Cardinality(Records(file, Identity(w.state))) = 1 =>
                           states[Identity(w.state)] = w.state
    BY DEF UpgradeForgetsNothing
  <2> DEFINE k == Identity(w.state)
  <2>1. file \in Seq(Lines) /\ Len(file) \in Nat /\ 1 \in 1 .. Len(file)
    BY LenProperties, EmptySeq DEF DurableInv, TypeOK
  <2>2. /\ Len(file[1].texts) = 1 /\ file[1].texts[1].cut = "no" /\ file[1] \in Lines
    BY <2>1 DEF DurableInv, OneRecordPerLine
  <2>3. file[1].texts[1] \in Texts
    BY <2>2 DEF Lines
  <2>4. First \in Objects
    BY <2>3 DEF First, Texts
  <2>5. /\ Decode(First) = w.state /\ w.state # NoState /\ KeyOf(w.state) = k /\ k \in Keys
    BY <2>4, ReleasedIsRead
  <2>6. Decodes(file[1]) /\ ValueOn(file[1]) = w.state /\ Holds(file[1], k)
    BY <2>2, <2>5 DEF Decodes, Parses, ValueOn, Holds, First
  <2>7. Readable(file) => process # "refused"
    <3>1. \A i \in 1 .. Len(file) : Decodes(file[i]) \/ (i = Len(file) /\ ~Parses(file[i]))
      BY <2>1, <2>6 DEF UpgradeInv
    <3> QED BY <3>1 DEF UpgradeInv, ReplaySucceeds
  <2>8. ASSUME Serving, Cardinality(Records(file, k)) = 1
        PROVE  states[k] = w.state
    <3>1. 1 \in Records(file, k)
      BY <2>1, <2>6 DEF Records
    <3>2. IsFiniteSet(1 .. Len(file))
      BY <2>1, FS_Interval
    <3>3. IsFiniteSet(Records(file, k))
      BY <3>2, FS_Subset DEF Records
    <3>4. Records(file, k) = {1}
      BY <2>8, <3>1, <3>3, FS_Singleton
    <3>5. Last(file, k, 1)
      BY <2>1, <2>6, <3>4 DEF Last, Records
    <3>6. Latest(file, k) = file[1] /\ Records(file, k) # {}
      BY <2>1, <3>5, LatestIsLast
    <3>7. states = Replayed(file)
      BY <2>8 DEF DurableInv, ServedIsDurable
    <3> QED BY <2>5, <2>6, <3>6, <3>7 DEF Replayed
  <2> QED BY <2>7, <2>8
<1>2. DurableInv /\ UpgradeInv /\ [Next]_vars => UpgradeInv'
  BY NextUpgrade
<1>3. Spec => []DurableInv
  BY DurableInvariance
<1> QED BY <1>1, <1>2, <1>3, InitUpgrade, PTL DEF Spec
=============================================================================
