------------------------ MODULE DeploymentFileProofs ------------------------
(***************************************************************************)
(* Theorems about DeploymentFile: for every directory, every set of        *)
(* identities and any number of edits between any two system calls.        *)
(*                                                                         *)
(* The properties rest on what no single system call shows: two visible    *)
(* names never share an inode, the temporary file has one of its own, and  *)
(* the only inode with a name on both sides is the one the running delete  *)
(* has just linked (FileInv).  On top of it, OwedInv follows the texts:    *)
(* the temporary file holds the change of the very text that is compared,  *)
(* so that a replacement puts a version of what is owed in its place.      *)
(***************************************************************************)
EXTENDS DeploymentFile, FiniteSetTheorems, TLAPS

-----------------------------------------------------------------------------
(* The inductive invariant. *)

FileTypes ==
  /\ dir \in [Names -> Inodes \cup {None}]
  /\ trash \in [Stamps -> Inodes \cup {None}]
  /\ temp \in Inodes \cup {None}
  /\ content \in [Inodes -> Contents \cup {None}]
  /\ \A i \in Inodes : content[i] = None <=> i \notin Used

OtherTypes ==
  /\ pc \in Points
  /\ cmd \in [kind : {"none", "enable", "disable", "delete"}, id : Ids \cup {None},
              path : Names \cup {None}, original : Contents \cup {None},
              target : Stamps \cup {None}]
  /\ edits \in 0 .. MaxEdits
  /\ owed \in [Names -> Documents \cup {None}]
  /\ window \in BOOLEAN /\ (window => pc \in AfterLook)
  /\ littered \in BOOLEAN
  /\ deleted \in [Stamps -> Contents \cup {None}]

(* No two visible names are one file, and no name is the temporary file. *)
OwnInodes ==
  /\ \A m, n \in Names : m # n /\ dir[m] = dir[n] => dir[m] = None
  /\ temp # None => /\ \A n \in Names : dir[n] # temp
                    /\ \A s \in Stamps : trash[s] # temp

(* The point at which the running delete has the file linked. *)
Linked == pc \in {"d_verify", "d_unlink"}

(* A file has a name on both sides only while the running delete moves it. *)
SharedByDelete ==
  \A n \in Names, s \in Stamps :
    dir[n] = trash[s] /\ dir[n] # None =>
      littered \/ (Linked /\ n = cmd.path /\ s = cmd.target)

(* What the running command has in hand. *)
InHand ==
  /\ pc \in Points \ {"idle", "w_locate", "d_check", "d_locate"} => cmd.path \in Names
  /\ pc \in {"w_write", "w_compare", "w_replace"} => cmd.original \in Documents
  /\ Linked => /\ cmd.target \in Stamps
               /\ trash[cmd.target] # None
               /\ deleted[cmd.target] = None

(* What it saw at its last look still holds, unless an editor saved since. *)
StillAsSeen ==
  ~window =>
    /\ pc = "w_replace" => Read(cmd.path) = cmd.original
    /\ Linked => dir[cmd.path] = trash[cmd.target]
    /\ pc = "d_unlink" => content[trash[cmd.target]] = cmd.original

(* What was deleted is still in the trash. *)
StillInTrash == \A s \in Stamps : deleted[s] # None => trash[s] # None

FileInv ==
  /\ FileTypes /\ OtherTypes
  /\ OwnInodes /\ SharedByDelete /\ InHand /\ StillAsSeen /\ StillInTrash

-----------------------------------------------------------------------------
(* The file system. *)

(* There is always an inode left for a new file. *)
LEMMA SpareInode ==
  ASSUME FileTypes
  PROVE  NewInode \in Inodes \ Used
<1> DEFINE visible == {dir[n] : n \in Names}
           moved == {trash[s] : s \in Stamps}
<1>1. IsFiniteSet(visible) /\ Cardinality(visible) <= Cardinality(Names)
  <2>1. dir \in Surjection(Names, visible)
    BY DEF FileTypes, Surjection
  <2> HIDE DEF visible
  <2> QED BY <2>1, FS_Surjection, FileAssumption
<1>2. IsFiniteSet(moved) /\ Cardinality(moved) <= Cardinality(Stamps)
  <2>1. trash \in Surjection(Stamps, moved)
    BY DEF FileTypes, Surjection
  <2> HIDE DEF moved
  <2> QED BY <2>1, FS_Surjection, FileAssumption
<1>3. Used \subseteq (visible \cup moved) \cup {temp}
  BY DEF Used, Referred
<1> HIDE DEF visible, moved
<1> DEFINE both == visible \cup moved
<1>4. IsFiniteSet(both) /\ Cardinality(both) <= Cardinality(Names) + Cardinality(Stamps)
  <2>1. IsFiniteSet(visible \cap moved)
    BY <1>1, FS_Subset
  <2>2. /\ Cardinality(Names) \in Nat /\ Cardinality(Stamps) \in Nat
        /\ Cardinality(visible) \in Nat /\ Cardinality(moved) \in Nat
        /\ Cardinality(visible \cap moved) \in Nat
    BY <1>1, <1>2, <2>1, FS_CardinalityType, FileAssumption
  <2>3. /\ IsFiniteSet(both)
        /\ Cardinality(both) =
             Cardinality(visible) + Cardinality(moved) - Cardinality(visible \cap moved)
    BY <1>1, <1>2, FS_Union
  <2> QED BY <1>1, <1>2, <2>2, <2>3
<1> HIDE DEF both
<1>5. /\ IsFiniteSet(both \cup {temp})
      /\ Cardinality(both \cup {temp}) < Cardinality(Inodes)
  <2>1. /\ Cardinality(Names) \in Nat /\ Cardinality(Stamps) \in Nat
        /\ Cardinality(both) \in Nat /\ Cardinality(Inodes) \in Nat
    BY <1>4, FS_CardinalityType, FileAssumption
  <2>2. /\ IsFiniteSet(both \cup {temp})
        /\ Cardinality(both \cup {temp}) \in {Cardinality(both), Cardinality(both) + 1}
    BY <1>4, FS_AddElement
  <2> QED BY <1>4, <2>1, <2>2, FileAssumption
<1>6. \E i \in Inodes : i \notin Used
  <2> SUFFICES ASSUME Inodes \subseteq Used PROVE FALSE
    OBVIOUS
  <2>1. Inodes \subseteq both \cup {temp}
    BY <1>3 DEF both
  <2>2. Cardinality(Inodes) <= Cardinality(both \cup {temp})
    BY <1>5, <2>1, FS_Subset
  <2>3. Cardinality(Inodes) \in Nat /\ Cardinality(both \cup {temp}) \in Nat
    BY <1>5, FS_CardinalityType, FileAssumption
  <2> QED BY <1>5, <2>2, <2>3
<1> QED BY <1>6 DEF NewInode

(* A change of the directories keeps the files well typed, keeps what has  *)
(* a name and forgets the rest.                                            *)
LEMMA FilesChange ==
  ASSUME NEW d \in [Names -> Inodes \cup {None}],
         NEW t \in [Stamps -> Inodes \cup {None}],
         NEW tmp \in Inodes \cup {None},
         NEW c \in [Inodes -> Contents \cup {None}],
         \A i \in Inodes : i \in Referred(d, t, tmp) => c[i] # None,
         Files(d, t, tmp, c)
  PROVE  /\ FileTypes'
         /\ dir' = d /\ trash' = t /\ temp' = tmp
         /\ \A n \in Names : d[n] # None => content'[d[n]] = c[d[n]]
         /\ \A s \in Stamps : t[s] # None => content'[t[s]] = c[t[s]]
         /\ tmp # None => content'[tmp] = c[tmp]
<1>1. dir' = d /\ trash' = t /\ temp' = tmp
  BY DEF Files
<1>2. content' = [i \in Inodes |-> IF i \in Referred(d, t, tmp) THEN c[i] ELSE None]
  BY DEF Files, Collected
<1>3. \A i \in Inodes : i \in Used' <=> i \in Referred(d, t, tmp)
  BY <1>1, FileAssumption DEF Used, Referred
<1>4. content' \in [Inodes -> Contents \cup {None}]
  BY <1>2
<1>5. \A i \in Inodes : content'[i] = None <=> i \notin Used'
  BY <1>2, <1>3
<1>6. /\ \A n \in Names : d[n] \in Referred(d, t, tmp)
      /\ \A s \in Stamps : t[s] \in Referred(d, t, tmp)
      /\ tmp \in Referred(d, t, tmp)
  BY DEF Referred
<1>7. FileTypes'
  BY <1>1, <1>4, <1>5 DEF FileTypes
<1> QED BY <1>1, <1>2, <1>6, <1>7

(* What a name refers to has a content. *)
LEMMA NamedHasContent ==
  ASSUME FileTypes
  PROVE  /\ \A n \in Names : dir[n] # None => dir[n] \in Inodes /\ content[dir[n]] # None
         /\ \A s \in Stamps : trash[s] # None => trash[s] \in Inodes /\ content[trash[s]] # None
         /\ temp # None => temp \in Inodes /\ content[temp] # None
         /\ \A n \in Names : Read(n) \in Contents \cup {None}
BY FileAssumption DEF FileTypes, Used, Referred, Read

(* A scan finds a visible name, or nothing. *)
LEMMA LocatedIsAName ==
  ASSUME NEW id, Located(id) # None
  PROVE  Located(id) \in Names
<1> DEFINE candidates == {n \in Names : Read(n) \in Documents /\ Read(n).id = id}
<1>1. Cardinality(candidates) = 1 /\ Located(id) = CHOOSE n \in candidates : TRUE
  BY DEF Located
<1>2. candidates # {}
  BY <1>1, FS_EmptySet
<1> QED BY <1>1, <1>2

-----------------------------------------------------------------------------
(* Initially. *)

LEMMA InitFileInv == Init => FileInv
<1> SUFFICES ASSUME Init PROVE FileInv
  OBVIOUS
<1> DEFINE i == CHOOSE inode \in Inodes : TRUE
<1>1. PICK name \in Names, document \in Saveable :
        /\ dir = [m \in Names |-> IF m = name THEN i ELSE None]
        /\ trash = [s \in Stamps |-> None]
        /\ temp = None
        /\ content = [j \in Inodes |-> IF j = i THEN document ELSE None]
        /\ pc = "idle" /\ cmd = NoCommand
        /\ edits = 0
        /\ owed = [m \in Names |-> IF m = name THEN document ELSE None]
        /\ window = FALSE /\ littered = FALSE
        /\ deleted = [s \in Stamps |-> None]
  BY DEF Init
<1>2. i \in Inodes
  <2>1. /\ Cardinality(Names) \in Nat /\ Cardinality(Stamps) \in Nat
    BY FS_CardinalityType, FileAssumption
  <2>2. Inodes # {}
    BY <2>1, FS_EmptySet, FileAssumption
  <2> QED BY <2>2
<1> HIDE DEF i
<1>3. document \in Documents
  BY DEF Saveable
<1>4. FileTypes
  <2>1. \A j \in Inodes : j \in Used <=> j = i
    BY <1>1, <1>2, FileAssumption DEF Used, Referred
  <2>2. document \in Contents \cup {None} /\ document # None
    BY <1>3, FileAssumption DEF Contents
  <2> QED BY <1>1, <1>2, <2>1, <2>2 DEF FileTypes
<1>5. OtherTypes
  <2>1. owed \in [Names -> Documents \cup {None}]
    BY <1>1, <1>3
  <2>2. cmd \in [kind : {"none", "enable", "disable", "delete"}, id : Ids \cup {None},
                 path : Names \cup {None}, original : Contents \cup {None},
                 target : Stamps \cup {None}]
    BY <1>1 DEF NoCommand
  <2>3. edits \in 0 .. MaxEdits /\ pc \in Points
    BY <1>1, FileAssumption DEF Points
  <2>4. deleted \in [Stamps -> Contents \cup {None}]
    BY <1>1
  <2> QED BY <1>1, <2>1, <2>2, <2>3, <2>4 DEF OtherTypes
<1>6. OwnInodes /\ SharedByDelete /\ StillInTrash
  BY <1>1 DEF OwnInodes, SharedByDelete, StillInTrash
<1>7. InHand /\ StillAsSeen
  BY <1>1 DEF InHand, StillAsSeen, Linked
<1> QED BY <1>4, <1>5, <1>6, <1>7 DEF FileInv

-----------------------------------------------------------------------------
(* Steps that change no file. *)

(* With the files as they were, the parts of the invariant that are about  *)
(* them alone stay.                                                        *)
LEMMA FilesKept ==
  ASSUME FileInv, Unmoved, UNCHANGED history
  PROVE  /\ FileTypes' /\ OwnInodes' /\ StillInTrash'
         /\ \A n : Read(n)' = Read(n)
BY DEF FileInv, Unmoved, history, FileTypes, OwnInodes, StillInTrash, Used, Referred, Read

(* What the rest of the invariant asks of a step that changes no file. *)
LEMMA UnmovedStep ==
  ASSUME FileInv, Unmoved, UNCHANGED history, OtherTypes', InHand', StillAsSeen',
         Linked => Linked' /\ cmd'.path = cmd.path /\ cmd'.target = cmd.target
  PROVE  FileInv'
<1>1. SharedByDelete'
  BY DEF FileInv, SharedByDelete, Unmoved, history
<1> QED BY <1>1, FilesKept DEF FileInv

LEMMA EndOfCommand ==
  ASSUME FileInv, Finish
  PROVE  /\ cmd' \in [kind : {"none", "enable", "disable", "delete"}, id : Ids \cup {None},
                      path : Names \cup {None}, original : Contents \cup {None},
                      target : Stamps \cup {None}]
         /\ pc' \in Points
         /\ ~Linked' /\ InHand' /\ StillAsSeen' /\ window' = FALSE
<1>1. pc' = "idle" /\ cmd' = NoCommand /\ window' = FALSE
  BY DEF Finish, Goto
<1> QED BY <1>1 DEF NoCommand, Points, Linked, InHand, StillAsSeen

LEMMA StartInv ==
  ASSUME FileInv, NEW kind \in {"enable", "disable", "delete"}, NEW id \in Ids,
         Start(kind, id)
  PROVE  FileInv'
<1>1. cmd' = [kind |-> kind, id |-> id, path |-> None, original |-> None, target |-> None]
  BY DEF Start, NoCommand
<1>2. Unmoved /\ UNCHANGED history /\ ~Linked
  BY DEF Start, Linked
<1>3. OtherTypes'
  <2>1. cmd' \in [kind : {"none", "enable", "disable", "delete"}, id : Ids \cup {None},
                  path : Names \cup {None}, original : Contents \cup {None},
                  target : Stamps \cup {None}]
    BY <1>1
  <2>2. pc' \in Points /\ pc \notin AfterLook /\ window' = window
    BY DEF Start, Goto, Points, AfterLook
  <2> QED BY <2>1, <2>2 DEF FileInv, Start, OtherTypes, history
<1>4. InHand' /\ StillAsSeen'
  BY DEF Start, Goto, InHand, StillAsSeen, Linked
<1> QED BY <1>2, <1>3, <1>4, UnmovedStep

LEMMA RefuseInv ==
  ASSUME FileInv,
         Refuse({"w_locate", "w_read", "d_check", "d_locate", "d_read", "d_relocate",
                 "d_compare", "d_link"})
  PROVE  FileInv'
<1>1. Unmoved /\ UNCHANGED history /\ ~Linked /\ Finish
  BY DEF Refuse, Linked
<1>2. OtherTypes'
  BY <1>1, EndOfCommand DEF FileInv, Refuse, OtherTypes, history
<1> QED BY <1>1, <1>2, EndOfCommand, UnmovedStep

(* A scan, for either command. *)
LEMMA LocatesInv ==
  ASSUME FileInv, WriterLocates \/ DeleteLocates \/ DeleteRelocates
  PROVE  FileInv'
<1>1. /\ Unmoved /\ UNCHANGED <<edits, window, history>> /\ ~Linked
      /\ cmd' = [cmd EXCEPT !.path = Located(cmd.id)]
      /\ Located(cmd.id) \in Names
      /\ pc' \in {"w_read", "d_read", "d_compare"} /\ pc \notin AfterLook
  BY LocatedIsAName DEF WriterLocates, DeleteLocates, DeleteRelocates, Goto, Linked, AfterLook
<1>2. OtherTypes'
  BY <1>1 DEF FileInv, OtherTypes, Points, history
<1>3. InHand' /\ StillAsSeen'
  BY <1>1 DEF FileInv, OtherTypes, InHand, StillAsSeen, Linked
<1> QED BY <1>1, <1>2, <1>3, UnmovedStep

LEMMA WriterReadsInv ==
  ASSUME FileInv, WriterReads
  PROVE  FileInv'
<1>1. /\ Unmoved /\ UNCHANGED <<edits, history>> /\ ~Linked
      /\ cmd.path \in Names /\ Read(cmd.path) \in Documents /\ pc \notin AfterLook
  BY DEF FileInv, InHand, WriterReads, Linked, Points, AfterLook
<1>2. CASE Finish
  <2>1. OtherTypes'
    BY <1>1, <1>2, EndOfCommand DEF FileInv, OtherTypes, history
  <2> QED BY <1>1, <1>2, <2>1, EndOfCommand, UnmovedStep
<1>3. CASE /\ Goto("w_write") /\ cmd' = [cmd EXCEPT !.original = Read(cmd.path)]
           /\ UNCHANGED window
  <2>1. OtherTypes'
    BY <1>1, <1>3 DEF FileInv, OtherTypes, Points, history, Contents, Goto
  <2>2. cmd'.original = Read(cmd.path) /\ cmd'.path = cmd.path
    BY <1>3 DEF FileInv, OtherTypes
  <2>3. InHand' /\ StillAsSeen'
    BY <1>1, <1>3, <2>2 DEF InHand, StillAsSeen, Linked, Goto
  <2> QED BY <1>1, <2>1, <2>2, <2>3, UnmovedStep
<1> QED BY <1>2, <1>3 DEF WriterReads

LEMMA DeleteReadsInv ==
  ASSUME FileInv, DeleteReads
  PROVE  FileInv'
<1>1. /\ Unmoved /\ UNCHANGED <<edits, window, history>> /\ ~Linked
      /\ cmd.path \in Names /\ pc \notin AfterLook
      /\ cmd' = [cmd EXCEPT !.original = Read(cmd.path)] /\ pc' = "d_relocate"
  BY DEF FileInv, InHand, DeleteReads, Linked, Points, Goto, AfterLook
<1>2. cmd'.original = Read(cmd.path) /\ cmd'.path = cmd.path
  BY <1>1 DEF FileInv, OtherTypes
<1>3. OtherTypes'
  BY <1>1, NamedHasContent DEF FileInv, OtherTypes, Points, history
<1>4. InHand' /\ StillAsSeen'
  BY <1>1, <1>2 DEF InHand, StillAsSeen, Linked
<1> QED BY <1>1, <1>2, <1>3, <1>4, UnmovedStep

LEMMA DeleteChecksInv ==
  ASSUME FileInv, DeleteChecks \/ DeleteCompares
  PROVE  FileInv'
<1>1. /\ Unmoved /\ UNCHANGED <<cmd, edits, window, history>> /\ ~Linked
      /\ \/ pc' = "d_locate"
         \/ pc = "d_compare" /\ pc' = "d_link"
      /\ pc \notin AfterLook
  BY DEF DeleteChecks, DeleteCompares, Linked, Goto, AfterLook
<1>2. OtherTypes'
  BY <1>1 DEF FileInv, OtherTypes, Points, history
<1>3. InHand' /\ StillAsSeen'
  BY <1>1 DEF FileInv, InHand, StillAsSeen, Linked, Points
<1> QED BY <1>1, <1>2, <1>3, UnmovedStep

LEMMA WriterComparesInv ==
  ASSUME FileInv, WriterCompares
  PROVE  FileInv'
<1>1. /\ Unmoved /\ UNCHANGED <<cmd, edits, window, history>> /\ ~Linked
      /\ pc = "w_compare" /\ pc' = "w_replace" /\ pc \notin AfterLook
      /\ Read(cmd.path) = cmd.original
  BY DEF WriterCompares, Linked, Goto, AfterLook
<1>2. OtherTypes'
  BY <1>1 DEF FileInv, OtherTypes, Points, history
<1>3. InHand'
  BY <1>1 DEF FileInv, InHand, Linked, Points
<1>4. StillAsSeen'
  BY <1>1 DEF StillAsSeen, Linked, Read, Unmoved
<1> QED BY <1>1, <1>2, <1>3, <1>4, UnmovedStep

LEMMA DeleteVerifiesInv ==
  ASSUME FileInv, DeleteVerifies
  PROVE  FileInv'
<1>1. /\ Unmoved /\ UNCHANGED <<cmd, edits, window, history>>
      /\ pc = "d_verify" /\ pc' = "d_unlink"
      /\ content[trash[cmd.target]] = cmd.original
  BY DEF DeleteVerifies, Goto
<1>2. OtherTypes'
  BY <1>1 DEF FileInv, OtherTypes, Points, AfterLook, history
<1>3. InHand'
  BY <1>1 DEF FileInv, InHand, Linked, Points, Unmoved, history
<1>4. StillAsSeen'
  BY <1>1 DEF FileInv, StillAsSeen, Linked, Unmoved
<1>5. Linked /\ Linked'
  BY <1>1 DEF Linked
<1> QED BY <1>1, <1>2, <1>3, <1>4, <1>5, UnmovedStep

-----------------------------------------------------------------------------
(* Steps that change a directory or a file. *)

(* Names are made, moved or removed for files that exist. *)
LEMMA Rearranged ==
  ASSUME FileInv,
         NEW d \in [Names -> Inodes \cup {None}],
         NEW t \in [Stamps -> Inodes \cup {None}],
         NEW tmp \in Inodes \cup {None},
         Referred(d, t, tmp) \ {None} \subseteq Used,
         Files(d, t, tmp, content)
  PROVE  /\ FileTypes'
         /\ dir' = d /\ trash' = t /\ temp' = tmp
         /\ \A n \in Names : d[n] # None => content'[d[n]] = content[d[n]]
         /\ \A s \in Stamps : t[s] # None => content'[t[s]] = content[t[s]]
         /\ tmp # None => content'[tmp] = content[tmp]
<1>1. content \in [Inodes -> Contents \cup {None}]
  BY DEF FileInv, FileTypes
<1>2. \A i \in Inodes : i \in Referred(d, t, tmp) => content[i] # None
  BY FileAssumption DEF FileInv, FileTypes
<1> QED BY <1>1, <1>2, FilesChange

(* One file is written, new or not; every other one stays as it is. *)
LEMMA Written ==
  ASSUME FileInv,
         NEW d \in [Names -> Inodes \cup {None}],
         NEW tmp \in Inodes \cup {None},
         NEW i \in Inodes, NEW document \in Contents,
         Referred(d, trash, tmp) \ {None} \subseteq Used \cup {i},
         Files(d, trash, tmp, [content EXCEPT ![i] = document])
  PROVE  /\ FileTypes'
         /\ dir' = d /\ trash' = trash /\ temp' = tmp
         /\ \A n \in Names :
              d[n] # None => content'[d[n]] = IF d[n] = i THEN document ELSE content[d[n]]
         /\ \A s \in Stamps : trash[s] # None /\ trash[s] # i
                                => content'[trash[s]] = content[trash[s]]
         /\ tmp # None => content'[tmp] = IF tmp = i THEN document ELSE content[tmp]
<1> DEFINE c == [content EXCEPT ![i] = document]
<1>1. /\ content \in [Inodes -> Contents \cup {None}]
      /\ trash \in [Stamps -> Inodes \cup {None}]
      /\ document # None
  BY FileAssumption DEF FileInv, FileTypes
<1>2. c \in [Inodes -> Contents \cup {None}]
  BY <1>1
<1>3. \A j \in Inodes : c[j] = IF j = i THEN document ELSE content[j]
  BY <1>1
<1>4. \A j \in Inodes : j \in Referred(d, trash, tmp) => c[j] # None
  BY <1>1, <1>3, FileAssumption DEF FileInv, FileTypes
<1>5. Files(d, trash, tmp, c)
  OBVIOUS
<1> HIDE DEF c
<1>6. /\ FileTypes'
      /\ dir' = d /\ trash' = trash /\ temp' = tmp
      /\ \A n \in Names : d[n] # None => content'[d[n]] = c[d[n]]
      /\ \A s \in Stamps : trash[s] # None => content'[trash[s]] = c[trash[s]]
      /\ tmp # None => content'[tmp] = c[tmp]
  BY <1>1, <1>2, <1>4, <1>5, FilesChange
<1> QED BY <1>1, <1>3, <1>6

(* Names that were there before refer to files that exist. *)
LEMMA OldNames ==
  ASSUME FileInv
  PROVE  /\ dir \in [Names -> Inodes \cup {None}]
         /\ trash \in [Stamps -> Inodes \cup {None}]
         /\ temp \in Inodes \cup {None}
         /\ \A n \in Names : dir[n] # None => dir[n] \in Used
         /\ \A s \in Stamps : trash[s] # None => trash[s] \in Used
         /\ temp # None => temp \in Used
BY DEF FileInv, FileTypes, Used, Referred

(* A change of `enabled` makes a document, and one made of a version of a  *)
(* text is a version of it, too: what is rendered once stays as it is.     *)
LEMMA UpdatedIsADocument ==
  ASSUME NEW document \in Documents, NEW enabled \in BOOLEAN
  PROVE  Updated(document, enabled) \in Documents
BY DEF Updated, Documents, Rendered, Layouts

LEMMA UpdatedIsAVersion ==
  ASSUME NEW text \in Documents, NEW version \in Versions(text), NEW enabled \in BOOLEAN
  PROVE  Updated(version, enabled) \in Versions(text)
<1>1. \A b, c \in BOOLEAN : Updated(Updated(text, b), c) = Updated(text, c)
  BY DEF Updated, Documents, Rendered, Layouts
<1> QED BY <1>1 DEF Versions

LEMMA WriterWritesInv ==
  ASSUME FileInv, WriterWrites
  PROVE  /\ FileInv'
         /\ \A n \in Names : Read(n)' = Read(n)
         /\ UNCHANGED <<dir, trash>>
         /\ \A s \in Stamps : trash[s] # None => content'[trash[s]] = content[trash[s]]
         /\ temp' # None /\ content'[temp'] = Updated(cmd.original, cmd.kind = "enable")
<1> DEFINE i == NewInode
           document == Updated(cmd.original, cmd.kind = "enable")
<1>1. i \in Inodes /\ i \notin Used
  BY SpareInode DEF FileInv
<1>2. /\ pc = "w_write" /\ pc' = "w_compare" /\ ~Linked /\ ~Linked'
      /\ Files(dir, trash, i, [content EXCEPT ![i] = document])
      /\ UNCHANGED <<cmd, edits, window, history>>
  BY DEF WriterWrites, Linked, Goto
<1>3. cmd.original \in Documents /\ cmd.path \in Names
  BY <1>2 DEF FileInv, InHand, Points
<1>4. document \in Contents
  BY <1>3, UpdatedIsADocument DEF Contents
<1> HIDE DEF i, document
<1>5. Referred(dir, trash, i) \ {None} \subseteq Used \cup {i}
  BY DEF Referred, Used
<1>6. /\ FileTypes'
      /\ dir' = dir /\ trash' = trash /\ temp' = i
      /\ \A n \in Names :
           dir[n] # None => content'[dir[n]] = IF dir[n] = i THEN document ELSE content[dir[n]]
      /\ \A s \in Stamps : trash[s] # None /\ trash[s] # i
                             => content'[trash[s]] = content[trash[s]]
      /\ i # None /\ content'[i] = document
  BY <1>1, <1>2, <1>4, <1>5, OldNames, Written, FileAssumption
<1>7. OtherTypes'
  BY <1>2 DEF FileInv, OtherTypes, Points, AfterLook, history
<1>8. OwnInodes' /\ StillInTrash'
  <2>1. \A n \in Names : dir[n] # i
    BY <1>1, OldNames, FileAssumption
  <2>2. \A s \in Stamps : trash[s] # i
    BY <1>1, OldNames, FileAssumption
  <2> QED BY <1>2, <1>6, <2>1, <2>2 DEF FileInv, OwnInodes, StillInTrash, history
<1>9. SharedByDelete'
  BY <1>2, <1>6 DEF FileInv, SharedByDelete, history
<1>10. InHand' /\ StillAsSeen'
  BY <1>2, <1>3 DEF InHand, StillAsSeen, Linked
<1>11. \A n \in Names : Read(n)' = Read(n)
  BY <1>1, <1>6, OldNames DEF Read
<1>12. \A s \in Stamps : trash[s] # None => content'[trash[s]] = content[trash[s]]
  BY <1>1, <1>6, OldNames
<1> QED BY <1>6, <1>7, <1>8, <1>9, <1>10, <1>11, <1>12 DEF FileInv, document

(* Giving up what was saved in the window leaves `owed` well typed. *)
LEMMA OverrunTypes ==
  ASSUME FileInv, Overrun
  PROVE  owed' \in [Names -> Documents \cup {None}]
BY DEF FileInv, OtherTypes, Overrun

(* os.replace: the one step of the writer that changes a visible name. *)
LEMMA WriterReplacesInv ==
  ASSUME FileInv, WriterReplaces
  PROVE  /\ FileInv'
         /\ cmd.path \in Names
         /\ trash' = trash /\ dir' = [dir EXCEPT ![cmd.path] = temp]
         /\ \A n \in Names : dir'[n] # None => content'[dir'[n]] = content[dir'[n]]
         /\ \A s \in Stamps : trash[s] # None => content'[trash[s]] = content[trash[s]]
<1> DEFINE d == [dir EXCEPT ![cmd.path] = temp]
<1>1. /\ pc = "w_replace" /\ ~Linked /\ Finish
      /\ Files(d, trash, None, content)
      /\ Overrun /\ UNCHANGED <<edits, littered, deleted>>
  BY DEF WriterReplaces, Linked
<1>2. cmd.path \in Names
  BY <1>1 DEF FileInv, InHand, Points
<1>3. /\ d \in [Names -> Inodes \cup {None}]
      /\ \A n \in Names : d[n] = IF n = cmd.path THEN temp ELSE dir[n]
  BY <1>2, OldNames
<1> HIDE DEF d
<1>4. Referred(d, trash, None) \ {None} \subseteq Used
  BY <1>3, OldNames DEF Referred
<1>5. /\ FileTypes'
      /\ dir' = d /\ trash' = trash /\ temp' = None
      /\ \A n \in Names : d[n] # None => content'[d[n]] = content[d[n]]
      /\ \A s \in Stamps : trash[s] # None => content'[trash[s]] = content[trash[s]]
  <2>1. None \in Inodes \cup {None}
    OBVIOUS
  <2> QED BY <1>1, <1>3, <1>4, <2>1, OldNames, Rearranged
<1>6. OtherTypes'
  BY <1>1, OverrunTypes, EndOfCommand DEF FileInv, OtherTypes
<1>7. OwnInodes' /\ StillInTrash' /\ SharedByDelete'
  BY <1>1, <1>3, <1>5 DEF FileInv, OwnInodes, StillInTrash, SharedByDelete
<1> QED BY <1>1, <1>2, <1>5, <1>6, <1>7, EndOfCommand DEF FileInv, d

(* The end of a command that leaves every visible name where it is: the    *)
(* writer gives up, or the process dies.                                   *)
LEMMA TempDroppedInv ==
  ASSUME FileInv, Finish, Files(dir, trash, None, content),
         UNCHANGED <<edits, owed, deleted>>, littered' \in BOOLEAN,
         littered => littered', Linked => littered'
  PROVE  /\ FileInv'
         /\ UNCHANGED <<dir, trash>> /\ \A n \in Names : Read(n)' = Read(n)
         /\ \A s \in Stamps : trash[s] # None => content'[trash[s]] = content[trash[s]]
<1>1. Referred(dir, trash, None) \ {None} \subseteq Used
  BY DEF Referred, Used
<1>2. /\ FileTypes'
      /\ dir' = dir /\ trash' = trash /\ temp' = None
      /\ \A n \in Names : dir[n] # None => content'[dir[n]] = content[dir[n]]
      /\ \A s \in Stamps : trash[s] # None => content'[trash[s]] = content[trash[s]]
  BY <1>1, OldNames, Rearranged
<1>3. OtherTypes'
  BY EndOfCommand DEF FileInv, OtherTypes
<1>4. OwnInodes' /\ StillInTrash' /\ SharedByDelete'
  BY <1>2 DEF FileInv, OwnInodes, StillInTrash, SharedByDelete
<1>5. \A n \in Names : Read(n)' = Read(n)
  BY <1>2 DEF Read
<1> QED BY <1>2, <1>3, <1>4, <1>5, EndOfCommand DEF FileInv

LEMMA WriterGivesUpInv ==
  ASSUME FileInv, WriterGivesUp
  PROVE  /\ FileInv'
         /\ UNCHANGED <<dir, trash>> /\ \A n \in Names : Read(n)' = Read(n)
         /\ \A s \in Stamps : trash[s] # None => content'[trash[s]] = content[trash[s]]
<1>1. ~Linked /\ Finish /\ Files(dir, trash, None, content)
  BY DEF WriterGivesUp, Linked
<1>2. UNCHANGED <<edits, owed, deleted>> /\ littered' = littered
  BY DEF WriterGivesUp, history
<1>3. littered \in BOOLEAN
  BY DEF FileInv, OtherTypes
<1> QED BY <1>1, <1>2, <1>3, TempDroppedInv

LEMMA CrashInv ==
  ASSUME FileInv, Crash
  PROVE  /\ FileInv'
         /\ UNCHANGED <<dir, trash>> /\ \A n \in Names : Read(n)' = Read(n)
         /\ \A s \in Stamps : trash[s] # None => content'[trash[s]] = content[trash[s]]
BY TempDroppedInv DEF Crash

(* os.link: from here on the file has two names. *)
LEMMA DeleteLinksInv ==
  ASSUME FileInv, NEW stamp \in Stamps, DeleteLinks(stamp)
  PROVE  /\ FileInv'
         /\ UNCHANGED dir /\ \A n \in Names : Read(n)' = Read(n)
         /\ cmd.path \in Names /\ cmd'.path = cmd.path /\ cmd'.target = stamp
         /\ trash'[stamp] = dir[cmd.path] /\ dir[cmd.path] # None /\ trash[stamp] = None
         /\ \A s \in Stamps : trash[s] # None =>
              trash'[s] = trash[s] /\ content'[trash[s]] = content[trash[s]]
<1> DEFINE t == [trash EXCEPT ![stamp] = dir[cmd.path]]
<1>1. /\ pc = "d_link" /\ pc' = "d_verify" /\ ~Linked /\ Linked' /\ pc \notin AfterLook
      /\ dir[cmd.path] # None /\ trash[stamp] = None
      /\ Files(dir, t, temp, content)
      /\ cmd' = [cmd EXCEPT !.target = stamp]
      /\ UNCHANGED <<edits, window, history>>
  BY DEF DeleteLinks, Linked, Goto, AfterLook
<1>2. cmd.path \in Names
  BY <1>1 DEF FileInv, InHand, Points
<1>3. /\ t \in [Stamps -> Inodes \cup {None}]
      /\ \A s \in Stamps : t[s] = IF s = stamp THEN dir[cmd.path] ELSE trash[s]
  BY <1>2, OldNames
<1> HIDE DEF t
<1>4. Referred(dir, t, temp) \ {None} \subseteq Used
  BY <1>2, <1>3, OldNames DEF Referred
<1>5. /\ FileTypes'
      /\ dir' = dir /\ trash' = t /\ temp' = temp
      /\ \A n \in Names : dir[n] # None => content'[dir[n]] = content[dir[n]]
      /\ \A s \in Stamps : t[s] # None => content'[t[s]] = content[t[s]]
  BY <1>1, <1>3, <1>4, OldNames, Rearranged
<1>6. cmd'.path = cmd.path /\ cmd'.target = stamp /\ cmd'.original = cmd.original
  BY <1>1 DEF FileInv, OtherTypes
<1>7. OtherTypes'
  BY <1>1 DEF FileInv, OtherTypes, Points, history
<1>8. OwnInodes'
  BY <1>2, <1>3, <1>5 DEF FileInv, OwnInodes
<1>9. StillInTrash'
  BY <1>1, <1>3, <1>5 DEF FileInv, StillInTrash, history
<1>10. SharedByDelete'
  BY <1>1, <1>2, <1>3, <1>5, <1>6 DEF FileInv, SharedByDelete, OwnInodes, history
<1>11. InHand'
  <2>1. deleted[stamp] = None
    BY <1>1 DEF FileInv, StillInTrash
  <2> QED BY <1>1, <1>2, <1>3, <1>5, <1>6, <2>1 DEF InHand, history
<1>12. StillAsSeen'
  BY <1>1, <1>3, <1>5, <1>6 DEF StillAsSeen
<1>13. \A n \in Names : Read(n)' = Read(n)
  BY <1>5 DEF Read
<1>14. FileInv'
  BY <1>5, <1>7, <1>8, <1>9, <1>10, <1>11, <1>12 DEF FileInv
<1>15. \A s \in Stamps : trash[s] # None =>
         trash'[s] = trash[s] /\ content'[trash[s]] = content[trash[s]]
  BY <1>1, <1>3, <1>5
<1> QED BY <1>1, <1>2, <1>3, <1>5, <1>6, <1>13, <1>14, <1>15

(* The unlink ends the delete: the one step of it that changes a visible   *)
(* name.                                                                   *)
LEMMA DeleteUnlinksInv ==
  ASSUME FileInv, DeleteUnlinks
  PROVE  /\ FileInv'
         /\ cmd.path \in Names /\ cmd.target \in Stamps
         /\ trash' = trash /\ dir' = [dir EXCEPT ![cmd.path] = None]
         /\ \A n \in Names \ {cmd.path} : Read(n)' = Read(n)
         /\ \A s \in Stamps : trash[s] # None => content'[trash[s]] = content[trash[s]]
<1> DEFINE d == [dir EXCEPT ![cmd.path] = None]
<1>1. /\ pc = "d_unlink" /\ Linked /\ Finish
      /\ Files(d, trash, temp, content)
      /\ deleted' = [deleted EXCEPT ![cmd.target] = cmd.original]
      /\ Overrun /\ UNCHANGED <<edits, littered>>
  BY DEF DeleteUnlinks, Linked
<1>2. cmd.path \in Names /\ cmd.target \in Stamps /\ trash[cmd.target] # None
  BY <1>1 DEF FileInv, InHand, Points
<1>3. /\ d \in [Names -> Inodes \cup {None}]
      /\ \A n \in Names : d[n] = IF n = cmd.path THEN None ELSE dir[n]
  BY <1>2, OldNames
<1> HIDE DEF d
<1>4. Referred(d, trash, temp) \ {None} \subseteq Used
  BY <1>3, OldNames DEF Referred
<1>5. /\ FileTypes'
      /\ dir' = d /\ trash' = trash /\ temp' = temp
      /\ \A n \in Names : d[n] # None => content'[d[n]] = content[d[n]]
      /\ \A s \in Stamps : trash[s] # None => content'[trash[s]] = content[trash[s]]
  BY <1>1, <1>3, <1>4, OldNames, Rearranged
<1>6. deleted' \in [Stamps -> Contents \cup {None}]
  BY <1>1 DEF FileInv, OtherTypes
<1>7. OtherTypes'
  BY <1>1, <1>6, OverrunTypes, EndOfCommand DEF FileInv, OtherTypes
<1>8. OwnInodes'
  BY <1>3, <1>5 DEF FileInv, OwnInodes
<1>9. StillInTrash'
  <2>1. \A s \in Stamps : s # cmd.target => deleted'[s] = deleted[s]
    BY <1>1 DEF FileInv, OtherTypes
  <2> QED BY <1>2, <1>5, <2>1 DEF FileInv, StillInTrash
<1>10. SharedByDelete'
  BY <1>1, <1>2, <1>3, <1>5 DEF FileInv, SharedByDelete
<1>11. \A n \in Names \ {cmd.path} : Read(n)' = Read(n)
  BY <1>3, <1>5 DEF Read
<1> QED BY <1>1, <1>2, <1>5, <1>7, <1>8, <1>9, <1>10, <1>11, EndOfCommand DEF FileInv, d

(* A refused delete removes its own link, or leaves it behind. *)
LEMMA DeleteGivesUpInv ==
  ASSUME FileInv, DeleteGivesUp
  PROVE  /\ FileInv'
         /\ UNCHANGED dir /\ \A n \in Names : Read(n)' = Read(n)
         /\ cmd.target \in Stamps /\ deleted[cmd.target] = None
         /\ \A s \in Stamps \ {cmd.target} : trash'[s] = trash[s]
         /\ \A s \in Stamps : trash'[s] # None => content'[trash'[s]] = content[trash'[s]]
<1> DEFINE t == [trash EXCEPT ![cmd.target] = None]
<1>1. /\ Linked /\ Finish /\ UNCHANGED <<edits, owed, deleted>>
      /\ \/ Files(dir, t, temp, content) /\ UNCHANGED littered
         \/ Unmoved /\ littered' = TRUE
  BY DEF DeleteGivesUp, Linked
<1>2. cmd.target \in Stamps /\ deleted[cmd.target] = None
  BY <1>1 DEF FileInv, InHand
<1>3. /\ t \in [Stamps -> Inodes \cup {None}]
      /\ \A s \in Stamps : t[s] = IF s = cmd.target THEN None ELSE trash[s]
  BY <1>2, OldNames
<1> HIDE DEF t
<1>4. ASSUME Files(dir, t, temp, content) /\ UNCHANGED littered
      PROVE  /\ FileInv'
             /\ UNCHANGED dir /\ \A n \in Names : Read(n)' = Read(n)
             /\ \A s \in Stamps \ {cmd.target} : trash'[s] = trash[s]
             /\ \A s \in Stamps : trash'[s] # None => content'[trash'[s]] = content[trash'[s]]
  <2>1. Referred(dir, t, temp) \ {None} \subseteq Used
    BY <1>3, OldNames DEF Referred
  <2>2. /\ FileTypes'
        /\ dir' = dir /\ trash' = t /\ temp' = temp
        /\ \A n \in Names : dir[n] # None => content'[dir[n]] = content[dir[n]]
        /\ \A s \in Stamps : t[s] # None => content'[t[s]] = content[t[s]]
    BY <1>1, <1>3, <1>4, <2>1, OldNames, Rearranged
  <2>3. OtherTypes'
    BY <1>1, <1>4, EndOfCommand DEF FileInv, OtherTypes
  <2>4. OwnInodes' /\ SharedByDelete'
    BY <1>3, <1>4, <2>2 DEF FileInv, OwnInodes, SharedByDelete
  <2>5. StillInTrash'
    BY <1>1, <1>2, <1>3, <2>2 DEF FileInv, StillInTrash
  <2>6. \A n \in Names : Read(n)' = Read(n)
    BY <2>2 DEF Read
  <2> QED BY <1>1, <1>3, <2>2, <2>3, <2>4, <2>5, <2>6, EndOfCommand DEF FileInv
<1>5. ASSUME Unmoved /\ littered' = TRUE
      PROVE  /\ FileInv'
             /\ UNCHANGED dir /\ \A n \in Names : Read(n)' = Read(n)
             /\ \A s \in Stamps \ {cmd.target} : trash'[s] = trash[s]
             /\ \A s \in Stamps : trash'[s] # None => content'[trash'[s]] = content[trash'[s]]
  <2>1. FileTypes' /\ OwnInodes' /\ StillInTrash' /\ SharedByDelete'
    BY <1>1, <1>5 DEF FileInv, Unmoved, FileTypes, OwnInodes, StillInTrash, SharedByDelete,
                      Used, Referred
  <2>2. OtherTypes'
    BY <1>1, <1>5, EndOfCommand DEF FileInv, OtherTypes
  <2>3. \A n \in Names : Read(n)' = Read(n)
    BY <1>5 DEF Read, Unmoved
  <2> QED BY <1>1, <1>5, <2>1, <2>2, <2>3, EndOfCommand DEF FileInv, Unmoved
<1> QED BY <1>1, <1>2, <1>4, <1>5

-----------------------------------------------------------------------------
(* Steps of editors. *)

(* What an editor does to the names he touches is no other name's concern. *)
Elsewhere(names) ==
  \A n \in Names \ names : dir'[n] = dir[n] /\ Read(n)' = Read(n)

(* An editor's step keeps whatever the invariant says of the command. *)
LEMMA EditorStep ==
  ASSUME FileInv, FileTypes', OwnInodes', SharedByDelete',
         UNCHANGED <<trash, pc, cmd, littered, deleted>>,
         NEW names, Touched(names), Elsewhere(names), edits' \in 0 .. MaxEdits,
         owed' \in [Names -> Documents \cup {None}]
  PROVE  FileInv'
<1>1. OtherTypes'
  BY DEF FileInv, OtherTypes, Touched
<1>2. InHand' /\ StillInTrash'
  BY DEF FileInv, InHand, StillInTrash, Linked
<1>3. StillAsSeen'
  <2> SUFFICES ASSUME ~window', pc \in AfterLook
               PROVE  StillAsSeen'
    BY DEF StillAsSeen, Linked, AfterLook
  <2>1. ~window /\ cmd.path \in Names \ names
    BY DEF Touched, FileInv, InHand, AfterLook, Points
  <2>2. dir'[cmd.path] = dir[cmd.path] /\ Read(cmd.path)' = Read(cmd.path)
    BY <2>1 DEF Elsewhere
  <2>3. Linked => trash[cmd.target] # None /\ dir[cmd.path] = trash[cmd.target]
    BY <2>1 DEF FileInv, InHand, StillAsSeen
  <2>4. Linked => content'[trash[cmd.target]] = content[trash[cmd.target]]
    BY <2>2, <2>3 DEF Read
  <2> QED BY <2>1, <2>2, <2>3, <2>4 DEF FileInv, StillAsSeen, Linked
<1> QED BY <1>1, <1>2, <1>3 DEF FileInv

(* What a delete has moved away stays as it is. *)
MovedStay ==
  \A s \in Stamps : trash[s] # None /\ (\A m \in Names : dir[m] # trash[s])
                       /\ content[trash[s]] # Torn =>
    /\ content'[trash[s]] = content[trash[s]]
    /\ \A m \in Names : dir'[m] # trash[s]

LEMMA EditedTypes ==
  ASSUME FileInv, NEW name, Edited(name)
  PROVE  edits' \in 0 .. MaxEdits /\ Touched({name})
BY FileAssumption DEF FileInv, OtherTypes, Edited

LEMMA EditorReplacesInv ==
  ASSUME FileInv, NEW name \in Names, NEW document \in Documents,
         EditorReplaces(name, document)
  PROVE  /\ FileInv' /\ Elsewhere({name}) /\ MovedStay
         /\ dir'[name] # None /\ Read(name)' = document
         /\ \A s \in Stamps : dir'[name] # trash[s]
         /\ temp # None => content'[temp] = content[temp]
<1> DEFINE i == NewInode
           d == [dir EXCEPT ![name] = i]
<1>1. i \in Inodes /\ i \notin Used
  BY SpareInode DEF FileInv
<1>2. /\ Edited(name) /\ Files(d, trash, temp, [content EXCEPT ![i] = document])
      /\ owed' = [owed EXCEPT ![name] = document]
      /\ UNCHANGED <<pc, cmd, littered, deleted>>
  BY DEF EditorReplaces
<1> HIDE DEF i
<1>3. /\ d \in [Names -> Inodes \cup {None}]
      /\ \A n \in Names : d[n] = IF n = name THEN i ELSE dir[n]
  BY <1>1, OldNames
<1> HIDE DEF d
<1>4. Referred(d, trash, temp) \ {None} \subseteq Used \cup {i}
  BY <1>3, OldNames DEF Referred
<1>5. document \in Contents
  BY DEF Contents
<1>6. /\ FileTypes'
      /\ dir' = d /\ trash' = trash /\ temp' = temp
      /\ \A n \in Names :
           d[n] # None => content'[d[n]] = IF d[n] = i THEN document ELSE content[d[n]]
      /\ \A s \in Stamps : trash[s] # None /\ trash[s] # i
                             => content'[trash[s]] = content[trash[s]]
      /\ temp # None => content'[temp] = IF temp = i THEN document ELSE content[temp]
  BY <1>1, <1>2, <1>3, <1>4, <1>5, OldNames, Written
<1>7. /\ \A n \in Names : dir[n] # i
      /\ \A s \in Stamps : trash[s] # i
      /\ temp # i /\ i # None
  BY <1>1, OldNames, FileAssumption
<1>8. OwnInodes'
  BY <1>3, <1>6, <1>7 DEF FileInv, OwnInodes
<1>9. SharedByDelete'
  BY <1>2, <1>3, <1>6, <1>7 DEF FileInv, SharedByDelete, Linked
<1>10. owed' \in [Names -> Documents \cup {None}]
  BY <1>2 DEF FileInv, OtherTypes
<1>11. Elsewhere({name})
  BY <1>3, <1>6, <1>7 DEF Elsewhere, Read
<1>12. MovedStay
  BY <1>3, <1>6, <1>7 DEF MovedStay
<1>13. FileInv'
  BY <1>2, <1>6, <1>8, <1>9, <1>10, <1>11, EditedTypes, EditorStep
<1>14. dir'[name] # None /\ Read(name)' = document /\ \A s \in Stamps : dir'[name] # trash[s]
  BY <1>3, <1>6, <1>7 DEF Read
<1> QED BY <1>6, <1>7, <1>11, <1>12, <1>13, <1>14

(* Writing into a file changes no name. *)
LEMMA WrittenInPlace ==
  ASSUME FileInv, NEW i \in Used \cap Inodes, NEW document \in Contents,
         Files(dir, trash, temp, [content EXCEPT ![i] = document]),
         UNCHANGED <<pc, cmd, littered>>
  PROVE  /\ FileTypes' /\ OwnInodes' /\ SharedByDelete'
         /\ UNCHANGED <<dir, trash, temp>>
         /\ \A n \in Names :
              Read(n)' = IF dir[n] = i THEN document ELSE Read(n)
         /\ \A s \in Stamps : trash[s] # None /\ trash[s] # i
                                => content'[trash[s]] = content[trash[s]]
         /\ temp # None /\ temp # i => content'[temp] = content[temp]
<1>1. Referred(dir, trash, temp) \ {None} \subseteq Used \cup {i}
  BY DEF Used
<1>2. /\ FileTypes'
      /\ dir' = dir /\ trash' = trash /\ temp' = temp
      /\ \A n \in Names :
           dir[n] # None => content'[dir[n]] = IF dir[n] = i THEN document ELSE content[dir[n]]
      /\ \A s \in Stamps : trash[s] # None /\ trash[s] # i
                             => content'[trash[s]] = content[trash[s]]
      /\ temp # None => content'[temp] = IF temp = i THEN document ELSE content[temp]
  BY <1>1, OldNames, Written
<1>3. i # None
  BY FileAssumption
<1>4. \A n \in Names : Read(n)' = IF dir[n] = i THEN document ELSE Read(n)
  BY <1>2, <1>3 DEF Read
<1> QED BY <1>2, <1>4 DEF FileInv, OwnInodes, SharedByDelete, Linked

LEMMA EditorTruncatesInv ==
  ASSUME FileInv, NEW name \in Names, EditorTruncates(name)
  PROVE  /\ FileInv' /\ Elsewhere({name}) /\ MovedStay /\ UNCHANGED dir
         /\ temp # None => content'[temp] = content[temp]
<1>1. /\ Edited(name) /\ Files(dir, trash, temp, [content EXCEPT ![dir[name]] = Torn])
      /\ owed' = [owed EXCEPT ![name] = None]
      /\ UNCHANGED <<pc, cmd, littered, deleted>>
      /\ dir[name] # None
  BY DEF EditorTruncates
<1>2. dir[name] \in Used \cap Inodes
  BY <1>1, OldNames
<1>3. Torn \in Contents
  BY DEF Contents
<1>4. /\ FileTypes' /\ OwnInodes' /\ SharedByDelete'
      /\ UNCHANGED <<dir, trash, temp>>
      /\ \A n \in Names : Read(n)' = IF dir[n] = dir[name] THEN Torn ELSE Read(n)
      /\ \A s \in Stamps : trash[s] # None /\ trash[s] # dir[name]
                             => content'[trash[s]] = content[trash[s]]
      /\ temp # None /\ temp # dir[name] => content'[temp] = content[temp]
  BY <1>1, <1>2, <1>3, WrittenInPlace
<1>5. owed' \in [Names -> Documents \cup {None}]
  BY <1>1 DEF FileInv, OtherTypes
<1>6. Elsewhere({name})
  BY <1>1, <1>4 DEF Elsewhere, FileInv, OwnInodes
<1>7. MovedStay
  BY <1>4 DEF MovedStay
<1>8. FileInv'
  BY <1>1, <1>4, <1>5, <1>6, EditedTypes, EditorStep
<1>9. temp # None => temp # dir[name]
  BY DEF FileInv, OwnInodes
<1> QED BY <1>4, <1>6, <1>7, <1>8, <1>9

LEMMA EditorWritesInv ==
  ASSUME FileInv, NEW inode \in Inodes, NEW document \in Documents,
         EditorWrites(inode, document)
  PROVE  /\ FileInv' /\ Elsewhere({n \in Names : dir[n] = inode}) /\ MovedStay
         /\ UNCHANGED dir
         /\ \A n \in Names : dir[n] = inode => dir[n] # None /\ Read(n)' = document
         /\ temp # None /\ content[temp] # Torn => content'[temp] = content[temp]
<1> DEFINE names == {n \in Names : dir[n] = inode}
<1>1. /\ content[inode] = Torn /\ Touched(names)
      /\ Files(dir, trash, temp, [content EXCEPT ![inode] = document])
      /\ owed' = [n \in Names |-> IF n \in names THEN document ELSE owed[n]]
      /\ UNCHANGED <<pc, cmd, edits, littered, deleted>>
  BY DEF EditorWrites
<1>2. inode \in Used \cap Inodes /\ inode # None
  BY <1>1, FileAssumption DEF FileInv, FileTypes, Contents
<1>3. document \in Contents
  BY DEF Contents
<1>4. /\ FileTypes' /\ OwnInodes' /\ SharedByDelete'
      /\ UNCHANGED <<dir, trash, temp>>
      /\ \A n \in Names : Read(n)' = IF dir[n] = inode THEN document ELSE Read(n)
      /\ \A s \in Stamps : trash[s] # None /\ trash[s] # inode
                             => content'[trash[s]] = content[trash[s]]
      /\ temp # None /\ temp # inode => content'[temp] = content[temp]
  BY <1>1, <1>2, <1>3, WrittenInPlace
<1>5. owed' \in [Names -> Documents \cup {None}] /\ edits' \in 0 .. MaxEdits
  BY <1>1 DEF FileInv, OtherTypes
<1>6. Elsewhere(names)
  BY <1>4 DEF Elsewhere
<1>7. MovedStay
  BY <1>1, <1>4 DEF MovedStay
<1>8. FileInv'
  <2> HIDE DEF names
  <2> QED BY <1>1, <1>4, <1>5, <1>6, EditorStep
<1> QED BY <1>1, <1>2, <1>4, <1>6, <1>7, <1>8

LEMMA EditorRemovesInv ==
  ASSUME FileInv, NEW name \in Names, EditorRemoves(name)
  PROVE  /\ FileInv' /\ Elsewhere({name}) /\ MovedStay
         /\ dir' = [dir EXCEPT ![name] = None]
         /\ temp # None => content'[temp] = content[temp]
<1> DEFINE d == [dir EXCEPT ![name] = None]
<1>1. /\ Edited(name) /\ Files(d, trash, temp, content)
      /\ owed' = [owed EXCEPT ![name] = None]
      /\ UNCHANGED <<pc, cmd, littered, deleted>>
  BY DEF EditorRemoves
<1>2. /\ d \in [Names -> Inodes \cup {None}]
      /\ \A n \in Names : d[n] = IF n = name THEN None ELSE dir[n]
  BY OldNames
<1> HIDE DEF d
<1>3. Referred(d, trash, temp) \ {None} \subseteq Used
  BY <1>2, OldNames DEF Referred
<1>4. /\ FileTypes'
      /\ dir' = d /\ trash' = trash /\ temp' = temp
      /\ \A n \in Names : d[n] # None => content'[d[n]] = content[d[n]]
      /\ \A s \in Stamps : trash[s] # None => content'[trash[s]] = content[trash[s]]
      /\ temp # None => content'[temp] = content[temp]
  BY <1>1, <1>2, <1>3, OldNames, Rearranged
<1>5. OwnInodes' /\ SharedByDelete'
  BY <1>1, <1>2, <1>4 DEF FileInv, OwnInodes, SharedByDelete, Linked
<1>6. owed' \in [Names -> Documents \cup {None}]
  BY <1>1 DEF FileInv, OtherTypes
<1>7. Elsewhere({name})
  BY <1>2, <1>4 DEF Elsewhere, Read
<1>8. MovedStay
  BY <1>2, <1>4 DEF MovedStay
<1>9. FileInv'
  BY <1>1, <1>4, <1>5, <1>6, <1>7, EditedTypes, EditorStep
<1> QED BY <1>4, <1>7, <1>8, <1>9 DEF d

-----------------------------------------------------------------------------
(* The theorems. *)

LEMMA StutterInv ==
  ASSUME FileInv, UNCHANGED vars
  PROVE  FileInv'
BY DEF FileInv, vars, FileTypes, OtherTypes, OwnInodes, SharedByDelete, InHand,
       StillAsSeen, StillInTrash, Linked, Used, Referred, Read

LEMMA NextFileInv == FileInv /\ [Next]_vars => FileInv'
<1> SUFFICES ASSUME FileInv, [Next]_vars PROVE FileInv'
  OBVIOUS
<1>1. CASE Runtime
  BY <1>1, StartInv, RefuseInv, LocatesInv, WriterReadsInv, WriterWritesInv,
     WriterComparesInv, WriterReplacesInv, WriterGivesUpInv, DeleteChecksInv,
     DeleteReadsInv, DeleteLinksInv, DeleteVerifiesInv, DeleteUnlinksInv,
     DeleteGivesUpInv DEF Runtime
<1>2. CASE Crash
  BY <1>2, CrashInv
<1>3. CASE Editor
  BY <1>3, EditorReplacesInv, EditorTruncatesInv, EditorRemovesInv, EditorWritesInv
     DEF Editor, Saveable
<1>4. CASE UNCHANGED vars
  BY <1>4, StutterInv
<1> QED BY <1>1, <1>2, <1>3, <1>4 DEF Next

(* The files of the catalog directory and the command that works on them   *)
(* (set_enabled or move_to_trash) satisfy the invariant in every reachable *)
(* state, whatever editors do between two system calls.                    *)
THEOREM FileInvariance == Spec => []FileInv
BY InitFileInv, NextFileInv, PTL DEF Spec

(* Between commands a file is in the catalog or in the trash, not in both, *)
(* unless a clean-up of move_to_trash failed or the process died in it.    *)
THEOREM InOnePlace == Spec => []OnePlace
<1>1. FileInv => OnePlace
  <2> SUFFICES ASSUME FileInv, pc = "idle", ~littered,
                      NEW n \in Names, NEW s \in Stamps, dir[n] = trash[s], dir[n] # None
               PROVE  FALSE
    BY DEF OnePlace
  <2> QED BY DEF FileInv, SharedByDelete, Linked
<1> QED BY <1>1, FileInvariance, PTL

(* Only the last step of a command takes a content away from a visible     *)
(* name.                                                                   *)
LEMMA QuietSteps ==
  ASSUME FileInv, Next, ~WriterReplaces, ~DeleteUnlinks, ~Editor
  PROVE  \A n \in Names : Read(n)' = Read(n)
<1>1. ASSUME Unmoved
      PROVE  \A n \in Names : Read(n)' = Read(n)
  BY <1>1 DEF Unmoved, Read
<1>2. CASE Crash
  BY <1>2, CrashInv
<1>3. CASE WriterWrites \/ WriterGivesUp
  BY <1>3, WriterWritesInv, WriterGivesUpInv
<1>4. CASE DeleteGivesUp \/ \E stamp \in Stamps : DeleteLinks(stamp)
  BY <1>4, DeleteLinksInv, DeleteGivesUpInv
<1> QED BY <1>1, <1>2, <1>3, <1>4
        DEF Next, Runtime, Start, Refuse, WriterLocates, WriterReads, WriterCompares,
            DeleteChecks, DeleteLocates, DeleteReads, DeleteRelocates, DeleteCompares,
            DeleteVerifies

(* set_enabled and move_to_trash take a document away from its name only   *)
(* if it is the one they read, or if an editor saved after their last      *)
(* look.                                                                   *)
THEOREM EditsSurvive == Spec => EditsBeforeCheckSurvive
<1> DEFINE Survives ==
      pc' # pc /\ ~window =>
        \A n \in Names : Read(n) # None /\ Read(n)' # Read(n) => Read(n) = cmd.original
<1>1. FileInv /\ [Next]_vars => [Survives]_vars
  <2> SUFFICES ASSUME FileInv, Next, pc' # pc, ~window, NEW n \in Names, Read(n)' # Read(n)
               PROVE  Read(n) = cmd.original
    OBVIOUS
  <2>1. CASE WriterReplaces
    <3>1. \A m \in Names : dir'[m] = IF m = cmd.path THEN temp ELSE dir[m]
      BY <2>1, WriterReplacesInv, OldNames
    <3>2. n = cmd.path
      BY <2>1, <3>1, WriterReplacesInv DEF Read
    <3> QED BY <2>1, <3>2 DEF WriterReplaces, FileInv, StillAsSeen
  <2>2. CASE DeleteUnlinks
    <3>1. n = cmd.path
      BY <2>2, DeleteUnlinksInv
    <3>2. pc = "d_unlink" /\ dir[cmd.path] # None
      BY <2>2 DEF DeleteUnlinks
    <3> QED BY <3>1, <3>2 DEF FileInv, StillAsSeen, Linked, Read
  <2>3. CASE Editor
    BY <2>3 DEF Editor, EditorReplaces, EditorTruncates, EditorRemoves, EditorWrites
  <2> QED BY <2>1, <2>2, <2>3, QuietSteps
<1> QED BY <1>1, FileInvariance, PTL DEF Spec, EditsBeforeCheckSurvive

(* A document a delete has moved to the trash keeps its name there: a      *)
(* later delete takes another name, and a refused one removes only the     *)
(* link it made itself.                                                    *)
THEOREM TrashIsKept == Spec => DeletedKept
<1>1. FileInv /\ [Next]_vars
        => [\A s \in Stamps : deleted[s] # None => trash'[s] = trash[s]]_vars
  <2> SUFFICES ASSUME FileInv, Next, NEW s \in Stamps, deleted[s] # None
               PROVE  trash'[s] = trash[s]
    OBVIOUS
  <2>1. trash[s] # None
    BY DEF FileInv, StillInTrash
  <2>2. ASSUME trash' = trash
        PROVE  trash'[s] = trash[s]
    BY <2>2
  <2>3. ASSUME NEW stamp \in Stamps, DeleteLinks(stamp)
        PROVE  trash'[s] = trash[s]
    <3>1. trash' = [trash EXCEPT ![stamp] = dir[cmd.path]] /\ s # stamp
      BY <2>1, <2>3 DEF DeleteLinks, Files
    <3> QED BY <3>1 DEF FileInv, FileTypes
  <2>4. CASE DeleteGivesUp
    BY <2>4, DeleteGivesUpInv
  <2>5. CASE Editor
    BY <2>2, <2>5 DEF Editor, EditorReplaces, EditorTruncates, EditorRemoves,
                      EditorWrites, Files
  <2>6. CASE Crash \/ WriterWrites \/ WriterReplaces \/ WriterGivesUp \/ DeleteUnlinks
    BY <2>2, <2>6 DEF Crash, WriterWrites, WriterReplaces, WriterGivesUp, DeleteUnlinks,
                      Files
  <2>7. Unmoved => trash' = trash
    BY DEF Unmoved
  <2> QED BY <2>2, <2>3, <2>4, <2>5, <2>6, <2>7
          DEF Next, Runtime, Start, Refuse, WriterLocates, WriterReads, WriterCompares,
              DeleteChecks, DeleteLocates, DeleteReads, DeleteRelocates, DeleteCompares,
              DeleteVerifies
<1> QED BY <1>1, FileInvariance, PTL DEF Spec, DeletedKept
-----------------------------------------------------------------------------
(* Nothing is lost: a second invariant on top of the first. *)

(* A delete took this file out of the catalog. *)
MovedAway(s) ==
  deleted[s] # None /\ trash[s] # None /\ \A m \in Names : dir[m] # trash[s]

(* A name still has a version of what is owed to its editor, or a delete   *)
(* moved one to the trash.                                                 *)
Kept(n) ==
  IF dir[n] # None THEN Read(n) \in Versions(owed[n])
  ELSE \E s \in Stamps : MovedAway(s) /\ content[trash[s]] \in Versions(owed[n])

AllKept == \A n \in Names : owed[n] # None => Kept(n)

(* The temporary file holds the change of what the writer read. *)
ChangeInHand ==
  pc \in {"w_compare", "w_replace"} =>
    temp # None /\ content[temp] = Updated(cmd.original, cmd.kind = "enable")

(* The file the running delete has linked has no other visible name. *)
OneNameLinked ==
  Linked => \A n \in Names : dir[n] = trash[cmd.target] => n = cmd.path

OwedInv == AllKept /\ ChangeInHand /\ OneNameLinked

(* A step leaves what deletes moved away where it is. *)
TrashStays ==
  \A s \in Stamps : MovedAway(s) /\ content[trash[s]] # Torn =>
    MovedAway(s)' /\ trash'[s] = trash[s] /\ content'[trash[s]] = content[trash[s]]

(* The versions of a document are documents. *)
LEMMA VersionsAreDocuments ==
  ASSUME NEW text \in Documents
  PROVE  Versions(text) \subseteq Documents
BY UpdatedIsADocument DEF Versions

(* A step that leaves a name and the trash alone keeps what is owed there. *)
LEMMA KeptElsewhere ==
  ASSUME FileInv, AllKept, TrashStays, NEW n \in Names,
         owed'[n] = owed[n], dir'[n] = dir[n], Read(n)' = Read(n), owed'[n] # None
  PROVE  Kept(n)'
<1>1. Kept(n) /\ owed[n] \in Documents
  BY DEF AllKept, FileInv, OtherTypes
<1>2. CASE dir[n] # None
  BY <1>1, <1>2 DEF Kept
<1>3. CASE dir[n] = None
  <2>1. PICK s \in Stamps : MovedAway(s) /\ content[trash[s]] \in Versions(owed[n])
    BY <1>1, <1>3 DEF Kept
  <2>2. content[trash[s]] # Torn
    BY <1>1, <2>1, VersionsAreDocuments, FileAssumption
  <2>3. MovedAway(s)' /\ content'[trash'[s]] = content[trash[s]]
    BY <2>1, <2>2 DEF TrashStays
  <2> QED BY <1>3, <2>1, <2>3 DEF Kept
<1> QED BY <1>2, <1>3

LEMMA AllKeptStep ==
  ASSUME FileInv, AllKept, TrashStays, UNCHANGED owed,
         \A n \in Names : dir'[n] = dir[n] /\ Read(n)' = Read(n)
  PROVE  AllKept'
BY KeptElsewhere DEF AllKept

LEMMA InitOwedInv == Init => OwedInv
<1> SUFFICES ASSUME Init PROVE OwedInv
  OBVIOUS
<1>1. FileInv
  BY InitFileInv
<1>2. pc = "idle" /\ \A n \in Names : owed[n] # None => dir[n] # None /\ Read(n) = owed[n]
  <2>1. PICK name \in Names, document \in Saveable :
          LET i == CHOOSE inode \in Inodes : TRUE IN
          /\ dir = [m \in Names |-> IF m = name THEN i ELSE None]
          /\ content = [j \in Inodes |-> IF j = i THEN document ELSE None]
          /\ pc = "idle"
          /\ owed = [m \in Names |-> IF m = name THEN document ELSE None]
    BY DEF Init
  <2>2. (CHOOSE inode \in Inodes : TRUE) \in Inodes
    <3>1. NewInode \in Inodes
      BY <1>1, SpareInode DEF FileInv
    <3> QED BY <3>1
  <2> QED BY <2>1, <2>2, FileAssumption DEF Read
<1> QED BY <1>2 DEF OwedInv, AllKept, Kept, Versions, ChangeInHand, OneNameLinked, Linked

(* A step that moves no file, and neither begins a replacement nor an      *)
(* unlink with anything else in hand.                                      *)
LEMMA UnmovedOwed ==
  ASSUME FileInv, OwedInv, Unmoved, UNCHANGED <<owed, deleted>>,
         pc' \in {"w_compare", "w_replace"} =>
           pc \in {"w_compare", "w_replace"} /\ cmd' = cmd,
         Linked' => Linked /\ cmd' = cmd
  PROVE  OwedInv'
<1>1. TrashStays
  BY DEF TrashStays, MovedAway, Unmoved
<1>2. \A n \in Names : dir'[n] = dir[n] /\ Read(n)' = Read(n)
  BY DEF Unmoved, Read
<1>3. AllKept'
  BY <1>1, <1>2, AllKeptStep DEF OwedInv
<1> QED BY <1>3 DEF OwedInv, ChangeInHand, OneNameLinked, Unmoved

(* The steps of a command that change no visible name. *)
LEMMA QuietOwed ==
  ASSUME FileInv, OwedInv, Next, ~WriterReplaces, ~DeleteUnlinks, ~Editor
  PROVE  OwedInv'
<1>1. ASSUME Unmoved, UNCHANGED <<owed, deleted>>,
             pc' \in {"w_compare", "w_replace"} =>
               pc \in {"w_compare", "w_replace"} /\ cmd' = cmd,
             Linked' => Linked /\ cmd' = cmd
      PROVE  OwedInv'
  BY <1>1, UnmovedOwed
<1>2. CASE WriterWrites
  <2>1. /\ UNCHANGED <<dir, trash, owed, deleted, cmd>> /\ pc' = "w_compare"
    BY <1>2, WriterWritesInv DEF WriterWrites, Goto, history
  <2>2. TrashStays
    BY <1>2, <2>1, WriterWritesInv DEF TrashStays, MovedAway
  <2>3. AllKept'
    BY <1>2, <2>1, <2>2, WriterWritesInv, AllKeptStep DEF OwedInv
  <2>4. ChangeInHand' /\ OneNameLinked'
    BY <1>2, <2>1, WriterWritesInv DEF ChangeInHand, OneNameLinked, Linked
  <2> QED BY <2>3, <2>4 DEF OwedInv
<1>3. CASE WriterGivesUp \/ Crash
  <2>1. UNCHANGED <<dir, trash, owed, deleted>> /\ pc' = "idle"
    BY <1>3, WriterGivesUpInv, CrashInv DEF WriterGivesUp, Crash, Finish, Goto, history
  <2>2. TrashStays
    BY <1>3, <2>1, WriterGivesUpInv, CrashInv DEF TrashStays, MovedAway
  <2>3. AllKept'
    BY <1>3, <2>1, <2>2, WriterGivesUpInv, CrashInv, AllKeptStep DEF OwedInv
  <2> QED BY <2>1, <2>3 DEF OwedInv, ChangeInHand, OneNameLinked, Linked
<1>4. CASE DeleteGivesUp
  <2>1. UNCHANGED <<dir, owed, deleted>> /\ pc' = "idle"
    BY <1>4, DeleteGivesUpInv DEF DeleteGivesUp, Finish, Goto
  <2>2. TrashStays
    BY <1>4, <2>1, DeleteGivesUpInv DEF TrashStays, MovedAway
  <2>3. AllKept'
    BY <1>4, <2>1, <2>2, DeleteGivesUpInv, AllKeptStep DEF OwedInv
  <2> QED BY <2>1, <2>3 DEF OwedInv, ChangeInHand, OneNameLinked, Linked
<1>5. ASSUME NEW stamp \in Stamps, DeleteLinks(stamp)
      PROVE  OwedInv'
  <2>1. UNCHANGED <<dir, owed, deleted>> /\ pc' = "d_verify"
    BY <1>5, DeleteLinksInv DEF DeleteLinks, Goto, history
  <2>2. TrashStays
    BY <1>5, <2>1, DeleteLinksInv DEF TrashStays, MovedAway
  <2>3. AllKept'
    BY <1>5, <2>1, <2>2, DeleteLinksInv, AllKeptStep DEF OwedInv
  <2>4. OneNameLinked'
    BY <1>5, <2>1, DeleteLinksInv DEF OneNameLinked, FileInv, OwnInodes
  <2> QED BY <2>1, <2>3, <2>4 DEF OwedInv, ChangeInHand
<1>6. CASE \/ \E kind \in {"enable", "disable", "delete"}, id \in Ids : Start(kind, id)
           \/ Refuse({"w_locate", "w_read", "d_check", "d_locate", "d_read",
                      "d_relocate", "d_compare", "d_link"})
  BY <1>1, <1>6 DEF Start, Refuse, Finish, Goto, Linked, history
<1>7. CASE WriterLocates \/ WriterReads \/ WriterCompares
  BY <1>1, <1>7 DEF WriterLocates, WriterReads, WriterCompares, Finish, Goto, Linked, history
<1>8. CASE \/ DeleteChecks \/ DeleteLocates \/ DeleteReads \/ DeleteRelocates
           \/ DeleteCompares \/ DeleteVerifies
  BY <1>1, <1>8 DEF DeleteChecks, DeleteLocates, DeleteReads, DeleteRelocates,
                    DeleteCompares, DeleteVerifies, Goto, Linked, history
<1> QED BY <1>2, <1>3, <1>4, <1>5, <1>6, <1>7, <1>8 DEF Next, Runtime

(* What the writer puts in place was made of the very text it replaces,    *)
(* unless an editor saved after the comparison.                            *)
LEMMA WriterReplacesOwed ==
  ASSUME FileInv, OwedInv, WriterReplaces
  PROVE  OwedInv'
<1>1. /\ pc = "w_replace" /\ pc' = "idle" /\ UNCHANGED <<trash, deleted>> /\ Overrun
      /\ cmd.path \in Names /\ cmd.original \in Documents
      /\ temp # None /\ content[temp] = Updated(cmd.original, cmd.kind = "enable")
  BY WriterReplacesInv
     DEF WriterReplaces, Finish, Goto, FileInv, InHand, OwedInv, ChangeInHand
<1>2. \A n \in Names : dir'[n] = IF n = cmd.path THEN temp ELSE dir[n]
  BY <1>1, WriterReplacesInv, OldNames
<1>3. TrashStays
  BY <1>1, <1>2, WriterReplacesInv DEF TrashStays, MovedAway, FileInv, OwnInodes
<1>4. ASSUME NEW n \in Names, owed'[n] # None
      PROVE  Kept(n)'
  <2>1. owed'[n] = owed[n] /\ owed[n] \in Documents /\ (n = cmd.path => ~window)
    BY <1>1, <1>4 DEF Overrun, FileInv, OtherTypes
  <2>2. CASE n # cmd.path
    <3>1. dir'[n] = dir[n] /\ Read(n)' = Read(n)
      BY <1>2, <2>2, WriterReplacesInv DEF Read
    <3> QED BY <1>3, <1>4, <2>1, <3>1, KeptElsewhere DEF OwedInv
  <2>3. CASE n = cmd.path
    <3>1. Read(n) = cmd.original /\ dir[n] # None
      BY <1>1, <2>1, <2>3, FileAssumption DEF FileInv, StillAsSeen, Read, Contents
    <3>2. cmd.original \in Versions(owed[n])
      BY <1>4, <2>1, <3>1 DEF OwedInv, AllKept, Kept
    <3>3. Updated(cmd.original, cmd.kind = "enable") \in Versions(owed[n])
      BY <2>1, <3>2, UpdatedIsAVersion
    <3>4. dir'[n] # None /\ Read(n)' = Updated(cmd.original, cmd.kind = "enable")
      BY <1>1, <1>2, <2>3, WriterReplacesInv DEF Read
    <3> QED BY <2>1, <3>3, <3>4 DEF Kept
  <2> QED BY <2>2, <2>3
<1> QED BY <1>1, <1>4 DEF OwedInv, AllKept, ChangeInHand, OneNameLinked, Linked

(* What the delete unlinks is in the trash, and has no name in the catalog *)
(* any more, unless an editor saved after the link was made.               *)
LEMMA DeleteUnlinksOwed ==
  ASSUME FileInv, OwedInv, DeleteUnlinks
  PROVE  OwedInv'
<1>1. /\ pc = "d_unlink" /\ pc' = "idle" /\ Linked /\ trash' = trash /\ Overrun
      /\ cmd.path \in Names /\ cmd.target \in Stamps
      /\ trash[cmd.target] # None /\ deleted[cmd.target] = None
      /\ deleted' = [deleted EXCEPT ![cmd.target] = cmd.original]
      /\ dir[cmd.path] # None
  BY DeleteUnlinksInv DEF DeleteUnlinks, Finish, Goto, FileInv, InHand, Linked
<1>2. /\ \A n \in Names : dir'[n] = IF n = cmd.path THEN None ELSE dir[n]
      /\ \A s \in Stamps : deleted'[s] = IF s = cmd.target THEN cmd.original ELSE deleted[s]
  BY <1>1, DeleteUnlinksInv, OldNames DEF FileInv, OtherTypes
<1>3. TrashStays
  BY <1>1, <1>2, DeleteUnlinksInv DEF TrashStays, MovedAway
<1>4. ASSUME NEW n \in Names, owed'[n] # None
      PROVE  Kept(n)'
  <2>1. owed'[n] = owed[n] /\ (n = cmd.path => ~window)
    BY <1>1, <1>4 DEF Overrun, FileInv, OtherTypes
  <2>2. CASE n # cmd.path
    BY <1>2, <1>3, <1>4, <2>1, <2>2, DeleteUnlinksInv, KeptElsewhere DEF OwedInv
  <2>3. CASE n = cmd.path
    <3>1. dir[n] = trash[cmd.target] /\ content[trash[cmd.target]] = cmd.original
      BY <1>1, <2>1, <2>3 DEF FileInv, StillAsSeen
    <3>2. cmd.original \in Versions(owed[n])
      BY <1>1, <1>4, <2>1, <2>3, <3>1 DEF OwedInv, AllKept, Kept, Read
    <3>3. cmd.original # None
      BY <1>1, <3>1, NamedHasContent DEF FileInv
    <3>4. PICK s \in Stamps : s = cmd.target
      BY <1>1
    <3>5. MovedAway(s)'
      BY <1>1, <1>2, <3>3, <3>4 DEF MovedAway, OwedInv, OneNameLinked
    <3>6. content'[trash'[s]] \in Versions(owed'[n])
      BY <1>1, <2>1, <3>1, <3>2, <3>4, DeleteUnlinksInv
    <3>7. dir'[n] = None
      BY <1>2, <2>3
    <3> QED BY <3>5, <3>6, <3>7 DEF Kept
  <2> QED BY <2>2, <2>3
<1> QED BY <1>1, <1>4 DEF OwedInv, AllKept, ChangeInHand, OneNameLinked, Linked

(* An editor is owed what he saves; a name he does not touch keeps what it *)
(* has, and so does the trash.                                             *)
LEMMA EditorOwed ==
  ASSUME FileInv, OwedInv, UNCHANGED <<trash, temp, pc, cmd, deleted>>, MovedStay,
         NEW names, Elsewhere(names),
         \A n \in Names \ names : owed'[n] = owed[n],
         \A n \in Names \cap names :
           owed'[n] = None \/ (dir'[n] # None /\ Read(n)' = owed'[n]),
         \A n \in Names : dir'[n] # None /\ dir'[n] # dir[n] =>
           \A s \in Stamps : dir'[n] # trash[s],
         temp # None /\ content[temp] # Torn => content'[temp] = content[temp]
  PROVE  OwedInv'
<1>1. TrashStays
  BY DEF TrashStays, MovedStay, MovedAway
<1>2. ASSUME NEW n \in Names, owed'[n] # None
      PROVE  Kept(n)'
  <2>1. CASE n \in names
    BY <1>2, <2>1 DEF Kept, Versions
  <2>2. CASE n \notin names
    BY <1>1, <1>2, <2>2, KeptElsewhere DEF Elsewhere, OwedInv
  <2> QED BY <2>1, <2>2
<1>3. ChangeInHand'
  <2> SUFFICES ASSUME pc \in {"w_compare", "w_replace"}
               PROVE  temp # None /\ content'[temp] = content[temp]
    BY DEF ChangeInHand, OwedInv
  <2>1. temp # None /\ content[temp] = Updated(cmd.original, cmd.kind = "enable")
    BY DEF ChangeInHand, OwedInv
  <2>2. cmd.original \in Documents /\ (cmd.kind = "enable") \in BOOLEAN
    BY DEF FileInv, InHand
  <2>3. content[temp] \in Documents
    BY <2>1, <2>2, UpdatedIsADocument
  <2> QED BY <2>1, <2>3, FileAssumption
<1>4. OneNameLinked'
  <2> SUFFICES ASSUME Linked, NEW n \in Names, dir'[n] = trash[cmd.target]
               PROVE  n = cmd.path
    BY DEF OneNameLinked, Linked
  <2>1. cmd.target \in Stamps /\ trash[cmd.target] # None
    BY DEF FileInv, InHand
  <2> QED BY <2>1 DEF OneNameLinked, OwedInv
<1> QED BY <1>2, <1>3, <1>4 DEF OwedInv, AllKept

LEMMA EditorsOwed ==
  ASSUME FileInv, OwedInv, Editor
  PROVE  OwedInv'
<1>1. ASSUME NEW name \in Names, NEW document \in Documents, EditorReplaces(name, document)
      PROVE  OwedInv'
  <2>1. /\ UNCHANGED <<trash, temp, pc, cmd, deleted>>
        /\ \A n \in Names : owed'[n] = IF n = name THEN document ELSE owed[n]
    BY <1>1 DEF EditorReplaces, Files, FileInv, OtherTypes
  <2>2. \A n \in Names : dir'[n] # None /\ dir'[n] # dir[n] =>
          \A s \in Stamps : dir'[n] # trash[s]
    BY <1>1, EditorReplacesInv DEF Elsewhere
  <2>3. /\ Elsewhere({name}) /\ MovedStay
        /\ temp # None => content'[temp] = content[temp]
        /\ dir'[name] # None /\ Read(name)' = document
    BY <1>1, EditorReplacesInv
  <2>4. /\ \A n \in Names \ {name} : owed'[n] = owed[n]
        /\ \A n \in Names \cap {name} : dir'[n] # None /\ Read(n)' = owed'[n]
    BY <2>1, <2>3
  <2> QED BY <2>1, <2>2, <2>3, <2>4, EditorOwed
<1>2. ASSUME NEW name \in Names, EditorTruncates(name)
      PROVE  OwedInv'
  <2>1. /\ UNCHANGED <<trash, temp, pc, cmd, deleted>>
        /\ \A n \in Names : owed'[n] = IF n = name THEN None ELSE owed[n]
    BY <1>2 DEF EditorTruncates, Files, FileInv, OtherTypes
  <2>2. /\ Elsewhere({name}) /\ MovedStay /\ UNCHANGED dir
        /\ temp # None => content'[temp] = content[temp]
    BY <1>2, EditorTruncatesInv
  <2> QED BY <2>1, <2>2, EditorOwed
<1>3. ASSUME NEW name \in Names, EditorRemoves(name)
      PROVE  OwedInv'
  <2>1. /\ UNCHANGED <<trash, temp, pc, cmd, deleted>>
        /\ \A n \in Names : owed'[n] = IF n = name THEN None ELSE owed[n]
    BY <1>3 DEF EditorRemoves, Files, FileInv, OtherTypes
  <2>2. \A n \in Names : dir'[n] = IF n = name THEN None ELSE dir[n]
    BY <1>3, EditorRemovesInv, OldNames
  <2>3. /\ Elsewhere({name}) /\ MovedStay
        /\ temp # None => content'[temp] = content[temp]
    BY <1>3, EditorRemovesInv
  <2> QED BY <2>1, <2>2, <2>3, EditorOwed
<1>4. ASSUME NEW inode \in Inodes, NEW document \in Documents, EditorWrites(inode, document)
      PROVE  OwedInv'
  <2> DEFINE names == {n \in Names : dir[n] = inode}
  <2>1. /\ UNCHANGED <<trash, temp, pc, cmd, deleted>>
        /\ \A n \in Names : owed'[n] = IF n \in names THEN document ELSE owed[n]
    BY <1>4 DEF EditorWrites, Files
  <2>2. UNCHANGED dir /\ \A n \in names : dir[n] # None /\ Read(n)' = document
    BY <1>4, EditorWritesInv
  <2>3. /\ Elsewhere(names) /\ MovedStay
        /\ temp # None /\ content[temp] # Torn => content'[temp] = content[temp]
    BY <1>4, EditorWritesInv
  <2> HIDE DEF names
  <2>4. /\ \A n \in Names \ names : owed'[n] = owed[n]
        /\ \A n \in Names \cap names : dir'[n] # None /\ Read(n)' = owed'[n]
    BY <2>1, <2>2
  <2> QED BY <2>1, <2>2, <2>3, <2>4, EditorOwed
<1> QED BY <1>1, <1>2, <1>3, <1>4 DEF Editor, Saveable

(* Whatever editors do between two system calls of set_enabled and         *)
(* move_to_trash, and wherever a call fails or the process dies: what an   *)
(* editor saved last is still under its name, at most with another         *)
(* `enabled` and rendered anew, or in the trash; saves between a command's *)
(* last look and its rename or unlink excepted.                            *)
THEOREM NothingIsLost == Spec => []NothingLost
<1>1. FileInv /\ OwedInv /\ [Next]_vars => OwedInv'
  <2> SUFFICES ASSUME FileInv, OwedInv, [Next]_vars PROVE OwedInv'
    OBVIOUS
  <2>1. CASE UNCHANGED vars
    BY <2>1, UnmovedOwed DEF vars, Unmoved, Linked
  <2> QED BY <2>1, QuietOwed, WriterReplacesOwed, DeleteUnlinksOwed, EditorsOwed
<1>2. OwedInv => NothingLost
  BY DEF OwedInv, AllKept, Kept, MovedAway, NothingLost
<1> QED BY <1>1, <1>2, InitOwedInv, FileInvariance, PTL DEF Spec
=============================================================================
