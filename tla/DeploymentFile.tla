--------------------------- MODULE DeploymentFile ---------------------------
(***************************************************************************)
(* The deployment files of one catalog directory, and the two commands     *)
(* that change one of them: DeploymentEnabledFileWriter.set_enabled and    *)
(* StrategyDeleteService with DeploymentTrashMover.  The instance's mutex  *)
(* admits one command at a time, but the files are also edited by people   *)
(* and by Research, who take no lock: an editor acts between any two       *)
(* system calls of a command, and the process may die there.               *)
(*                                                                         *)
(* A name refers to an inode and an inode has a content, so that a hard    *)
(* link, a rename over a name and a write into a file are what they are.   *)
(* A content is the text of a document, or Torn, which is no JSON.  Of the *)
(* document it keeps the identity derived from it, its `enabled`, and an   *)
(* edition for the keys that take no part in the identity, their values    *)
(* and their order; and of the text a layout for what json.loads drops:    *)
(* indentation, line breaks, repeated keys, the notation of a number.      *)
(***************************************************************************)
EXTENDS Naturals, FiniteSets

CONSTANTS
  Names,        \* visible *.json names
  Ids,          \* strategy instance ids
  Editions,
  EditorLayouts,  \* the layouts editors write
  Stamps,       \* names in .deleted/: one per stem and second
  Inodes,
  EditorSaves,  \* how editors save: "replace" (rename over), "inplace"
  MaxEdits,     \* bound: editors save this often
  Torn,         \* a content that is no JSON: a file just truncated
  None

(* What json.dumps writes without and with an indent; a layout of its own, *)
(* indented by spaces; and any other, tabs for one.                        *)
Layouts == {"line", "indented", "own_indented", "own"}

Documents == [id : Ids, edition : Editions, enabled : BOOLEAN, layout : Layouts]
Contents == Documents \cup {Torn}

ASSUME FileAssumption ==
  /\ EditorSaves \subseteq {"replace", "inplace"}
  /\ EditorLayouts \subseteq Layouts
  /\ MaxEdits \in Nat
  /\ None \notin Names \cup Ids \cup Stamps \cup Inodes \cup Contents
  /\ Torn \notin Documents
  /\ IsFiniteSet(Names) /\ IsFiniteSet(Stamps) /\ IsFiniteSet(Inodes)
  /\ Cardinality(Inodes) >= Cardinality(Names) + Cardinality(Stamps) + 2

VARIABLES
  dir,       \* the inode of a visible name, or None
  trash,     \* the inode of a name in .deleted/, or None
  temp,      \* the inode of the running command's hidden temporary file, or None
  content,   \* of an inode; None when nothing refers to it
  pc,        \* the point the command has reached
  cmd,       \* its arguments and what it holds in local variables
  edits,     \* how often editors saved
  owed,      \* history: what an editor last saved under a name, None when he removed it
             \* or has it truncated, or saved in the window of a command that went on
  window,    \* history: an editor saved since the running command's last look
  littered,  \* history: a clean-up failed, or the process died in a command
  deleted    \* history: per trash name, the document a delete moved there

vars == <<dir, trash, temp, content, pc, cmd, edits, owed, window, littered, deleted>>
history == <<owed, littered, deleted>>

-----------------------------------------------------------------------------
(* The file system. *)

Read(name) == IF dir[name] = None THEN None ELSE content[dir[name]]

Referred(d, t, tmp) == {d[n] : n \in Names} \cup {t[s] : s \in Stamps} \cup {tmp}

Used == Referred(dir, trash, temp) \ {None}

NewInode == CHOOSE i \in Inodes : i \notin Used

(* An inode nothing refers to any more is gone. *)
Collected(d, t, tmp, c) ==
  [i \in Inodes |-> IF i \in Referred(d, t, tmp) THEN c[i] ELSE None]

(* Every change of the directories goes through here. *)
Files(d, t, tmp, c) ==
  dir' = d /\ trash' = t /\ temp' = tmp /\ content' = Collected(d, t, tmp, c)

-----------------------------------------------------------------------------
(* load_snapshot: the name of the accepted deployment with this identity,  *)
(* None when there is none or several.  Hidden names are not listed.       *)
Located(id) ==
  LET candidates == {n \in Names : Read(n) \in Documents /\ Read(n).id = id} IN
  IF Cardinality(candidates) = 1 THEN CHOOSE n \in candidates : TRUE ELSE None

NoCommand ==
  [kind |-> "none", id |-> None, path |-> None, original |-> None, target |-> None]

Points ==
  {"idle", "w_locate", "w_read", "w_write", "w_compare", "w_replace",
   "d_check", "d_locate", "d_read", "d_relocate", "d_compare", "d_link", "d_verify",
   "d_unlink"}

(* The running command has had its last look at the file. *)
AfterLook == {"w_replace", "d_verify", "d_unlink"}

TypeOK ==
  /\ dir \in [Names -> Inodes \cup {None}]
  /\ trash \in [Stamps -> Inodes \cup {None}]
  /\ temp \in Inodes \cup {None}
  /\ content \in [Inodes -> Contents \cup {None}]
  /\ \A i \in Inodes : content[i] = None <=> i \notin Used
  /\ pc \in Points
  /\ cmd \in [kind : {"none", "enable", "disable", "delete"}, id : Ids \cup {None},
              path : Names \cup {None}, original : Contents \cup {None},
              target : Stamps \cup {None}]
  /\ edits \in 0 .. MaxEdits
  /\ owed \in [Names -> Documents \cup {None}]
  /\ window \in BOOLEAN /\ (window => pc \in AfterLook)
  /\ littered \in BOOLEAN
  /\ deleted \in [Stamps -> Contents \cup {None}]

Saveable == {document \in Documents : document.layout \in EditorLayouts}

(* A catalog with one file. *)
Init ==
  \E n \in Names, document \in Saveable :
  LET i == CHOOSE inode \in Inodes : TRUE IN
    /\ dir = [m \in Names |-> IF m = n THEN i ELSE None]
    /\ trash = [s \in Stamps |-> None]
    /\ temp = None
    /\ content = [j \in Inodes |-> IF j = i THEN document ELSE None]
    /\ pc = "idle" /\ cmd = NoCommand
    /\ edits = 0
    /\ owed = [m \in Names |-> IF m = n THEN document ELSE None]
    /\ window = FALSE /\ littered = FALSE
    /\ deleted = [s \in Stamps |-> None]

-----------------------------------------------------------------------------
(* Steps of a command. *)

Goto(point) == pc' = point

Finish == Goto("idle") /\ cmd' = NoCommand /\ window' = FALSE

Unmoved == UNCHANGED <<dir, trash, temp, content>>

Start(kind, id) ==
  /\ pc = "idle"
  /\ Goto(IF kind = "delete" THEN "d_check" ELSE "w_locate")
  /\ cmd' = [NoCommand EXCEPT !.kind = kind, !.id = id]
  /\ Unmoved /\ UNCHANGED <<edits, window, history>>

(* A refusal without anything to clean up. *)
Refuse(points) ==
  /\ pc \in points
  /\ Finish
  /\ Unmoved /\ UNCHANGED <<edits, history>>

-----------------------------------------------------------------------------
(* set_enabled. *)

(* Not in the catalog, or the catalog cannot be scanned: Refuse. *)
WriterLocates ==
  /\ pc = "w_locate"
  /\ Located(cmd.id) # None
  /\ cmd' = [cmd EXCEPT !.path = Located(cmd.id)]
  /\ Goto("w_read")
  /\ Unmoved /\ UNCHANGED <<edits, window, history>>

(* The file is gone, no longer parses, or is another strategy's: Refuse. *)
(* It already has the value: the command ends here, too.                 *)
WriterReads ==
  LET document == Read(cmd.path) IN
  /\ pc = "w_read"
  /\ document \in Documents
  /\ document.id = cmd.id
  /\ IF document.enabled = (cmd.kind = "enable")
     THEN Finish
     ELSE /\ Goto("w_write")
          /\ cmd' = [cmd EXCEPT !.original = document]
          /\ UNCHANGED window
  /\ Unmoved /\ UNCHANGED <<edits, history>>

(* _serialize: json.dumps with the indent _detect_indent finds, the spaces *)
(* before the first text after the first line, and none without any.       *)
Rendered(layout) == IF layout \in {"indented", "own_indented"} THEN "indented" ELSE "line"

(* {**document, "enabled": enabled}, which keeps the keys, their values    *)
(* and their order, rendered anew.                                         *)
Updated(document, enabled) ==
  [document EXCEPT !.enabled = enabled, !.layout = Rendered(@)]

(* _write_temporary: O_EXCL, write, fsync; a name with pid and token. *)
WriterWrites ==
  LET i == NewInode IN
  /\ pc = "w_write"
  /\ Files(dir, trash, i,
           [content EXCEPT ![i] = Updated(cmd.original, cmd.kind = "enable")])
  /\ Goto("w_compare")
  /\ UNCHANGED <<cmd, edits, window, history>>

(* Faulty variant: what is read again is parsed and compared as a document. *)
WriterComparesDocuments ==
  LET document == Read(cmd.path) IN
  /\ pc = "w_compare"
  /\ document \in Documents
  /\ [document EXCEPT !.layout = None] = [cmd.original EXCEPT !.layout = None]
  /\ Goto("w_replace")
  /\ Unmoved /\ UNCHANGED <<cmd, edits, window, history>>

(* Faulty variant: the file is not read again. *)
WriterSkipsComparison ==
  /\ pc = "w_compare"
  /\ Goto("w_replace")
  /\ Unmoved /\ UNCHANGED <<cmd, edits, window, history>>

WriterCompares ==
  /\ pc = "w_compare"
  /\ Read(cmd.path) = cmd.original
  /\ Goto("w_replace")
  /\ Unmoved /\ UNCHANGED <<cmd, edits, window, history>>

(* What a command need not have kept: an edit since its last look. *)
Overrun == owed' = IF window THEN [owed EXCEPT ![cmd.path] = None] ELSE owed

(* os.replace *)
WriterReplaces ==
  /\ pc = "w_replace"
  /\ Files([dir EXCEPT ![cmd.path] = temp], trash, None, content)
  /\ Overrun
  /\ Finish
  /\ UNCHANGED <<edits, littered, deleted>>

(* A write, the comparison or the replacement fails: the temporary file is *)
(* removed.  Left behind when that fails as well, it is hidden and its     *)
(* name is never used again.                                               *)
WriterGivesUp ==
  /\ pc \in {"w_write", "w_compare", "w_replace"}
  /\ Files(dir, trash, None, content)
  /\ Finish
  /\ UNCHANGED <<edits, history>>

-----------------------------------------------------------------------------
(* StrategyDeleteService._delete_locked. *)

DeleteChecks ==
  LET path == Located(cmd.id) IN
  /\ pc = "d_check"
  /\ path # None
  /\ ~Read(path).enabled
  /\ Goto("d_locate")
  /\ Unmoved /\ UNCHANGED <<cmd, edits, window, history>>

(* read_original: a snapshot of its own, then the file. *)
DeleteLocates ==
  /\ pc = "d_locate"
  /\ Located(cmd.id) # None
  /\ cmd' = [cmd EXCEPT !.path = Located(cmd.id)]
  /\ Goto("d_read")
  /\ Unmoved /\ UNCHANGED <<edits, window, history>>

(* Bytes, which nobody parses. *)
DeleteReads ==
  /\ pc = "d_read"
  /\ Read(cmd.path) # None
  /\ cmd' = [cmd EXCEPT !.original = Read(cmd.path)]
  /\ Goto("d_relocate")
  /\ Unmoved /\ UNCHANGED <<edits, window, history>>

(* The cancel step comes between; then move_to_trash looks again. *)
DeleteRelocates ==
  /\ pc = "d_relocate"
  /\ Located(cmd.id) # None
  /\ cmd' = [cmd EXCEPT !.path = Located(cmd.id)]
  /\ Goto("d_compare")
  /\ Unmoved /\ UNCHANGED <<edits, window, history>>

DeleteCompares ==
  /\ pc = "d_compare"
  /\ Read(cmd.path) = cmd.original
  /\ Goto("d_link")
  /\ Unmoved /\ UNCHANGED <<cmd, edits, window, history>>

(* Faulty variant: a rename, which overwrites a taken name. *)
DeleteLinksOver(stamp) ==
  /\ pc = "d_link"
  /\ dir[cmd.path] # None
  /\ Files(dir, [trash EXCEPT ![stamp] = dir[cmd.path]], temp, content)
  /\ cmd' = [cmd EXCEPT !.target = stamp]
  /\ Goto("d_verify")
  /\ UNCHANGED <<edits, window, history>>

(* os.link: whatever the name refers to now; a taken name is refused. *)
DeleteLinks(stamp) ==
  /\ pc = "d_link"
  /\ dir[cmd.path] # None
  /\ trash[stamp] = None
  /\ Files(dir, [trash EXCEPT ![stamp] = dir[cmd.path]], temp, content)
  /\ cmd' = [cmd EXCEPT !.target = stamp]
  /\ Goto("d_verify")
  /\ UNCHANGED <<edits, window, history>>

DeleteVerifies ==
  /\ pc = "d_verify"
  /\ content[trash[cmd.target]] = cmd.original
  /\ Goto("d_unlink")
  /\ Unmoved /\ UNCHANGED <<cmd, edits, window, history>>

DeleteUnlinks ==
  /\ pc = "d_unlink"
  /\ dir[cmd.path] # None
  /\ Files([dir EXCEPT ![cmd.path] = None], trash, temp, content)
  /\ deleted' = [deleted EXCEPT ![cmd.target] = cmd.original]
  /\ Overrun
  /\ Finish
  /\ UNCHANGED <<edits, littered>>

(* Faulty variant: the link is left in the trash. *)
DeleteGivesUpKeepingLink ==
  /\ pc \in {"d_verify", "d_unlink"}
  /\ Finish
  /\ Unmoved /\ UNCHANGED <<edits, history>>

(* Another content was linked, or the name is gone, or a call fails: the   *)
(* link is removed, or left behind when that fails as well.                *)
DeleteGivesUp ==
  /\ pc \in {"d_verify", "d_unlink"}
  /\ \/ /\ Files(dir, [trash EXCEPT ![cmd.target] = None], temp, content)
        /\ UNCHANGED littered
     \/ Unmoved /\ littered' = TRUE
  /\ Finish
  /\ UNCHANGED <<edits, owed, deleted>>

(* The process dies.  Nothing cleans the directory at the next start. *)
Crash ==
  /\ pc # "idle"
  /\ Finish
  /\ littered' = TRUE
  /\ Files(dir, trash, None, content)
  /\ UNCHANGED <<edits, owed, deleted>>

Runtime ==
  \/ \E kind \in {"enable", "disable", "delete"}, id \in Ids : Start(kind, id)
  \/ Refuse({"w_locate", "w_read", "d_check", "d_locate", "d_read", "d_relocate",
             "d_compare", "d_link"})
  \/ WriterLocates \/ WriterReads \/ WriterWrites \/ WriterCompares \/ WriterReplaces
  \/ WriterGivesUp
  \/ DeleteChecks \/ DeleteLocates \/ DeleteReads \/ DeleteRelocates \/ DeleteCompares
  \/ \E stamp \in Stamps : DeleteLinks(stamp)
  \/ DeleteVerifies \/ DeleteUnlinks \/ DeleteGivesUp

-----------------------------------------------------------------------------
(* Editors (external): they save a document under a name, by renaming a    *)
(* new file over it or by writing into it, or remove a name.               *)

Touched(names) == window' = (window \/ (pc \in AfterLook /\ cmd.path \in names))

Edited(name) == edits < MaxEdits /\ edits' = edits + 1 /\ Touched({name})

EditorReplaces(name, document) ==
  LET i == NewInode IN
  /\ "replace" \in EditorSaves
  /\ Edited(name)
  /\ Files([dir EXCEPT ![name] = i], trash, temp, [content EXCEPT ![i] = document])
  /\ owed' = [owed EXCEPT ![name] = document]
  /\ UNCHANGED <<pc, cmd, littered, deleted>>

(* Open with truncation; the text follows. *)
EditorTruncates(name) ==
  /\ "inplace" \in EditorSaves
  /\ dir[name] # None
  /\ Edited(name)
  /\ Files(dir, trash, temp, [content EXCEPT ![dir[name]] = Torn])
  /\ owed' = [owed EXCEPT ![name] = None]
  /\ UNCHANGED <<pc, cmd, littered, deleted>>

EditorWrites(inode, document) ==
  LET names == {n \in Names : dir[n] = inode} IN
  /\ content[inode] = Torn
  /\ Files(dir, trash, temp, [content EXCEPT ![inode] = document])
  /\ owed' = [n \in Names |-> IF n \in names THEN document ELSE owed[n]]
  /\ Touched(names)
  /\ UNCHANGED <<pc, cmd, edits, littered, deleted>>

EditorRemoves(name) ==
  /\ dir[name] # None
  /\ Edited(name)
  /\ Files([dir EXCEPT ![name] = None], trash, temp, content)
  /\ owed' = [owed EXCEPT ![name] = None]
  /\ UNCHANGED <<pc, cmd, littered, deleted>>

Editor ==
  \/ \E name \in Names, document \in Saveable : EditorReplaces(name, document)
  \/ \E name \in Names : EditorTruncates(name) \/ EditorRemoves(name)
  \/ \E inode \in Inodes, document \in Saveable : EditorWrites(inode, document)

Next == Runtime \/ Crash \/ Editor

Spec == Init /\ [][Next]_vars

-----------------------------------------------------------------------------
(* Properties. *)

(* A text, or what changes of `enabled` may have made of it. *)
Versions(text) == {text} \cup {Updated(text, enabled) : enabled \in BOOLEAN}

(* Nothing an editor saved is lost, wherever a command fails or the        *)
(* process dies: under its name is the very text he saved last, or that    *)
(* document with another `enabled`, rendered once more; and where the name *)
(* is gone it is in the trash.  Only what is saved between a command's     *)
(* last look and its rename or unlink is not promised (set_enabled and     *)
(* move_to_trash compare bytes, and nothing compares after that).          *)
NothingLost ==
  \A n \in Names : owed[n] # None =>
    IF dir[n] # None THEN Read(n) \in Versions(owed[n])
    ELSE \E s \in Stamps : trash[s] # None /\ content[trash[s]] \in Versions(owed[n])

(* A refused delete leaves no second name of the file in the trash, and a  *)
(* completed one none in the catalog: between commands a file is in one    *)
(* place, unless a clean-up failed or the process died.                    *)
OnePlace ==
  (pc = "idle" /\ ~littered) =>
    {dir[n] : n \in Names} \cap {trash[s] : s \in Stamps} \subseteq {None}

(* What a delete moved to the trash stays there: no later delete           *)
(* overwrites it, and none that is refused removes it as its own link.     *)
DeletedKept ==
  [][\A s \in Stamps : deleted[s] # None => trash'[s] = trash[s]]_vars

(* A command takes a document away from its name only if it is the one it  *)
(* read and built its change from, or an editor saved after the command's  *)
(* last look: an edit before that look is never lost.                      *)
EditsBeforeCheckSurvive ==
  [][pc' # pc /\ ~window =>
       \A n \in Names : Read(n) # None /\ Read(n)' # Read(n) => Read(n) = cmd.original]_vars
=============================================================================
