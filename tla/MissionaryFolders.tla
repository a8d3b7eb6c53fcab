-------------------------- MODULE MissionaryFolders -------------------------
(***************************************************************************)
(* Missionaries, their documents, and the folder on disk that both point   *)
(* into.  Moving a missionary to the trash or the archive, and back,       *)
(* renames the folder first, then rewrites the paths of the documents and  *)
(* of the missionary in one transaction, and renames the folder back where *)
(* that transaction fails.  Uploads, deletes, permanent deletes and the    *)
(* repair of a document's path work on the same folders at the same time,  *)
(* and the server may stop between any two steps.                          *)
(***************************************************************************)
EXTENDS FolderTree

CONSTANTS
  Naming,        \* what the missionaries are called: functions on Missionary
  Workers,       \* requests the server works on at a time
  MaxMissionary, \* bound: missionaries created
  MaxDocument,   \* bound: uploads
  MaxOp,         \* bound: requests other than creations and uploads
  MaxFault       \* bound: stops, failing transactions, failing file operations

ASSUME FoldersAssumption == {Workers, MaxMissionary, MaxDocument, MaxOp, MaxFault} \subseteq Nat

Handler    == 1 .. Workers
Missionary == 1 .. MaxMissionary
Document   == 1 .. MaxDocument

VARIABLES
  name,          \* Missionary.full_name
  row,           \* Missionary: whether the row exists, its status and folder_path
  doc,           \* Document: whether the row exists, its missionary and file_path
  dirs,          \* folders on disk
  disk,          \* the folders in which a document's file is
  req,           \* what each handler is doing, and what it has read
  seek,          \* the repair of a document's path that is under way
  upset,         \* history: missionaries whose requests overlapped or were cut short
  purged,        \* history: missionaries whose folder was deleted for good
  spent          \* how much of each bound is used up

rows  == <<name, row, doc>>
files == <<dirs, disk>>
vars  == <<rows, files, req, seek, upset, purged, spent>>

Active  == <<"active">>
Archive == <<"archive">>
Trash   == <<"trash">>
Kind    == {"trash", "archive", "restore", "roster"}

Area(kind) ==
  CASE kind = "trash" -> Trash
    [] kind = "archive" -> Archive
    [] kind \in {"restore", "roster"} -> Active

(* The area that a status belongs to.                                      *)
AreaOf == [ACTIVE |-> Active, ARCHIVED |-> Archive, TRASH |-> Trash]

(* The status a move sets; the roster has set it before.                   *)
Target == [trash |-> "TRASH", archive |-> "ARCHIVED", restore |-> "ACTIVE", roster |-> "ACTIVE"]

Nowhere == <<>>
Absent  == [at |-> "none", status |-> "none", folder |-> Nowhere]
Idle    == [at |-> "idle"]

Init ==
  /\ name \in Naming
  /\ row = [m \in Missionary |-> Absent]
  /\ doc = [d \in Document |-> [at |-> "none"]]
  /\ dirs = {} /\ disk = [d \in Document |-> {}]
  /\ req = [h \in Handler |-> Idle] /\ seek = Idle
  /\ upset = {} /\ purged = {}
  /\ spent = [op |-> 0, fault |-> 0]

(***************************************************************************)
(* Bookkeeping.  A request goes to the first worker that is free.          *)
(***************************************************************************)
Spend(what, max) == spent[what] < max /\ spent' = [spent EXCEPT ![what] = @ + 1]

Exists(m) == row[m].at = "row"
Stored(d) == doc[d].at = "row"

Working(m) == \/ \E h \in Handler : req[h] # Idle /\ req[h].who = m
              \/ seek # Idle /\ seek.who = m
InFlight   == {m \in Missionary : Working(m)}

Begins(h, next) ==
  /\ req[h] = Idle /\ \A g \in 1 .. h - 1 : req[g] # Idle
  /\ req' = [req EXCEPT ![h] = next]
  /\ upset' = upset \cup ({next.who} \cap InFlight)

Goes(h, next) == req' = [req EXCEPT ![h] = next] /\ UNCHANGED upset
Ends(h)       == Goes(h, Idle)
Breaks(h)     == req' = [req EXCEPT ![h] = Idle] /\ upset' = upset \cup {req[h].who}

SameFiles == UNCHANGED files
SameRows  == UNCHANGED rows
Others    == UNCHANGED <<seek, purged>>

(* A folder is renamed, with all that is in it.  Where Windows refuses     *)
(* that, for a folder in use, it is copied and then removed, and either    *)
(* may get only so far.                                                    *)
Rename(from, to) ==
  /\ dirs' = Renamed(dirs, from, to)
  /\ disk' = [d \in Document |-> Renamed(disk[d], from, to)]

CopyPartly(from, to) ==
  LET Copies(d) == {Rebased(p, from, to) : p \in {q \in disk[d] : Within(q, from)}}
      Rest(d)   == {q \in disk[d] : ~ Within(q, from)}
  IN  /\ dirs' = dirs \cup Renamed(dirs, from, to)
      /\ \E some \in SUBSET Document :
           \/ disk' = [d \in Document |-> disk[d] \cup (IF d \in some THEN Copies(d) ELSE {})]
           \/ disk' = [d \in Document |-> Copies(d) \cup (IF d \in some THEN disk[d] ELSE Rest(d))]

(***************************************************************************)
(* MissionaryService.create_missionary: the folder is made, or the one of  *)
(* another missionary of that name used, and then the row inserted.        *)
(***************************************************************************)
Create(m) ==
  LET folder == <<Active, <<name[m]>>>>
  IN  /\ row[m] = Absent /\ \A n \in 1 .. m - 1 : row[n] # Absent
      /\ dirs' = WithParents(dirs, folder)
      /\ \/ /\ row' = [row EXCEPT ![m] = [at |-> "row", status |-> "ACTIVE", folder |-> folder]]
            /\ UNCHANGED spent
         \/ row' = [row EXCEPT ![m].at = "gone"] /\ Spend("fault", MaxFault)
      /\ UNCHANGED <<name, doc, disk, req, upset>> /\ Others

(***************************************************************************)
(* Moving a folder: delete_missionary, archive_missionary, the archival at *)
(* the end of the workflow, restore_missionary, and the second half of a   *)
(* roster import.                                                          *)
(***************************************************************************)
BeginMove(h, m) ==
  /\ Exists(m) /\ Spend("op", MaxOp)
  /\ \E kind \in Kind \ {"roster"} :
       Begins(h, [at |-> "choose", kind |-> kind, who |-> m, was |-> row[m].status,
                  from |-> row[m].folder, to |-> Nowhere, docs |-> <<>>])
  /\ SameRows /\ SameFiles /\ Others

(* The roster makes an inactive missionary active in one transaction, and  *)
(* moves the folder it has seen there afterwards.                          *)
BeginRoster(h, m) ==
  /\ Exists(m) /\ row[m].status # "ACTIVE" /\ Spend("op", MaxOp)
  /\ row' = [row EXCEPT ![m].status = "ACTIVE"]
  /\ Begins(h, [at |-> "choose", kind |-> "roster", who |-> m, was |-> "ACTIVE",
                from |-> row[m].folder, to |-> Nowhere, docs |-> <<>>])
  /\ UNCHANGED <<name, doc>> /\ SameFiles /\ Others

Choose(h) ==
  /\ req[h].at = "choose"
  /\ IF req[h].kind = "roster" /\ ~ Exists(req[h].who)
     THEN Ends(h)
     ELSE Goes(h, [req[h] EXCEPT !.at = "move",
                                 !.to = FreeFolder(dirs, Area(req[h].kind), Last(req[h].from))])
  /\ SameRows /\ SameFiles /\ Others /\ UNCHANGED spent

Move(h) ==
  LET from == req[h].from
      to   == Landing(dirs, from, req[h].to)
  IN  /\ req[h].at = "move"
      /\ \/ (from \notin dirs \/ from = req[h].to) /\ SameFiles
         \/ from \in dirs /\ from # req[h].to /\ to \notin dirs /\ Rename(from, to)
      /\ Goes(h, [req[h] EXCEPT !.at = "rewrite"])
      /\ SameRows /\ Others /\ UNCHANGED spent

(* The move raises: the destination is taken, or it gets only so far.      *)
MoveFails(h) ==
  LET from == req[h].from
      to   == Landing(dirs, from, req[h].to)
  IN  /\ req[h].at = "move" /\ from \in dirs /\ from # req[h].to
      /\ \/ to \in dirs /\ SameFiles /\ UNCHANGED spent
         \/ to \notin dirs /\ CopyPartly(from, to) /\ Spend("fault", MaxFault)
      /\ Breaks(h) /\ SameRows /\ Others

(* rewrite_document_paths, on the documents that the session reads.        *)
Rewrite(h) ==
  LET r     == req[h]
      Moved == {d \in Document : Stored(d) /\ doc[d].who = r.who /\ Within(doc[d].path, r.from)}
  IN  /\ r.at = "rewrite"
      /\ Goes(h, [r EXCEPT !.at = "commit",
                           !.docs = [d \in (IF r.from = r.to THEN {} ELSE Moved) |->
                                       Rebased(doc[d].path, r.from, r.to)]])
      /\ SameRows /\ SameFiles /\ Others /\ UNCHANGED spent

(* The transaction updates rows by primary key, and fails if one is gone.  *)
Fits(r) == Exists(r.who) /\ \A d \in DOMAIN r.docs : Stored(d)

(* What the session has not changed is not written.                        *)
Commit(h) ==
  LET r == req[h]
  IN  /\ r.at = "commit" /\ Fits(r)
      /\ row' = [row EXCEPT ![r.who].status = IF r.was = Target[r.kind] THEN @ ELSE Target[r.kind],
                            ![r.who].folder = IF r.from = r.to THEN @ ELSE r.to]
      /\ doc' = [d \in Document |-> IF d \in DOMAIN r.docs THEN [doc[d] EXCEPT !.path = r.docs[d]] ELSE doc[d]]
      /\ IF r.kind = "roster" THEN Ends(h) ELSE Goes(h, [r EXCEPT !.at = "log"])
      /\ UNCHANGED <<name, spent>> /\ SameFiles /\ Others

CommitFails(h) ==
  /\ \/ req[h].at \in {"rewrite", "commit"} /\ Spend("fault", MaxFault)
     \/ req[h].at = "commit" /\ ~ Fits(req[h]) /\ UNCHANGED spent
  /\ Goes(h, [req[h] EXCEPT !.at = "undo"])
  /\ SameRows /\ SameFiles /\ Others

(* The committed row is read again for the log; if it is gone, that raises *)
(* and the folder is moved back.  Archival that the workflow leads to does *)
(* without.                                                                *)
Log(h) ==
  /\ req[h].at = "log"
  /\ \/ (Exists(req[h].who) \/ req[h].kind = "archive") /\ Ends(h)
     \/ ~ Exists(req[h].who) /\ Goes(h, [req[h] EXCEPT !.at = "undo"])
  /\ SameRows /\ SameFiles /\ Others /\ UNCHANGED spent

(* FolderMove.rollback: it looks whether the folder can go back, and then  *)
(* moves it, by then perhaps into a folder that was made there meanwhile;  *)
(* its own failure is logged.  (After a failed commit some callers roll    *)
(* back once more; unless another request came in between, the source is   *)
(* there or the destination is not, and the second look ends it.)          *)
NotUndoable(r) == FALSE
Undoable(r) == r.to \in dirs /\ r.from \notin dirs

GivesUp(h) == IF req[h].kind = "roster" THEN Breaks(h) ELSE Ends(h)

Undo(h) ==
  LET r == req[h]
  IN  /\ r.at = "undo"
      /\ IF Undoable(r) THEN Goes(h, [r EXCEPT !.at = "back"]) ELSE GivesUp(h)
      /\ SameRows /\ SameFiles /\ Others /\ UNCHANGED spent

MoveBack(h) ==
  LET r  == req[h]
      to == Landing(dirs, r.to, r.from)
  IN  /\ r.at = "back"
      /\ r.to \in dirs /\ to \notin dirs /\ Rename(r.to, to)
      /\ GivesUp(h) /\ SameRows /\ Others /\ UNCHANGED spent

MoveBackFails(h) ==
  LET r  == req[h]
      to == Landing(dirs, r.to, r.from)
  IN  /\ r.at = "back"
      /\ \/ (r.to \notin dirs \/ to \in dirs) /\ SameFiles /\ UNCHANGED spent
         \/ /\ r.to \in dirs /\ to \notin dirs
            /\ CopyPartly(r.to, to) /\ Spend("fault", MaxFault)
      /\ Breaks(h) /\ SameRows /\ Others

(***************************************************************************)
(* An upload reads the folder before it receives the file, makes the       *)
(* folder if it is gone, installs the file and inserts the row.  The file  *)
(* of one that fails goes again, unless the COMMIT has begun: then it is   *)
(* left, as nobody knows whether the row is there.                         *)
(***************************************************************************)
BeginUpload(h, m) ==
  /\ Exists(m)
  /\ \E d \in Document :
       /\ doc[d].at = "none" /\ \A c \in 1 .. d - 1 : doc[c].at # "none"
       /\ doc' = [doc EXCEPT ![d] = [at |-> "sent", who |-> m]]
       /\ Begins(h, [at |-> "install", who |-> m, doc |-> d, from |-> row[m].folder])
  /\ UNCHANGED <<name, row, spent>> /\ SameFiles /\ Others

Gone(d) == doc' = [doc EXCEPT ![d].at = "gone"]

Install(h) ==
  LET r == req[h]
  IN  /\ r.at = "install" /\ dirs' = WithParents(dirs, r.from)
      /\ \/ /\ disk' = [disk EXCEPT ![r.doc] = {r.from}] /\ UNCHANGED doc
            /\ Goes(h, [r EXCEPT !.at = "insert"]) /\ UNCHANGED spent
         \/ UNCHANGED disk /\ Gone(r.doc) /\ Ends(h) /\ Spend("fault", MaxFault)
      /\ UNCHANGED <<name, row>> /\ Others

(* The COMMIT has raised, and there is no row.  (One that raises with the  *)
(* row in place leaves what one that succeeds does.)                       *)
KeepFile(h, r) == doc' = [doc EXCEPT ![r.doc].at = "left"] /\ Ends(h)

Insert(h) ==
  LET r == req[h]
  IN  /\ r.at = "insert"
      /\ \/ /\ Exists(r.who) /\ doc' = [doc EXCEPT ![r.doc] = [at |-> "row", who |-> r.who, path |-> r.from]]
            /\ Ends(h) /\ UNCHANGED spent
         \/ /\ IF Exists(r.who) THEN Spend("fault", MaxFault) ELSE UNCHANGED spent
            /\ Gone(r.doc) /\ Goes(h, [r EXCEPT !.at = "unlink"])
         \/ Exists(r.who) /\ KeepFile(h, r) /\ Spend("fault", MaxFault)
      /\ UNCHANGED <<name, row>> /\ SameFiles /\ Others

(***************************************************************************)
(* A document is deleted: its row, and then the file its row named.        *)
(***************************************************************************)
BeginDelete(h, d) ==
  /\ Stored(d) /\ Spend("op", MaxOp)
  /\ Begins(h, [at |-> "drop", who |-> doc[d].who, doc |-> d, from |-> doc[d].path])
  /\ SameRows /\ SameFiles /\ Others

DropFileFirst(h) ==
  LET r == req[h]
  IN  /\ r.at = "drop" /\ disk' = [disk EXCEPT ![r.doc] = @ \ {r.from}]
      /\ \/ Stored(r.doc) /\ Gone(r.doc) /\ Ends(h) /\ UNCHANGED spent
         \/ /\ IF Stored(r.doc) THEN Spend("fault", MaxFault) ELSE UNCHANGED spent
            /\ Ends(h) /\ UNCHANGED doc
      /\ UNCHANGED <<name, row, dirs>> /\ Others
Drop(h) ==
  LET r == req[h]
  IN  /\ r.at = "drop"
      /\ \/ Stored(r.doc) /\ Gone(r.doc) /\ Goes(h, [r EXCEPT !.at = "unlink"]) /\ UNCHANGED spent
         \/ /\ IF Stored(r.doc) THEN Spend("fault", MaxFault) ELSE UNCHANGED spent
            /\ Ends(h) /\ UNCHANGED doc
      /\ UNCHANGED <<name, row>> /\ SameFiles /\ Others

(* Also the end of an upload that has failed before its COMMIT.            *)
Unlink(h) ==
  LET r == req[h]
  IN  /\ r.at = "unlink"
      /\ \/ disk' = [disk EXCEPT ![r.doc] = @ \ {r.from}] /\ Ends(h) /\ UNCHANGED spent
         \/ UNCHANGED disk /\ Breaks(h) /\ Spend("fault", MaxFault)
      /\ UNCHANGED dirs /\ SameRows /\ Others

(***************************************************************************)
(* MissionaryService.hard_delete: the folder first, whatever the database  *)
(* says to the deletion of the rows afterwards.                            *)
(***************************************************************************)
BeginHardDelete(h, m) ==
  /\ Exists(m) /\ Spend("op", MaxOp)
  /\ Begins(h, [at |-> "purge", who |-> m, from |-> row[m].folder])
  /\ SameRows /\ SameFiles /\ Others

Below(folder) == {p \in dirs : Within(p, folder)}

Purge(h) ==
  LET r == req[h]
      Rest(d) == {p \in disk[d] : ~ Within(p, r.from)}
  IN  /\ r.at = "purge" /\ purged' = purged \cup {r.who}
      /\ \/ /\ dirs' = dirs \ Below(r.from) /\ disk' = [d \in Document |-> Rest(d)]
            /\ Goes(h, [r EXCEPT !.at = "erase"]) /\ UNCHANGED spent
         \/ /\ r.from \in dirs /\ Spend("fault", MaxFault) /\ UNCHANGED dirs
            /\ \E some \in SUBSET Document :
                 disk' = [d \in Document |-> IF d \in some THEN disk[d] ELSE Rest(d)]
            /\ req' = [req EXCEPT ![h].at = "erase"] /\ upset' = upset \cup {r.who}
      /\ SameRows /\ UNCHANGED seek

(* It fails where appointments, tasks or groups refer to the missionary.   *)
Erase(h) ==
  LET r == req[h]
  IN  /\ r.at = "erase" /\ Ends(h)
      /\ \/ /\ row' = [row EXCEPT ![r.who].at = "gone"]
            /\ doc' = [d \in Document |-> IF Stored(d) /\ doc[d].who = r.who
                                          THEN [doc[d] EXCEPT !.at = "gone"] ELSE doc[d]]
            /\ UNCHANGED spent
         \/ UNCHANGED <<row, doc>> /\ Spend("fault", MaxFault)
      /\ UNCHANGED name /\ SameFiles /\ Others

(***************************************************************************)
(* resolve_document_path, when a document is opened whose row names a file *)
(* that is not there.  The file is looked for in the missionary's folder   *)
(* and below the storage root; found in one place, it is where the row     *)
(* points from then on.                                                    *)
(***************************************************************************)
InFolder(d)  == {p \in disk[d] : /\ Exists(doc[d].who) /\ row[doc[d].who].folder \in dirs
                                 /\ Within(p, row[doc[d].who].folder)}
InStorage(d) == disk[d]
FoundInFolder(d) == InFolder(d)
Found(d)     == InFolder(d) \cup InStorage(d)

Open(d) ==
  /\ seek = Idle /\ Stored(d) /\ doc[d].path \notin disk[d] /\ Cardinality(Found(d)) = 1
  /\ \E p \in Found(d) : seek' = [at |-> "repair", who |-> doc[d].who, doc |-> d, path |-> p]
  /\ upset' = upset \cup ({doc[d].who} \cap InFlight)
  /\ SameRows /\ SameFiles /\ UNCHANGED <<req, purged, spent>>

Repair ==
  /\ seek # Idle /\ seek' = Idle
  /\ IF Stored(seek.doc) THEN doc' = [doc EXCEPT ![seek.doc].path = seek.path] ELSE UNCHANGED doc
  /\ UNCHANGED <<name, row, req, upset, purged, spent>> /\ SameFiles

(***************************************************************************)
(* The server stops.                                                       *)
(***************************************************************************)
Crash ==
  /\ InFlight # {} /\ Spend("fault", MaxFault)
  /\ req' = [h \in Handler |-> Idle] /\ seek' = Idle /\ upset' = upset \cup InFlight
  /\ doc' = [d \in Document |-> IF doc[d].at = "sent" THEN [doc[d] EXCEPT !.at = "gone"] ELSE doc[d]]
  /\ UNCHANGED <<name, row, purged>> /\ SameFiles

Continue(h) ==
  \/ Choose(h) \/ Move(h) \/ MoveFails(h) \/ Rewrite(h) \/ Commit(h) \/ CommitFails(h)
  \/ Log(h) \/ Undo(h) \/ MoveBack(h) \/ MoveBackFails(h)
  \/ Install(h) \/ Insert(h) \/ Drop(h) \/ Unlink(h)
  \/ Purge(h) \/ Erase(h)

Next ==
  \/ \E m \in Missionary : Create(m)
  \/ \E h \in Handler :
       \/ \E m \in Missionary : BeginMove(h, m) \/ BeginRoster(h, m) \/ BeginUpload(h, m) \/ BeginHardDelete(h, m)
       \/ \E d \in Document : BeginDelete(h, d)
       \/ Continue(h)
  \/ (\E d \in Document : Open(d)) \/ Repair \/ Crash

Fairness ==
  /\ \A h \in Handler : WF_vars(Continue(h))
  /\ \A d \in Document : WF_vars(Open(d))
  /\ WF_vars(Repair)

Spec == Init /\ [][Next]_vars /\ Fairness

(***************************************************************************)
(* Properties.                                                             *)
(***************************************************************************)
FoldersTypeOK ==
  /\ name \in Naming
  /\ \A m \in Missionary :
       /\ row[m].at \in {"none", "row", "gone"}
       /\ Exists(m) => /\ row[m].status \in DOMAIN AreaOf
                       /\ Len(row[m].folder) = 2 /\ row[m].folder[1] \in {Active, Archive, Trash}
  /\ \A d \in Document :
       /\ doc[d].at \in {"none", "sent", "row", "gone", "left"}
       /\ disk[d] \subseteq dirs
  /\ {upset, purged} \subseteq SUBSET Missionary

Namesakes(m) == {n \in Missionary : name[n] = name[m]}

(* As long as a document has its row, its file is somewhere on the disk,   *)
(* whatever moves, uploads, deletes and permanent deletes of others do at  *)
(* the same time and wherever they fail or stop.  Only a permanent delete  *)
(* takes it: of its missionary, or of one of the same name, who may share  *)
(* the folder.                                                             *)
NothingIsLost ==
  \A d \in Document : Stored(d) => disk[d] # {} \/ Namesakes(doc[d].who) \cap purged # {}

(* The missionary's requests have come one after the other and ran to      *)
(* their end, though transactions may have failed.                         *)
Calm(m) == m \notin upset \cup InFlight /\ Namesakes(m) = {m}

(* Then the missionary's folder is there, in the area of the status, and   *)
(* its documents point exactly to their files in it.  No file is left of a *)
(* document or a missionary that was deleted, nor of an upload that failed *)
(* before its COMMIT; the file of one whose COMMIT failed, which the code  *)
(* keeps, is where the missionary's folder has gone.  What other           *)
(* missionaries' requests do at the same time does not matter.             *)
RowsAgree ==
  /\ \A m \in Missionary \ purged : Calm(m) /\ Exists(m) =>
       /\ row[m].folder \in dirs /\ row[m].folder[1] = AreaOf[row[m].status]
       /\ \A d \in Document : Stored(d) /\ doc[d].who = m =>
            doc[d].path = row[m].folder /\ disk[d] = {doc[d].path}
       /\ \A d \in Document : doc[d].at = "left" /\ doc[d].who = m => disk[d] \subseteq {row[m].folder}
  /\ \A d \in Document : doc[d].at = "gone" /\ Calm(doc[d].who) => disk[d] = {}

(* Whatever has gone wrong, a document whose file is in one place is found *)
(* again by those who open it, once the folders are left alone.            *)
Heals ==
  []<>(\A d \in Document : Stored(d) /\ Cardinality(disk[d]) = 1 => doc[d].path \in disk[d])
=============================================================================
