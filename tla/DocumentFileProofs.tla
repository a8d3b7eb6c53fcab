------------------------- MODULE DocumentFileProofs -------------------------
(***************************************************************************)
(* Files.  A row keeps its file because every file has one owner: the      *)
(* attempt that installed it until its row is committed, the row then, and *)
(* the deletions of that row at last.                                      *)
(***************************************************************************)
EXTENDS DocumentUploadProofs

Mentions(h, f) == req[h].file = f

\* What the steps of a handler know of the rows that name its file.
OwnFile ==
  \A h \in Handler, e \in RowId :
    Exists(e) /\ Mentions(h, row[e].file) =>
      /\ req[h].pc # "commit" /\ req[h].pc # "unlink"
      /\ req[h].pc = "recover" => req[h].committing /\ row[e].uid = req[h].uid
      /\ req[h].pc = "delete" => e = req[h].row

\* The file of a write is nobody else's, but for deletions of its row.
SoleOwner ==
  \A h, k \in Handler :
    h # k /\ req[h].pc \in {"commit", "recover"} /\ req[h].file \in FileName
      /\ Mentions(k, req[h].file) =>
         /\ req[h].pc = "recover" /\ req[h].committing
         /\ req[k].pc \in {"delete", "unlink"}

\* Whoever mentions a file knows one that was installed.
FilesInUse ==
  \A h \in Handler :
    /\ req[h].file \in FileName =>
         /\ req[h].pc \in {"commit", "recover", "delete", "unlink"}
         /\ file[req[h].file] # "unused"
    /\ req[h].pc = "commit" => file[req[h].file] # "removed"
    /\ req[h].committing => req[h].pc = "recover"

FileInv == RowKeepsItsFile /\ OwnFile /\ SoleOwner /\ FilesInUse

LEMMA FileInit == Init => FileInv
  BY UploadAssumption DEF Init, FileInv, RowKeepsItsFile, OwnFile, SoleOwner,
     FilesInUse, Mentions, Exists, NoRow, Idle, Nothing

\* A handler that remembers no file.
Clear(r) == r.file \notin FileName /\ r.committing = FALSE /\ r.pc # "commit"

\* The rows that are left are what they were, as far as files go.
RowsStay == \A e \in RowId : Exists(e)' =>
              Exists(e) /\ row'[e].file = row[e].file /\ row'[e].uid = row[e].uid

\* No file is forgotten, and those in use stay.
FilesStay ==
  /\ \A f \in FileName : file[f] # "unused" => file'[f] # "unused"
  /\ \A e \in RowId : Exists(e) => file'[row[e].file] \in {"installed", "damaged"}
  /\ \A h \in Handler : req[h].pc = "commit" => file'[req[h].file] # "removed"

LEMMA FileOfRow ==
  ASSUME TypeInv, NEW e, Exists(e)
  PROVE  e \in RowId /\ row[e].file \in FileName /\ row[e].uid \in UploadId
  BY StoredRow DEF TypeInv, Row

\* Most steps: handlers go on as they were or forget their files.
LEMMA QuietStep ==
  ASSUME TypeInv, FileInv, RowsStay, FilesStay,
         \A h \in Handler : req'[h] = req[h] \/ Clear(req'[h])
  PROVE  FileInv'
  <1>1. RowKeepsItsFile'
    BY FileOfRow DEF FileInv, RowKeepsItsFile, RowsStay, FilesStay
  <1>2. OwnFile'
    BY FileOfRow DEF FileInv, OwnFile, RowsStay, Mentions, Clear
  <1>3. SoleOwner'
    BY DEF FileInv, SoleOwner, Mentions, Clear
  <1>4. FilesInUse'
    BY DEF FileInv, FilesInUse, FilesStay, Clear
  <1> QED
    BY <1>1, <1>2, <1>3, <1>4 DEF FileInv

LEMMA UnchangedFiles ==
  ASSUME TypeInv, FileInv, UNCHANGED file
  PROVE  FilesStay
  BY DEF FileInv, RowKeepsItsFile, FilesInUse, FilesStay

\* A removal is harmless if no row names the file.
LEMMA HarmlessRemoval ==
  ASSUME TypeInv, FileInv, NEW h \in Handler, RemoveOwnFile(h),
         req[h].pc \in {"recover", "unlink"},
         req[h].file # Nothing => \A e \in RowId : Exists(e) => row[e].file # req[h].file
  PROVE  FilesStay
  <1>1. CASE UNCHANGED file
    BY <1>1, UnchangedFiles
  <1>2. CASE req[h].file # Nothing /\ file' = [file EXCEPT ![req[h].file] = "removed"]
    <2>1. req[h].file \in FileName
      BY <1>2 DEF TypeInv, UploadTypeOK, Request
    <2>2. ASSUME NEW k \in Handler, req[k].pc = "commit"
          PROVE  req[k].file # req[h].file /\ req[k].file \in FileName
      <3>1. req[k].file \in FileName /\ k # h
        BY <2>2 DEF TypeInv, UploadKnown
      <3>2. req[k].committing = FALSE \/ req[k].pc = "recover"
        BY DEF FileInv, FilesInUse, TypeInv, UploadTypeOK, Request
      <3> QED
        BY <2>2, <3>1, <3>2 DEF FileInv, SoleOwner, Mentions
    <2>3. \A e \in RowId : Exists(e) => file'[row[e].file] = file[row[e].file]
      BY <1>2, FileOfRow DEF TypeInv, UploadTypeOK
    <2>4. \A k \in Handler : req[k].pc = "commit" => file'[req[k].file] = file[req[k].file]
      BY <1>2, <2>2 DEF TypeInv, UploadTypeOK
    <2>5. \A f \in FileName : file[f] # "unused" => file'[f] # "unused"
      BY <1>2 DEF TypeInv, UploadTypeOK
    <2> QED
      BY <2>3, <2>4, <2>5 DEF FilesStay, FileInv, RowKeepsItsFile, FilesInUse
  <1> QED
    BY <1>1, <1>2 DEF RemoveOwnFile

\* The steps after which the handler's request remembers no file.
LEMMA AnswerClears ==
  ASSUME TypeInv, NEW h \in Handler, NEW reply \in Replies, Answer(h, reply)
  PROVE  \A k \in Handler : req'[k] = req[k] \/ Clear(req'[k])
  BY AnswerIdles, UploadAssumption DEF Answer, TypeInv, UploadTypeOK, Clear, Nothing

LEMMA PostProcessClears ==
  ASSUME TypeInv, NEW h \in Handler, NEW op \in {"upload", "retry"},
         NEW d \in RowId, PostProcess(h, op, d)
  PROVE  \A k \in Handler : req'[k] = req[k] \/ Clear(req'[k])
  <1>1. CASE Answer(h, "saved")
    BY <1>1, AnswerClears DEF Replies
  <1>2. CASE req' = [req EXCEPT ![h] = [Idle EXCEPT !.pc = "load", !.op = op, !.row = d]]
    <2> DEFINE r == [Idle EXCEPT !.pc = "load", !.op = op, !.row = d]
    <2>1. Clear(r)
      BY UploadAssumption DEF Clear, Idle, Nothing
    <2> QED
      BY <1>2, <2>1 DEF TypeInv, UploadTypeOK
  <1> QED
    BY <1>1, <1>2 DEF PostProcess

\* A handler past the reconciliation, or before the file, has none to forget.
LEMMA GotoClears ==
  ASSUME TypeInv, FileInv, NEW h \in Handler, NEW step \in Step \ {"commit"},
         req[h].pc \in {"store", "load", "apply"}, Goto(h, step)
  PROVE  \A k \in Handler : req'[k] = req[k] \/ Clear(req'[k])
  <1> DEFINE r == [req[h] EXCEPT !.pc = step]
  <1>1. req[h].file \notin FileName /\ req[h].committing = FALSE
    BY DEF FileInv, FilesInUse, TypeInv, UploadTypeOK, Request
  <1>2. r.pc = step /\ r.file = req[h].file /\ r.committing = req[h].committing
    BY DEF TypeInv, UploadTypeOK, Request
  <1>3. req' = [req EXCEPT ![h] = r]
    BY DEF Goto
  <1> QED
    BY <1>1, <1>2, <1>3 DEF Clear, TypeInv, UploadTypeOK

LEMMA OtherRowsStay ==
  ASSUME TypeInv, ApplyStep \/ MarkStep \/ DeleteStep \/ Invalidate \/ UNCHANGED row
  PROVE  RowsStay
  <1> SUFFICES ASSUME NEW e \in RowId, Exists(e)'
               PROVE  Exists(e) /\ row'[e].file = row[e].file /\ row'[e].uid = row[e].uid
    BY DEF RowsStay
  <1>0. row[e] \in Row \cup {NoRow}
    BY DEF TypeInv, UploadTypeOK
  <1>1. CASE ApplyStep
    BY <1>0, <1>1 DEF ApplyStep, ApplyUpdates, TypeInv, UploadTypeOK, Row, NoRow, Exists
  <1>2. CASE MarkStep
    BY <1>0, <1>2 DEF MarkStep, TypeInv, UploadTypeOK, Row, NoRow, Exists
  <1>3. CASE DeleteStep
    <2>1. row'[e] \in {NoRow, row[e], [row[e] EXCEPT !.sup = None]}
      BY <1>3 DEF DeleteStep
    <2> QED
      BY <1>0, <2>1 DEF Row, NoRow, Exists
  <1>4. CASE Invalidate
    <2>1. \/ row'[e] = row[e]
          \/ row[e].status = "ACTIVE" /\ row'[e] = [row[e] EXCEPT !.status = "STALE"]
      BY <1>4 DEF Invalidate
    <2> QED
      BY <1>0, <2>1 DEF Row, NoRow, Exists
  <1>5. CASE UNCHANGED row
    BY <1>5 DEF Exists
  <1> QED
    BY <1>1, <1>2, <1>3, <1>4, <1>5

\* The reconciliation removes a file only if no row names it.
LEMMA RecoverFiles ==
  ASSUME TypeInv, LinkInv, FileInv, NEW h \in Handler, Recover(h)
  PROVE  FileInv'
  <1>1. req[h].pc = "recover" /\ UNCHANGED row
    BY DEF Recover
  <1>2. RowsStay
    BY <1>1, OtherRowsStay
  <1>3. \A k \in Handler : req'[k] = req[k] \/ Clear(req'[k])
    <2>1. \/ \E reply \in Replies : Answer(h, reply)
          \/ \E d \in RowId : PostProcess(h, "upload", d)
      <3>1. ASSUME NEW d \in RowOf(req[h].uid), PostProcess(h, "upload", d)
            PROVE  \E e \in RowId : PostProcess(h, "upload", e)
        BY <3>1 DEF RowOf
      <3> QED
        BY <3>1 DEF Recover, Replies
    <2> QED
      BY <2>1, AnswerClears, PostProcessClears
  <1>4. FilesStay
    <2>1. CASE UNCHANGED file
      BY <2>1, UnchangedFiles
    <2>2. CASE ~req[h].committing /\ RemoveOwnFile(h)
      <3>1. \A e \in RowId : Exists(e) => row[e].file # req[h].file
        BY <1>1, <2>2 DEF FileInv, OwnFile, Mentions
      <3> QED
        BY <1>1, <2>2, <3>1, HarmlessRemoval
    <2>3. CASE \E d \in RowOf(req[h].uid) : row[d].file # req[h].file /\ RemoveOwnFile(h)
      <3>1. PICK d \in RowOf(req[h].uid) : row[d].file # req[h].file /\ RemoveOwnFile(h)
        BY <2>3
      <3>2. d \in RowId /\ Exists(d) /\ row[d].uid = req[h].uid
        BY DEF RowOf
      <3>3. ASSUME NEW e \in RowId, Exists(e), row[e].file = req[h].file
            PROVE  FALSE
        <4>1. row[e].uid = req[h].uid
          BY <1>1, <3>3 DEF FileInv, OwnFile, Mentions
        <4>2. e = d
          BY <3>2, <3>3, <4>1 DEF LinkInv, OneRowPerUpload
        <4> QED
          BY <3>1, <3>3, <4>2
      <3> QED
        BY <1>1, <3>1, <3>3, HarmlessRemoval
    <2> QED
      BY <2>1, <2>2, <2>3 DEF Recover, CleanUp
  <1> QED
    BY <1>2, <1>3, <1>4, QuietStep

LEMMA UnlinkFiles ==
  ASSUME TypeInv, FileInv, NEW h \in Handler, Unlink(h)
  PROVE  FileInv'
  <1>1. \A e \in RowId : Exists(e) => row[e].file # req[h].file
    BY DEF Unlink, FileInv, OwnFile, Mentions
  <1>2. FilesStay
    BY <1>1, HarmlessRemoval DEF Unlink
  <1>3. \A k \in Handler : req'[k] = req[k] \/ Clear(req'[k])
    BY AnswerClears DEF Unlink, Replies
  <1>4. RowsStay
    BY OtherRowsStay DEF Unlink
  <1> QED
    BY <1>2, <1>3, <1>4, QuietStep

\* The steps that touch no file and remember none.
LEMMA PostProcessingFiles ==
  ASSUME TypeInv, FileInv, NEW h \in Handler,
         Load(h) \/ Apply(h) \/ Record(h) \/ Cancel(h)
  PROVE  FileInv'
  <1>1. UNCHANGED file
    BY DEF Load, Apply, Record, Cancel
  <1>2. req[h].row \in RowId \cup {None} /\ req[h].data \in Payload \cup {Nothing}
    BY DEF TypeInv, UploadTypeOK, Request
  <1>3. RowsStay
    <2>1. CASE Load(h)
      BY <2>1, OtherRowsStay DEF Load
    <2>2. CASE Apply(h)
      BY <1>2, <2>2, OtherRowsStay DEF Apply, ApplyStep, Claimable, Exists
    <2>3. CASE Record(h)
      BY <1>2, <2>3, OtherRowsStay DEF Record, MarkStep, Exists
    <2>4. CASE Cancel(h)
      BY <1>2, <2>4, OtherRowsStay DEF Cancel, MarkStep, Exists
    <2> QED
      BY <2>1, <2>2, <2>3, <2>4
  <1>4. \A k \in Handler : req'[k] = req[k] \/ Clear(req'[k])
    <2>1. CASE Answer(h, "saved")
      BY <2>1, AnswerClears DEF Replies
    <2>2. CASE req[h].pc \in {"load", "apply"} /\ (Goto(h, "cancel") \/ Goto(h, "record"))
      BY <2>2, GotoClears DEF Step
    <2>3. CASE /\ req[h].pc = "load"
               /\ req' = [req EXCEPT ![h].pc = "apply", ![h].data = row[req[h].row].payload]
      <3> DEFINE r == [req[h] EXCEPT !.pc = "apply", !.data = row[req[h].row].payload]
      <3>1. req[h].file \notin FileName /\ req[h].committing = FALSE
        BY <2>3 DEF FileInv, FilesInUse, TypeInv, UploadTypeOK, Request
      <3>2. r.pc = "apply" /\ r.file = req[h].file /\ r.committing = req[h].committing
        BY DEF TypeInv, UploadTypeOK, Request
      <3>3. req' = [req EXCEPT ![h] = r]
        BY <2>3
      <3> QED
        BY <3>1, <3>2, <3>3 DEF Clear, TypeInv, UploadTypeOK
    <2> QED
      BY <2>1, <2>2, <2>3 DEF Load, Apply, Record, Cancel, Saved
  <1> QED
    BY <1>1, <1>3, <1>4, UnchangedFiles, QuietStep

\* A request that begins mentions no file, but for a deletion's.
LEMMA BeginFiles ==
  ASSUME TypeInv, FileInv, NEW h \in Handler, BeginUpload(h) \/ BeginRetry(h)
  PROVE  FileInv'
  <1>1. UNCHANGED <<row, file>>
    BY DEF BeginUpload, BeginRetry
  <1>2. ASSUME NEW u \in UploadId, NEW p \in Payload, NEW t \in RowId \cup {None},
               req' = [req EXCEPT ![h] = [Idle EXCEPT !.pc = "store",
                         !.op = "upload", !.uid = u, !.payload = p, !.target = t]]
        PROVE  \A k \in Handler : req'[k] = req[k] \/ Clear(req'[k])
    <2> DEFINE r == [Idle EXCEPT !.pc = "store", !.op = "upload", !.uid = u,
                                 !.payload = p, !.target = t]
    <2>1. Clear(r)
      BY UploadAssumption DEF Clear, Idle, Nothing
    <2> QED
      BY <1>2, <2>1 DEF TypeInv, UploadTypeOK
  <1>3. \A k \in Handler : req'[k] = req[k] \/ Clear(req'[k])
    <2>1. \/ \E reply \in Replies : Answer(h, reply)
          \/ \E d \in RowId, op \in {"upload", "retry"} : PostProcess(h, op, d)
          \/ \E u \in UploadId, p \in Payload, t \in RowId \cup {None} :
               req' = [req EXCEPT ![h] = [Idle EXCEPT !.pc = "store",
                         !.op = "upload", !.uid = u, !.payload = p, !.target = t]]
      <3>1. CASE BeginUpload(h)
        <4>1. ASSUME NEW u \in UploadId, NEW d \in RowOf(u), PostProcess(h, "upload", d)
              PROVE  \E e \in RowId : PostProcess(h, "upload", e)
          BY <4>1 DEF RowOf
        <4> QED
          BY <3>1, <4>1 DEF BeginUpload, Replies
      <3>2. CASE BeginRetry(h)
        BY <3>2 DEF BeginRetry, Replies
      <3> QED
        BY <3>1, <3>2
    <2> QED
      BY <1>2, <2>1, AnswerClears, PostProcessClears
  <1>4. RowsStay /\ FilesStay
    BY <1>1, OtherRowsStay, UnchangedFiles
  <1> QED
    BY <1>3, <1>4, QuietStep

\* A handler that goes on with file f keeps the ownership of the files.
LEMMA OwnerStep ==
  ASSUME TypeInv, FileInv, RowsStay, FilesStay, NEW h \in Handler,
         NEW r \in Request, req' = [req EXCEPT ![h] = r],
         r.file \in FileName, file'[r.file] # "unused",
         r.pc \in {"commit", "recover", "delete", "unlink"},
         r.committing => r.pc = "recover",
         r.pc = "commit" => file'[r.file] # "removed",
         \A e \in RowId : Exists(e)' /\ row[e].file = r.file =>
           /\ r.pc # "commit" /\ r.pc # "unlink"
           /\ r.pc = "recover" => r.committing /\ row[e].uid = r.uid
           /\ r.pc = "delete" => e = r.row,
         \A k \in Handler : k # h /\ req[k].file = r.file =>
           \/ /\ r.pc \in {"delete", "unlink"}
              /\ req[k].pc \in {"commit", "recover"} =>
                   req[k].pc = "recover" /\ req[k].committing
           \/ /\ r.pc = "recover" /\ r.committing
              /\ req[k].pc \in {"delete", "unlink"}
  PROVE  FileInv'
  <1>1. \A k \in Handler : req'[k] = IF k = h THEN r ELSE req[k]
    BY DEF TypeInv, UploadTypeOK
  <1>2. RowKeepsItsFile'
    BY FileOfRow DEF FileInv, RowKeepsItsFile, RowsStay, FilesStay
  <1>3. OwnFile'
    BY <1>1, FileOfRow DEF FileInv, OwnFile, RowsStay, Mentions
  <1>4. SoleOwner'
    BY <1>1 DEF FileInv, SoleOwner, Mentions
  <1>5. FilesInUse'
    BY <1>1 DEF FileInv, FilesInUse, FilesStay
  <1> QED
    BY <1>2, <1>3, <1>4, <1>5 DEF FileInv

\* A deletion shares the file of its row with nobody who could still remove it.
LEMMA BeginDeleteFiles ==
  ASSUME TypeInv, FileInv, NEW h \in Handler, BeginDelete(h)
  PROVE  FileInv'
  <1>1. PICK d \in RowId :
          /\ Exists(d)
          /\ req' = [req EXCEPT ![h] = [Idle EXCEPT !.pc = "delete",
                       !.op = "delete", !.row = d, !.file = row[d].file]]
    BY DEF BeginDelete
  <1> DEFINE r == [Idle EXCEPT !.pc = "delete", !.op = "delete", !.row = d,
                               !.file = row[d].file]
  <1>2. row[d].file \in FileName /\ file[row[d].file] # "unused"
    BY <1>1, FileOfRow DEF FileInv, RowKeepsItsFile
  <1>3. /\ r \in Request /\ r.pc = "delete" /\ r.file = row[d].file /\ r.row = d
        /\ r.committing = FALSE
    BY <1>2 DEF Idle, Request, Step
  <1>4. RowsStay /\ FilesStay /\ UNCHANGED <<row, file>>
    BY OtherRowsStay, UnchangedFiles DEF BeginDelete
  <1>5. \A e \in RowId : Exists(e)' /\ row[e].file = r.file => e = r.row
    BY <1>1, <1>3, <1>4 DEF FileInv, RowKeepsItsFile, RowsStay
  <1>6. \A k \in Handler : req[k].file = r.file /\ req[k].pc \in {"commit", "recover"} =>
          req[k].pc = "recover" /\ req[k].committing
    BY <1>1, <1>3 DEF FileInv, OwnFile, Mentions
  <1>7. req' = [req EXCEPT ![h] = r]
    BY <1>1
  <1>8. file'[r.file] # "unused"
    BY <1>2, <1>3, <1>4
  <1> HIDE DEF r
  <1> QED
    BY <1>2, <1>3, <1>4, <1>5, <1>6, <1>7, <1>8, OwnerStep

\* A fresh name has no owner yet.
LEMMA StoreFiles ==
  ASSUME TypeInv, FileInv, NEW h \in Handler, Store(h)
  PROVE  FileInv'
  <1>1. RowsStay
    BY OtherRowsStay DEF Store
  <1>2. CASE Goto(h, "recover") /\ UNCHANGED file
    BY <1>1, <1>2, GotoClears, UnchangedFiles, QuietStep DEF Store, Step
  <1>3. ASSUME NEW f \in FileName, NEW step \in {"commit", "recover"},
               file[f] = "unused", file' = [file EXCEPT ![f] = "installed"],
               req' = [req EXCEPT ![h].file = f, ![h].pc = step]
        PROVE  FileInv'
    <2> DEFINE r == [req[h] EXCEPT !.file = f, !.pc = step]
    <2>1. /\ r \in Request /\ r.file = f /\ r.pc = step
          /\ r.committing = req[h].committing
      <3>1. req[h] \in Request
        BY DEF TypeInv, UploadTypeOK
      <3> QED
        BY <3>1 DEF Request, Step
    <2>2. req[h].committing = FALSE
      BY DEF Store, FileInv, FilesInUse, TypeInv, UploadTypeOK, Request
    <2>3. req' = [req EXCEPT ![h] = r]
      BY <1>3
    <2>4. /\ file'[f] = "installed"
          /\ \A g \in FileName : g # f => file'[g] = file[g]
      BY <1>3 DEF TypeInv, UploadTypeOK
    <2>5. /\ \A e \in RowId : Exists(e) => row[e].file # f
          /\ \A k \in Handler : req[k].file # f
      BY <1>3 DEF FileInv, RowKeepsItsFile, FilesInUse
    <2>6. FilesStay
      <3>1. \A e \in RowId : Exists(e) => file'[row[e].file] \in {"installed", "damaged"}
        BY <2>4, FileOfRow DEF FileInv, RowKeepsItsFile
      <3>2. \A k \in Handler : req[k].pc = "commit" => file'[req[k].file] # "removed"
        BY <2>4 DEF FileInv, FilesInUse, TypeInv, UploadKnown
      <3>3. \A g \in FileName : file[g] # "unused" => file'[g] # "unused"
        BY <2>4
      <3> QED
        BY <3>1, <3>2, <3>3 DEF FilesStay
    <2>7. ASSUME NEW e \in RowId, Exists(e)', row[e].file = r.file
          PROVE  FALSE
      BY <1>1, <2>1, <2>5, <2>7 DEF RowsStay
    <2>8. ASSUME NEW k \in Handler, req[k].file = r.file
          PROVE  FALSE
      BY <2>1, <2>5, <2>8
    <2>9. /\ r.file \in FileName /\ file'[r.file] # "unused"
          /\ file'[r.file] # "removed"
      BY <2>1, <2>4
    <2>10. /\ r.pc \in {"commit", "recover", "delete", "unlink"}
           /\ r.committing = FALSE
      BY <2>1, <2>2
    <2> HIDE DEF r
    <2> QED
      BY <1>1, <2>1, <2>3, <2>6, <2>7, <2>8, <2>9, <2>10, OwnerStep
  <1> QED
    BY <1>2, <1>3 DEF Store

\* The file of a deleted row is the deletion's.
LEMMA DeleteRowFiles ==
  ASSUME TypeInv, FileInv, NEW h \in Handler, DeleteRow(h)
  PROVE  FileInv'
  <1>1. req[h].pc = "delete" /\ UNCHANGED file
    BY DEF DeleteRow
  <1>2. FilesStay
    BY <1>1, UnchangedFiles
  <1>3. CASE Answer(h, "failed") /\ UNCHANGED row
    BY <1>2, <1>3, AnswerClears, OtherRowsStay, QuietStep DEF Replies
  <1>4. CASE /\ row' = [e \in RowId |->
                     IF e = req[h].row THEN NoRow
                     ELSE IF row[e].sup = req[h].row THEN [row[e] EXCEPT !.sup = None]
                     ELSE row[e]]
             /\ slot' = ClearSlots(req[h].row)
             /\ Goto(h, "unlink")
    <2> DEFINE r == [req[h] EXCEPT !.pc = "unlink"]
    <2>1. RowsStay
      <3>1. req[h].row \in RowId \cup {None}
        BY DEF TypeInv, UploadTypeOK, Request
      <3>2. DeleteStep
        BY <1>4, <3>1 DEF DeleteStep
      <3> QED
        BY <3>2, OtherRowsStay
    <2>2. /\ r \in Request /\ r.pc = "unlink" /\ r.file = req[h].file
          /\ r.committing = req[h].committing
      BY DEF TypeInv, UploadTypeOK, Request, Step
    <2>3. req[h].committing = FALSE
      BY <1>1 DEF FileInv, FilesInUse, TypeInv, UploadTypeOK, Request
    <2>4. req' = [req EXCEPT ![h] = r]
      BY <1>4 DEF Goto
    <2>5. CASE req[h].file \notin FileName
      <3>1. \A k \in Handler : req'[k] = req[k] \/ Clear(req'[k])
        BY <2>2, <2>3, <2>4, <2>5 DEF Clear, TypeInv, UploadTypeOK
      <3> QED
        BY <1>2, <2>1, <3>1, QuietStep
    <2>6. CASE req[h].file \in FileName
      <3>1. ASSUME NEW e \in RowId, Exists(e)', row[e].file = r.file
            PROVE  FALSE
        <4>1. e = req[h].row
          BY <1>1, <2>1, <2>2, <3>1 DEF RowsStay, FileInv, OwnFile, Mentions
        <4>2. row'[e] = NoRow
          BY <1>4, <4>1
        <4> QED
          BY <3>1, <4>2 DEF Exists, NoRow
      <3>2. \A k \in Handler :
              k # h /\ req[k].file = r.file /\ req[k].pc \in {"commit", "recover"} =>
                req[k].pc = "recover" /\ req[k].committing
        BY <2>2, <2>6 DEF FileInv, SoleOwner, Mentions
      <3>3. file'[r.file] # "unused"
        BY <1>1, <2>2, <2>6 DEF FileInv, FilesInUse
      <3> HIDE DEF r
      <3> QED
        BY <1>2, <2>1, <2>2, <2>3, <2>4, <2>6, <3>1, <3>2, <3>3, OwnerStep
    <2> QED
      BY <2>5, <2>6
  <1> QED
    BY <1>3, <1>4 DEF DeleteRow

\* A row that is committed takes its file over from its attempt, which leaves it
\* alone from then on.
LEMMA InsertFiles ==
  ASSUME TypeInv, FileInv, NEW h \in Handler, NEW d \in RowId, NEW r \in Request,
         req[h].pc = "commit", UNCHANGED file,
         req[h].target = None \/ Replaceable(req[h].target, req[h]),
         Fresh(d), Insert(d, req[h]), req' = [req EXCEPT ![h] = r],
         \/ Clear(r)
         \/ /\ r.pc = "recover" /\ r.committing = TRUE
            /\ r.file = req[h].file /\ r.uid = req[h].uid
  PROVE  FileInv'
  <1> DEFINE f == req[h].file
  <1>1. f \in FileName /\ req[h].committing = FALSE
    BY DEF TypeInv, UploadTypeOK, UploadKnown, FileInv, FilesInUse, Request
  <1>2. \A k \in Handler : req'[k] = IF k = h THEN r ELSE req[k]
    BY DEF TypeInv, UploadTypeOK
  <1>3. ~Exists(d) /\ d # None
    BY DEF Fresh, None, RowId
  <1>4. row'[d].file = f /\ row'[d].uid = req[h].uid
    BY InsertedRows, InsertedRow
  <1>5. ASSUME NEW e \in RowId, e # d, Exists(e)'
        PROVE  Exists(e) /\ row'[e].file = row[e].file /\ row'[e].uid = row[e].uid
    <2>1. CASE e = req[h].target
      <3>1. row[e] \in Row /\ row'[e] = Retire(row[e]) /\ Exists(e)
        BY <1>5, <2>1, InsertedRows, ReplacedRow DEF Exists
      <3> QED
        BY <3>1, RetiredRow
    <2>2. CASE e # req[h].target
      BY <1>5, <2>2, InsertedRows DEF Exists
    <2> QED
      BY <2>1, <2>2
  <1>6. \A e \in RowId : Exists(e) => row[e].file # f
    BY DEF FileInv, OwnFile, Mentions
  <1>7. \A k \in Handler : k # h => req[k].file # f
    BY <1>1 DEF FileInv, SoleOwner, Mentions
  <1>8. file'[f] \in {"installed", "damaged"} /\ file'[f] # "unused"
    BY <1>1 DEF FileInv, FilesInUse, TypeInv, UploadTypeOK
  <1>9. RowKeepsItsFile'
    <2> SUFFICES ASSUME NEW a \in RowId, Exists(a)'
                 PROVE  /\ file'[row'[a].file] \in {"installed", "damaged"}
                        /\ \A e \in RowId :
                             Exists(e)' /\ row'[e].file = row'[a].file => e = a
      BY DEF RowKeepsItsFile
    <2>1. CASE a = d
      BY <1>4, <1>5, <1>6, <1>8, <2>1
    <2>2. CASE a # d
      BY <1>4, <1>5, <1>6, <2>2 DEF FileInv, RowKeepsItsFile
    <2> QED
      BY <2>1, <2>2
  <1>10. OwnFile'
    <2> SUFFICES ASSUME NEW k \in Handler, NEW e \in RowId, Exists(e)',
                        req'[k].file = row'[e].file
                 PROVE  /\ req'[k].pc # "commit" /\ req'[k].pc # "unlink"
                        /\ req'[k].pc = "recover" =>
                             req'[k].committing /\ row'[e].uid = req'[k].uid
                        /\ req'[k].pc = "delete" => e = req'[k].row
      BY DEF OwnFile, Mentions
    <2>1. row'[e].file \in FileName
      BY <1>1, <1>4, <1>5, FileOfRow
    <2>2. CASE k = h
      BY <1>2, <1>4, <1>5, <1>6, <2>1, <2>2 DEF Clear
    <2>3. CASE k # h
      BY <1>2, <1>4, <1>5, <1>7, <2>3 DEF FileInv, OwnFile, Mentions
    <2> QED
      BY <2>2, <2>3
  <1>11. SoleOwner'
    BY <1>2, <1>7 DEF FileInv, SoleOwner, Mentions, Clear
  <1>12. FilesInUse'
    BY <1>1, <1>2, <1>8 DEF FileInv, FilesInUse, Clear
  <1> QED
    BY <1>9, <1>10, <1>11, <1>12 DEF FileInv

LEMMA CommitFiles ==
  ASSUME TypeInv, FileInv, NEW h \in Handler, Commit(h)
  PROVE  FileInv'
  <1>1. req[h].pc = "commit" /\ UNCHANGED file
    BY DEF Commit
  <1>2. req[h].file \in FileName /\ req[h] \in Request
    BY <1>1 DEF TypeInv, UploadTypeOK, UploadKnown
  <1> DEFINE Failed == [req[h] EXCEPT !.pc = "recover"]
             InDoubt == [req[h] EXCEPT !.pc = "recover", !.committing = TRUE]
  <1>3. /\ Failed \in Request /\ Failed.pc = "recover"
        /\ Failed.file = req[h].file /\ Failed.uid = req[h].uid
        /\ InDoubt \in Request /\ InDoubt.pc = "recover" /\ InDoubt.committing = TRUE
        /\ InDoubt.file = req[h].file /\ InDoubt.uid = req[h].uid
    BY <1>2 DEF Request, Step
  <1>4. ASSUME UNCHANGED row, NEW r \in {Failed, InDoubt}, req' = [req EXCEPT ![h] = r]
        PROVE  FileInv'
    <2>1. RowsStay /\ FilesStay
      BY <1>1, <1>4, OtherRowsStay, UnchangedFiles
    <2>2. /\ r \in Request /\ r.pc = "recover" /\ r.file = req[h].file
      BY <1>3
    <2>3. ASSUME NEW e \in RowId, Exists(e)', row[e].file = r.file
          PROVE  FALSE
      BY <1>1, <2>1, <2>2, <2>3 DEF RowsStay, FileInv, OwnFile, Mentions
    <2>4. ASSUME NEW k \in Handler, k # h, req[k].file = r.file
          PROVE  FALSE
      BY <1>1, <1>2, <2>2, <2>4 DEF FileInv, SoleOwner, Mentions
    <2>5. r.file \in FileName /\ file'[r.file] # "unused"
      BY <1>1, <1>2, <2>2 DEF FileInv, FilesInUse
    <2>6. /\ r.pc \in {"commit", "recover", "delete", "unlink"}
          /\ r.pc # "commit"
      BY <2>2
    <2> HIDE DEF Failed, InDoubt
    <2> QED
      BY <1>4, <2>6, <2>1, <2>2, <2>3, <2>4, <2>5, OwnerStep
  <1>5. CASE Goto(h, "recover") /\ UNCHANGED row
    BY <1>4, <1>5 DEF Goto
  <1>6. CASE UNCHANGED row /\ req' = [req EXCEPT ![h] = InDoubt]
    BY <1>4, <1>6
  <1>7. ASSUME NEW d \in RowId, Fresh(d), Insert(d, req[h]),
               req[h].target = None \/ Replaceable(req[h].target, req[h]),
               NEW r \in Request, req' = [req EXCEPT ![h] = r],
               Clear(r) \/ r = InDoubt
        PROVE  FileInv'
    BY <1>1, <1>3, <1>7, InsertFiles
  <1>8. ASSUME NEW d \in RowId
        PROVE  /\ [Idle EXCEPT !.pc = "load", !.op = "upload", !.row = d] \in Request
               /\ Clear([Idle EXCEPT !.pc = "load", !.op = "upload", !.row = d])
    BY UploadAssumption DEF Clear, Idle, Nothing, Request, Step
  <1>9. /\ [Idle EXCEPT !.reply = "saved"] \in Request
        /\ Clear([Idle EXCEPT !.reply = "saved"])
    BY UploadAssumption DEF Clear, Idle, Nothing, Request, Step
  <1>10. CASE /\ req[h].target = None \/ Replaceable(req[h].target, req[h])
              /\ \E d \in RowId :
                   /\ Fresh(d) /\ Insert(d, req[h])
                   /\ \/ req' = [req EXCEPT ![h] = [Idle EXCEPT !.pc = "load",
                                                   !.op = "upload", !.row = d]]
                      \/ req' = [req EXCEPT ![h] = [Idle EXCEPT !.reply = "saved"]]
                      \/ req' = [req EXCEPT ![h] = InDoubt]
    BY <1>3, <1>7, <1>8, <1>9, <1>10
  <1> QED
    BY <1>5, <1>6, <1>10 DEF Commit, Answer

\* The environment removes no file; after a crash nobody remembers one.
LEMMA EnvironmentFiles ==
  ASSUME TypeInv, FileInv, Invalidate \/ Crash \/ Damage \/ UNCHANGED vars
  PROVE  FileInv'
  <1>1. RowsStay
    BY OtherRowsStay DEF Crash, Damage, vars
  <1>2. \A k \in Handler : req'[k] = req[k] \/ Clear(req'[k])
    <2>1. Clear(Idle)
      BY UploadAssumption DEF Clear, Idle, Nothing
    <2> QED
      BY <2>1 DEF Invalidate, Crash, Damage, vars
  <1>3. FilesStay
    <2>1. CASE UNCHANGED file
      BY <2>1, UnchangedFiles
    <2>2. CASE Damage
      <3>1. PICK f \in FileName : /\ file[f] = "installed"
                                  /\ file' = [file EXCEPT ![f] = "damaged"]
        BY <2>2 DEF Damage
      <3>2. \A g \in FileName : file'[g] = IF g = f THEN "damaged" ELSE file[g]
        BY <3>1 DEF TypeInv, UploadTypeOK
      <3>3. \A e \in RowId : Exists(e) => row[e].file \in FileName
        BY FileOfRow
      <3>4. \A k \in Handler : req[k].pc = "commit" => req[k].file \in FileName
        BY DEF TypeInv, UploadKnown
      <3> QED
        BY <3>1, <3>2, <3>3, <3>4 DEF FilesStay, FileInv, RowKeepsItsFile, FilesInUse
    <2> QED
      BY <2>1, <2>2 DEF Invalidate, Crash, vars
  <1> QED
    BY <1>1, <1>2, <1>3, QuietStep

LEMMA FileStep == TypeInv /\ LinkInv /\ FileInv /\ [Next]_vars => FileInv'
  <1> SUFFICES ASSUME TypeInv, LinkInv, FileInv, [Next]_vars PROVE FileInv'
    OBVIOUS
  <1>1. ASSUME NEW h \in Handler, Begin(h) \/ Serve(h)
        PROVE  FileInv'
    <2>1. CASE Begin(h)
      BY <2>1, BeginFiles, BeginDeleteFiles DEF Begin
    <2>2. CASE Serve(h)
      BY <2>2, StoreFiles, CommitFiles, RecoverFiles, PostProcessingFiles,
         DeleteRowFiles, UnlinkFiles DEF Serve
    <2> QED
      BY <1>1, <2>1, <2>2
  <1> QED
    BY <1>1, EnvironmentFiles DEF Next

\* No clean-up, by the attempt that failed or by another attempt with the same
\* upload ID, takes the file of a committed row away, even when nobody knows
\* whether the COMMIT succeeded; only the deletion of the row does.
THEOREM RowsKeepTheirFiles == Spec => []RowKeepsItsFile
  <1>1. TypeInv /\ LinkInv /\ [Next]_vars => LinkInv'
    BY StepsOfTheTable, LinkKept
  <1>2. FileInv => RowKeepsItsFile
    BY DEF FileInv
  <1> QED
    BY <1>1, <1>2, LinkInit, FileInit, FileStep, TypeInvariant, PTL DEF Spec

-----------------------------------------------------------------------------
(* What the answers of an upload promise. *)

Honest(h) ==
  req[h].pc \in {"commit", "recover"} /\ req'[h].pc = "idle" =>
    /\ req'[h].reply = "failed" /\ req[h].file # Nothing =>
         \A d \in RowId : row'[d].file # req[h].file
    /\ req'[h].reply = "saved" =>
         \E d \in RowId : /\ row'[d].uid = req[h].uid
                          /\ row'[d].payload = req[h].payload
                          /\ req[h].pc = "recover" =>
                               file'[row'[d].file] = "installed"

\* The reply of an answered request.
LEMMA AnswerReplies ==
  ASSUME TypeInv, NEW h \in Handler, NEW reply \in Replies, Answer(h, reply)
  PROVE  req'[h].pc = "idle" /\ req'[h].reply = reply
  BY DEF Answer, TypeInv, UploadTypeOK, Idle

LEMMA CommitIsHonest ==
  ASSUME TypeInv, FileInv, NEW h \in Handler, Commit(h)
  PROVE  Honest(h)
  <1> SUFFICES ASSUME req'[h].pc = "idle"
               PROVE  \E d \in RowId : Insert(d, req[h]) /\ Answer(h, "saved")
    <2>1. ASSUME NEW d \in RowId, Insert(d, req[h]), Answer(h, "saved")
          PROVE  Honest(h)
      <3>1. row'[d].uid = req[h].uid /\ row'[d].payload = req[h].payload
        BY <2>1, InsertedRows, InsertedRow
      <3>2. req'[h].reply = "saved" /\ req[h].pc = "commit"
        BY <2>1, AnswerReplies DEF Commit, Replies
      <3> QED
        BY <3>1, <3>2 DEF Honest
    <2> QED
      BY <2>1 DEF Honest
  <1>1. ~Goto(h, "recover")
    BY DEF Goto, TypeInv, UploadTypeOK, Request
  <1>2. req' # [req EXCEPT ![h].pc = "recover", ![h].committing = TRUE]
    BY DEF TypeInv, UploadTypeOK, Request
  <1>3. ASSUME NEW d \in RowId
        PROVE  req' # [req EXCEPT ![h] = [Idle EXCEPT !.pc = "load",
                                                 !.op = "upload", !.row = d]]
    <2>1. [Idle EXCEPT !.pc = "load", !.op = "upload", !.row = d].pc = "load"
      BY DEF Idle
    <2> QED
      BY <2>1 DEF TypeInv, UploadTypeOK
  <1> QED
    BY <1>1, <1>2, <1>3 DEF Commit

LEMMA RecoverIsHonest ==
  ASSUME TypeInv, FileInv, NEW h \in Handler, Recover(h)
  PROVE  Honest(h)
  <1>1. req[h].pc = "recover" /\ UNCHANGED row
    BY DEF Recover
  <1>2. CASE /\ CleanUp(h)
             /\ Answer(h, IF req[h].committing THEN "unknown" ELSE "failed")
    <2>1. CASE req[h].committing
      BY <1>2, <2>1, AnswerReplies DEF Honest, Replies
    <2>2. CASE ~req[h].committing
      <3>1. req'[h].reply = "failed"
        BY <1>2, <2>2, AnswerReplies DEF Replies
      <3>2. \A d \in RowId : Exists(d) => row[d].file # req[h].file
        BY <1>1, <2>2 DEF FileInv, OwnFile, Mentions
      <3>3. \A d \in RowId : ~Exists(d) => row[d].file = Nothing
        BY DEF TypeInv, UploadTypeOK, Exists, Row, NoRow
      <3> QED
        BY <1>1, <3>1, <3>2, <3>3 DEF Honest
    <2> QED
      BY <2>1, <2>2
  <1>3. ASSUME NEW d \in RowOf(req[h].uid)
        PROVE  d \in RowId /\ row[d].uid = req[h].uid
    BY DEF RowOf
  <1>4. ASSUME NEW reply \in {"conflict", "none"}, Answer(h, reply)
        PROVE  Honest(h)
    BY <1>4, AnswerReplies DEF Honest, Replies
  <1>5. ASSUME NEW d \in RowOf(req[h].uid), Matches(d, req[h].payload, req[h].target),
               Readable(d), PostProcess(h, "upload", d),
               UNCHANGED file \/ (row[d].file # req[h].file /\ RemoveOwnFile(h))
        PROVE  Honest(h)
    <2>1. row'[d].uid = req[h].uid /\ row'[d].payload = req[h].payload
      BY <1>1, <1>3, <1>5 DEF Matches
    <2>2. Exists(d) /\ row[d].file \in FileName
      BY FileOfRow DEF RowOf
    <2>3. file'[row'[d].file] = "installed"
      BY <1>1, <1>5, <2>2 DEF Readable, RemoveOwnFile, TypeInv, UploadTypeOK
    <2>4. req'[h].pc = "idle" => req'[h].reply # "failed"
      <3>1. CASE Answer(h, "saved")
        BY <3>1, AnswerReplies DEF Replies
      <3>2. CASE ~Answer(h, "saved")
        <4>1. req' = [req EXCEPT ![h] = [Idle EXCEPT !.pc = "load", !.op = "upload", !.row = d]]
          BY <1>5, <3>2 DEF PostProcess
        <4>2. [Idle EXCEPT !.pc = "load", !.op = "upload", !.row = d].pc = "load"
          BY DEF Idle
        <4> QED
          BY <4>1, <4>2 DEF TypeInv, UploadTypeOK
      <3> QED
        BY <3>1, <3>2
    <2> QED
      BY <1>3, <2>1, <2>3, <2>4 DEF Honest
  <1> QED
    BY <1>1, <1>2, <1>3, <1>4, <1>5 DEF Recover

\* Every other step answers no upload out of the write or the reconciliation.
LEMMA StepIsHonest ==
  ASSUME TypeInv, FileInv, [Next]_vars, NEW h \in Handler
  PROVE  Honest(h)
  <1>1. CASE UNCHANGED req[h]
    BY <1>1 DEF Honest
  <1>2. ASSUME NEW k \in Handler, Begin(k) \/ Serve(k)
        PROVE  Honest(h)
    <2>1. CASE k = h
      <3>1. CASE Commit(h) \/ Recover(h)
        BY <3>1, CommitIsHonest, RecoverIsHonest
      <3>2. CASE req[h].pc \notin {"commit", "recover"}
        BY <3>2 DEF Honest
      <3> QED
        BY <1>2, <2>1, <3>1, <3>2 DEF Begin, Serve, BeginUpload, BeginRetry, BeginDelete,
           Store, Load, Apply, Record, Cancel, DeleteRow, Unlink
    <2>2. CASE k # h
      <3>1. \E r : req' = [req EXCEPT ![k] = r]
        BY <1>2 DEF Begin, Serve, BeginUpload, BeginRetry, BeginDelete, Store, Commit,
           Recover, Load, Apply, Record, Cancel, DeleteRow, Unlink, PostProcess, Goto,
           Answer, Saved
      <3> QED
        BY <1>1, <2>2, <3>1 DEF TypeInv, UploadTypeOK
    <2> QED
      BY <2>1, <2>2
  <1>3. CASE Crash
    <2>1. req'[h].reply = "none"
      BY <1>3 DEF Crash, Idle
    <2> QED
      BY <2>1 DEF Honest
  <1>4. CASE Invalidate \/ Damage \/ UNCHANGED vars
    BY <1>1, <1>4 DEF Invalidate, Damage, vars
  <1> QED
    BY <1>2, <1>3, <1>4 DEF Next

\* An upload that fails leaves no row with its file, and one that is saved has
\* a row with its own payload, with a file the reconciliation found readable.
THEOREM AnswersAreHonest == Spec => AnswerIsHonest
  <1>1. TypeInv /\ LinkInv /\ [Next]_vars => LinkInv'
    BY StepsOfTheTable, LinkKept
  <1>2. TypeInv /\ FileInv /\ [Next]_vars => [\A h \in Handler : Honest(h)]_vars
    BY StepIsHonest
  <1>3. AnswerIsHonest <=> [][\A h \in Handler : Honest(h)]_vars
    BY DEF AnswerIsHonest, Honest
  <1> QED
    BY <1>1, <1>2, <1>3, LinkInit, FileInit, FileStep, TypeInvariant, PTL DEF Spec
=============================================================================
