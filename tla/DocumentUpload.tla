--------------------------- MODULE DocumentUpload ---------------------------
(***************************************************************************)
(* The server side of a durable document upload: the request handlers of   *)
(* services/document_service.py (upload, lookup by upload ID, retry of the *)
(* post-processing, delete) running in the threads of the API server, the  *)
(* rows of the table "documents", the files they name and the missionary   *)
(* data the post-processing derives from them.                             *)
(*                                                                         *)
(* SQLite has one writer at a time, so a write transaction, from its first *)
(* UPDATE or INSERT to COMMIT, is one step; everything a handler reads     *)
(* outside such a transaction may be stale when it is used.                *)
(*                                                                         *)
(* One missionary is modelled: every filter on missionary_id holds.  A     *)
(* payload stands for the bytes and the metadata an upload is compared by  *)
(* (_assert_upload_matches): type, stage, checksum, size, OCR data, notes. *)
(***************************************************************************)
EXTENDS Naturals

CONSTANTS
  Handler,          \* threads that serve requests
  UploadId,         \* the UUIDs chosen by the clients
  FileName,         \* destination names (a UUID per attempt, never reused)
  ProrrogaPayload,  \* payloads of type APROBACION_DE_PRORROGA
  CitaPayload,      \* payloads of an appointment type, with confirmed OCR data
  PlainPayload,     \* payloads that need no post-processing
  MaxRow,           \* bound on row IDs
  MaxCrash,         \* bound on server crashes
  MaxDamage         \* bound on committed files that become unreadable

ASSUME UploadAssumption ==
  /\ MaxRow \in Nat /\ MaxCrash \in Nat /\ MaxDamage \in Nat
  /\ "nothing" \notin UploadId \cup FileName
  /\ "nothing" \notin ProrrogaPayload \cup CitaPayload \cup PlainPayload
  /\ ProrrogaPayload \cap CitaPayload = {}
  /\ (ProrrogaPayload \cup CitaPayload) \cap PlainPayload = {}

Payload == ProrrogaPayload \cup CitaPayload \cup PlainPayload
NeedsPostProcessing(p) == p \in ProrrogaPayload \cup CitaPayload
SameType(p, q) == \E type \in {ProrrogaPayload, CitaPayload, PlainPayload} :
                    p \in type /\ q \in type

None == 0                       \* no row: a NULL reference
RowId == 1..MaxRow
MaxProrrogas == 2
Slot == 1..MaxProrrogas
Free == MaxRow + 1              \* no event of that sequence number yet
Nothing == "nothing"            \* no upload ID, payload or file

RetryState == {"PENDING", "RETRY_REQUIRED"}
PostState == RetryState \cup {"NOT_REQUIRED", "COMPLETE", "CANCELLED"}

VARIABLES
  row,      \* the table: row[d] is a record, or NoRow
  file,     \* file[f]: "unused", "installed", "damaged" or "removed"
  slot,     \* residency_events: Free, or APPROVED for a row (None: cleared)
  field,    \* the missionary's appointment date and its field_sources entry
  req,      \* req[h]: the request handler h serves
  crashes,  \* number of crashes so far
  damages   \* number of files damaged so far

vars == <<row, file, slot, field, req, crashes, damages>>

NoRow == [status |-> "ABSENT", uid |-> Nothing, payload |-> Nothing,
          post |-> "NOT_REQUIRED", file |-> Nothing, sup |-> None,
          asked |-> None, runs |-> 0]

\* Two observers: asked, the replacement target the row was uploaded with, and
\* runs, how often the row's data was applied (2: more than once).
Row == [status : {"ACTIVE", "SUPERSEDED", "STALE"}, uid : UploadId,
        payload : Payload, post : PostState, file : FileName,
        sup : RowId \cup {None}, asked : RowId \cup {None}, runs : 0..2]

\* pc: the next step of the handler; file: the file it installed or is to
\* unlink; row: the row it found, created or is to delete; data: the confirmed
\* data it read from the row; reply: its last answer ("none" stands for the
\* answers that no property tells apart).
Idle == [pc |-> "idle", op |-> "none", uid |-> Nothing, payload |-> Nothing,
         target |-> None, file |-> Nothing, committing |-> FALSE,
         row |-> None, data |-> Nothing, reply |-> "none"]

Step == {"idle", "store", "commit", "recover", "load", "apply", "record",
         "cancel", "delete", "unlink"}

Request == [pc : Step, op : {"none", "upload", "retry", "delete"},
            uid : UploadId \cup {Nothing}, payload : Payload \cup {Nothing},
            target : RowId \cup {None}, file : FileName \cup {Nothing},
            committing : BOOLEAN, row : RowId \cup {None},
            data : Payload \cup {Nothing},
            reply : {"none", "saved", "conflict", "failed", "unknown"}]

Exists(d) == d \in RowId /\ row[d].status # "ABSENT"
RowOf(u) == {d \in RowId : Exists(d) /\ row[d].uid = u}

\* SQLite gives a new row the largest row ID in use plus one: the ID of a
\* deleted last row is given out again.
Fresh(d) == /\ d \in RowId
            /\ \A e \in RowId : Exists(e) => e < d
            /\ d > 1 => Exists(d - 1)

Readable(d) == file[row[d].file] = "installed"

\* Mutant of Matches: any row of the upload ID is taken for the upload.
MatchesAny(d, payload, target) == TRUE

\* get_document_by_upload_id finds a row that _assert_upload_matches accepts.
\* The replacement target is compared with what the row says now.
Matches(d, payload, target) == row[d].payload = payload /\ row[d].sup = target

Init ==
  /\ row = [d \in RowId |-> NoRow]
  /\ file = [f \in FileName |-> "unused"]
  /\ slot = [s \in Slot |-> Free]
  /\ field = [value |-> Nothing, source |-> None]
  /\ req = [h \in Handler |-> Idle]
  /\ crashes = 0
  /\ damages = 0

-----------------------------------------------------------------------------
(* Answers *)

Goto(h, step) == req' = [req EXCEPT ![h].pc = step]
Answer(h, reply) == req' = [req EXCEPT ![h] = [Idle EXCEPT !.reply = reply]]

\* _run_post_processing_best_effort: go on only from a retryable status.
PostProcess(h, op, d) ==
  IF row[d].post \in RetryState
  THEN req' = [req EXCEPT ![h] = [Idle EXCEPT !.pc = "load", !.op = op, !.row = d]]
  ELSE Answer(h, "saved")

-----------------------------------------------------------------------------
(* Requests *)

\* The upload ID is looked up first: a row that has it answers the upload.
\* The client read its replacement target from the server, before this request
\* or before an earlier one with the same upload ID.
BeginUpload(h) ==
  /\ req[h].pc = "idle"
  /\ \E u \in UploadId, p \in Payload, t \in RowId \cup {None} :
       /\ t = None \/ Exists(t) \/ \E d \in RowOf(u) : row[d].asked = t
       /\ \/ /\ RowOf(u) = {}
             /\ req' = [req EXCEPT ![h] = [Idle EXCEPT !.pc = "store",
                          !.op = "upload", !.uid = u, !.payload = p, !.target = t]]
          \/ \E d \in RowOf(u) :
               IF ~Matches(d, p, t) THEN Answer(h, "conflict")
               ELSE IF ~Readable(d) THEN Answer(h, "none")
               ELSE PostProcess(h, "upload", d)
  /\ UNCHANGED <<row, file, slot, field, crashes, damages>>

\* The lookup of an upload (GET /v1/document-uploads/{upload_id}) and the retry
\* of a document's follow-up (POST /v1/documents/{id}/retry-post-processing)
\* find a row, verify its file and finish its post-processing.
BeginRetry(h) ==
  /\ req[h].pc = "idle"
  /\ \E d \in RowId :
       /\ Exists(d)
       /\ IF Readable(d) THEN PostProcess(h, "retry", d) ELSE Answer(h, "none")
  /\ UNCHANGED <<row, file, slot, field, crashes, damages>>

\* delete_document_by_id reads the row, and the file to unlink with it.
BeginDelete(h) ==
  /\ req[h].pc = "idle"
  /\ \E d \in RowId :
       /\ Exists(d)
       /\ req' = [req EXCEPT ![h] = [Idle EXCEPT !.pc = "delete",
                        !.op = "delete", !.row = d, !.file = row[d].file]]
  /\ UNCHANGED <<row, file, slot, field, crashes, damages>>

-----------------------------------------------------------------------------
(* Upload *)

\* Staging copy, checksum, fsync and os.replace onto a fresh name.  The copy
\* may fail before the name exists, the flush after it does.
Store(h) ==
  /\ req[h].pc = "store"
  /\ \/ /\ Goto(h, "recover")
        /\ UNCHANGED file
     \/ \E f \in FileName, ok \in BOOLEAN :
          /\ file[f] = "unused"
          /\ file' = [file EXCEPT ![f] = "installed"]
          /\ req' = [req EXCEPT ![h].file = f,
                                ![h].pc = IF ok THEN "commit" ELSE "recover"]
  /\ UNCHANGED <<row, slot, field, crashes, damages>>

\* Mutant of NewRow: the path is not recorded.
NewRowWithoutFile(r) ==
  [status |-> "ACTIVE", uid |-> r.uid, payload |-> r.payload, post |-> "PENDING",
   file |-> Nothing, sup |-> r.target, asked |-> r.target, runs |-> 0]

\* What the INSERT writes.
NewRow(r) ==
  [status |-> "ACTIVE", uid |-> r.uid, payload |-> r.payload,
   post |-> IF NeedsPostProcessing(r.payload) THEN "PENDING" ELSE "NOT_REQUIRED",
   file |-> r.file, sup |-> r.target, asked |-> r.target, runs |-> 0]

\* Mutant of Retire: the unfinished post-processing is not cancelled.
RetireOnly(o) == [o EXCEPT !.status = "SUPERSEDED"]

\* What the two UPDATEs that replace a row write.
Retire(o) == [o EXCEPT !.status = "SUPERSEDED",
                       !.post = IF @ \in RetryState THEN "CANCELLED" ELSE @]

\* Mutant of Replaceable: the UPDATE does not ask for an ACTIVE row.
ReplaceableAny(t, r) == Exists(t) /\ SameType(row[t].payload, r.payload)

Replaceable(t, r) == /\ Exists(t)
                     /\ row[t].status = "ACTIVE"
                     /\ SameType(row[t].payload, r.payload)

\* Mutant of Insert: the retirement of the old row is committed by itself.
RetireFirst(d, r) ==
  row' = [e \in RowId |-> IF e = r.target THEN Retire(row[e])
                          ELSE IF e = d /\ r.target = None THEN NewRow(r)
                          ELSE row[e]]

Insert(d, r) ==
  row' = [e \in RowId |-> IF e = d THEN NewRow(r)
                          ELSE IF e = r.target THEN Retire(row[e])
                          ELSE row[e]]

\* The write transaction.  It fails before COMMIT when the replacement target
\* is stale, when the unique index has the upload ID already, or when the lock
\* is not had in time; COMMIT itself may raise, having committed or not.
Commit(h) ==
  /\ req[h].pc = "commit"
  /\ \/ /\ Goto(h, "recover")
        /\ UNCHANGED row
     \/ /\ RowOf(req[h].uid) = {}
        /\ req[h].target = None \/ Replaceable(req[h].target, req[h])
        /\ \/ \E d \in RowId :
               /\ Fresh(d)
               /\ Insert(d, req[h])
               /\ \/ IF NeedsPostProcessing(req[h].payload)
                     THEN req' = [req EXCEPT ![h] = [Idle EXCEPT !.pc = "load",
                                                 !.op = "upload", !.row = d]]
                     ELSE Answer(h, "saved")
                  \/ req' = [req EXCEPT ![h].pc = "recover", ![h].committing = TRUE]
           \/ /\ req' = [req EXCEPT ![h].pc = "recover", ![h].committing = TRUE]
              /\ UNCHANGED row
  /\ UNCHANGED <<file, slot, field, crashes, damages>>

\* _remove_failed_upload_path; the unlink may fail, which is only logged.
RemoveOwnFile(h) ==
  \/ UNCHANGED file
  \/ /\ req[h].file # Nothing
     /\ file' = [file EXCEPT ![req[h].file] = "removed"]

\* Mutant of CleanUp: the file goes even if COMMIT may have succeeded.
CleanUpAlways(h) == RemoveOwnFile(h)

\* An attempt whose COMMIT was issued leaves its file alone.
CleanUp(h) == IF req[h].committing THEN UNCHANGED file ELSE RemoveOwnFile(h)

\* The reconciliation that follows every failure.  It finds no row of the
\* upload ID, or cannot look: the outcome is unknown once COMMIT was issued.
Recover(h) ==
  /\ req[h].pc = "recover"
  /\ \/ /\ CleanUp(h)
        /\ Answer(h, IF req[h].committing THEN "unknown" ELSE "failed")
     \/ \E d \in RowOf(req[h].uid) :
          IF ~Matches(d, req[h].payload, req[h].target)
          THEN CleanUp(h) /\ Answer(h, "conflict")
          ELSE IF ~Readable(d)
          THEN UNCHANGED file /\ Answer(h, "none")
          ELSE /\ IF row[d].file = req[h].file THEN UNCHANGED file
                                               ELSE RemoveOwnFile(h)
               /\ PostProcess(h, "upload", d)
  /\ UNCHANGED <<row, slot, field, crashes, damages>>

-----------------------------------------------------------------------------
(* Post-processing *)

\* Whatever the post-processing does, the upload stays saved: its failures are
\* logged and the caller answers with the record.
Saved(h) == Answer(h, "saved")

\* retry_document_post_processing, up to the close of its read session.
Load(h) ==
  LET d == req[h].row IN
  /\ req[h].pc = "load"
  /\ IF ~Exists(d) \/ row[d].post \notin RetryState THEN Saved(h)
     ELSE IF row[d].status # "ACTIVE" THEN Goto(h, "cancel")
     ELSE IF ~Readable(d) THEN Saved(h)
     ELSE req' = [req EXCEPT ![h].pc = "apply", ![h].data = row[d].payload]
  /\ UNCHANGED <<row, file, slot, field, crashes, damages>>

\* approve_next_prorroga_in_session: the slot this document has already, or
\* the first free one; none when both belong to other documents.
Approve(d) ==
  IF \E s \in Slot : slot[s] = d THEN UNCHANGED slot
  ELSE \/ \E s \in Slot : /\ slot[s] = Free
                          /\ \A e \in Slot : e < s => slot[e] # Free
                          /\ slot' = [slot EXCEPT ![s] = d]
       \/ /\ \A s \in Slot : slot[s] # Free
          /\ UNCHANGED slot

\* Mutants of Claimable: the claim asks for the status only, or does not ask
\* for it.
ClaimableDone(d) == Exists(d) /\ row[d].status = "ACTIVE"
ClaimableStale(d) == Exists(d) /\ row[d].post \in RetryState

\* apply_missionary_updates with track_post_processing: claim the row, write
\* the missionary's data, mark the row COMPLETE, all in one transaction.  The
\* stored row decides the type; the data is what Load read, and has no value
\* for the fields of another type.
Claimable(d) == /\ Exists(d)
                /\ row[d].status = "ACTIVE"
                /\ row[d].post \in RetryState

ApplyUpdates(d, data) ==
  /\ row' = [row EXCEPT ![d].post = "COMPLETE",
                        ![d].runs = IF @ < 2 THEN @ + 1 ELSE @]
  /\ field' = IF row[d].payload \in CitaPayload /\ data \in CitaPayload
              THEN [value |-> data, source |-> d] ELSE field
  /\ IF row[d].payload \in ProrrogaPayload THEN Approve(d) ELSE UNCHANGED slot

Apply(h) ==
  LET d == req[h].row IN
  /\ req[h].pc = "apply"
  /\ \/ /\ ~Claimable(d)               \* PostProcessingClaimUnavailableError
        /\ Saved(h)
        /\ UNCHANGED <<row, slot, field>>
     \/ /\ Claimable(d)
        /\ ApplyUpdates(d, req[h].data)
        /\ Saved(h) \/ Goto(h, "record")
     \/ /\ Goto(h, "record")           \* raised and rolled back
        /\ UNCHANGED <<row, slot, field>>
  /\ UNCHANGED <<file, crashes, damages>>

\* Mutant of Record: the failed post-processing is tried again at once.
RecordAndRetry(h) ==
  /\ req[h].pc = "record"
  /\ Goto(h, "load")
  /\ UNCHANGED <<row, file, slot, field, crashes, damages>>

\* _record_post_processing_failure; it may itself fail, which is only logged.
Record(h) ==
  LET d == req[h].row IN
  /\ req[h].pc = "record"
  /\ Saved(h)
  /\ \/ UNCHANGED row
     \/ /\ Exists(d)
        /\ row[d].post \in RetryState
        /\ row' = [row EXCEPT ![d].post =
                     IF row[d].status = "ACTIVE" THEN "RETRY_REQUIRED"
                     ELSE "CANCELLED"]
  /\ UNCHANGED <<file, slot, field, crashes, damages>>

\* _cancel_inactive_post_processing
Cancel(h) ==
  LET d == req[h].row IN
  /\ req[h].pc = "cancel"
  /\ Saved(h)
  /\ \/ UNCHANGED row
     \/ /\ Exists(d)
        /\ row[d].status # "ACTIVE"
        /\ row[d].post \in RetryState
        /\ row' = [row EXCEPT ![d].post = "CANCELLED"]
  /\ UNCHANGED <<file, slot, field, crashes, damages>>

-----------------------------------------------------------------------------
(* Delete *)

\* Mutant of ClearSlots: the events keep the ID of the deleted row.
KeepSlots(d) == slot

ClearSlots(d) == [s \in Slot |-> IF slot[s] = d THEN None ELSE slot[s]]

\* _delete_document_record: one transaction clears the residency events that
\* name the row and deletes the row of that ID, if there is one still; ON DELETE
\* SET NULL clears the references of its successors.
DeleteRow(h) ==
  LET d == req[h].row IN
  /\ req[h].pc = "delete"
  /\ \/ /\ Answer(h, "failed")
        /\ UNCHANGED <<row, slot>>
     \/ /\ row' = [e \in RowId |->
                     IF e = d THEN NoRow
                     ELSE IF row[e].sup = d THEN [row[e] EXCEPT !.sup = None]
                     ELSE row[e]]
        /\ slot' = ClearSlots(d)
        /\ Goto(h, "unlink")
  /\ UNCHANGED <<file, field, crashes, damages>>

\* The file goes after the row; if it cannot be removed it stays behind.
Unlink(h) ==
  /\ req[h].pc = "unlink"
  /\ RemoveOwnFile(h)
  /\ Answer(h, "none")
  /\ UNCHANGED <<row, slot, field, crashes, damages>>

-----------------------------------------------------------------------------
(* Environment *)

\* AppointmentService._invalidate_documents: a missed appointment makes its
\* documents STALE, whatever their post-processing.
Invalidate ==
  /\ \E d \in RowId : row[d].status = "ACTIVE" /\ row[d].payload \in CitaPayload
  /\ row' = [d \in RowId |->
               IF row[d].status = "ACTIVE" /\ row[d].payload \in CitaPayload
               THEN [row[d] EXCEPT !.status = "STALE"] ELSE row[d]]
  /\ UNCHANGED <<file, slot, field, req, crashes, damages>>

\* The process dies: every handler is gone, what is committed or installed
\* stays.
Crash ==
  /\ crashes < MaxCrash
  /\ \E h \in Handler : req[h].pc # "idle"
  /\ crashes' = crashes + 1
  /\ req' = [h \in Handler |-> Idle]
  /\ UNCHANGED <<row, file, slot, field, damages>>

\* An installed file is truncated, edited or no longer readable.
Damage ==
  /\ damages < MaxDamage
  /\ \E f \in FileName : /\ file[f] = "installed"
                         /\ file' = [file EXCEPT ![f] = "damaged"]
  /\ damages' = damages + 1
  /\ UNCHANGED <<row, slot, field, req, crashes>>

Begin(h) == BeginUpload(h) \/ BeginRetry(h) \/ BeginDelete(h)

Serve(h) == \/ Store(h) \/ Commit(h) \/ Recover(h)
            \/ Load(h) \/ Apply(h) \/ Record(h) \/ Cancel(h)
            \/ DeleteRow(h) \/ Unlink(h)

Next == \/ \E h \in Handler : Begin(h) \/ Serve(h)
        \/ Invalidate
        \/ Crash
        \/ Damage

\* A handler's thread keeps running until it has answered.
Fairness == \A h \in Handler : WF_vars(Serve(h))

Spec == Init /\ [][Next]_vars /\ Fairness

-----------------------------------------------------------------------------
(* Properties *)

\* Type invariant: the shapes of the tables, the files and the requests.
UploadTypeOK ==
  /\ row \in [RowId -> Row \cup {NoRow}]
  /\ file \in [FileName -> {"unused", "installed", "damaged", "removed"}]
  /\ slot \in [Slot -> RowId \cup {None, Free}]
  /\ field \in [value : CitaPayload \cup {Nothing}, source : RowId \cup {None}]
  /\ req \in [Handler -> Request]
  /\ crashes \in 0..MaxCrash
  /\ damages \in 0..MaxDamage

\* A committed row names a file that was installed before it and that nothing
\* but the row's own deletion removes: not the clean-up of the attempt that
\* committed it, nor that of another attempt with the same upload ID.
RowKeepsItsFile ==
  \A d \in RowId : Exists(d) =>
    /\ file[row[d].file] \in {"installed", "damaged"}
    /\ \A e \in RowId : Exists(e) /\ row[e].file = row[d].file => e = d

\* Concurrent and repeated attempts with one upload ID leave one row, and two
\* replacements of the same document cannot both win: a row that names a
\* replaced row is its only successor and the replaced row is retired.
OneRowPerUpload ==
  \A d, e \in RowId : Exists(d) /\ Exists(e) =>
    /\ row[d].uid = row[e].uid => d = e
    /\ row[d].sup = e => row[e].status = "SUPERSEDED"
    /\ row[d].sup # None /\ row[d].sup = row[e].sup => d = e

\* The post-processing of a row commits its data and COMPLETE together: the
\* data of a row was applied exactly once if it is COMPLETE and never
\* otherwise, whatever crashes, failures and concurrent retries came before.
AppliedOnce ==
  \A d \in RowId :
    row[d].runs = IF row[d].post = "COMPLETE" THEN 1 ELSE 0

\* A replaced row is final: no retry of its post-processing is possible once
\* the replacement has committed.
ReplacedIsFinal ==
  \A d \in RowId : row[d].status = "SUPERSEDED" => row[d].post \notin RetryState

\* An approved prorroga that names a document names a COMPLETE one of that
\* type, no document holds both, and the first is approved before the second.
SlotsAreEarned ==
  /\ \A s \in Slot : slot[s] \in RowId =>
       /\ row[slot[s]].post = "COMPLETE"
       /\ row[slot[s]].payload \in ProrrogaPayload
       /\ \A e \in Slot : slot[e] = slot[s] => e = s
  /\ \A s, e \in Slot : e < s /\ slot[s] # Free => slot[e] # Free

\* An upload that answers "failed" left no row with its file behind, so that its
\* client may send it again; one that answers "saved" out of the write or the
\* reconciliation has a row with its own payload, and the reconciliation has
\* found the file of that row readable, whichever attempt installed it.
AnswerIsHonest ==
  [][\A h \in Handler :
       req[h].pc \in {"commit", "recover"} /\ req'[h].pc = "idle" =>
         /\ req'[h].reply = "failed" /\ req[h].file # Nothing =>
              \A d \in RowId : row'[d].file # req[h].file
         /\ req'[h].reply = "saved" =>
              \E d \in RowId : /\ row'[d].uid = req[h].uid
                               /\ row'[d].payload = req[h].payload
                               /\ req[h].pc = "recover" =>
                                    file'[row'[d].file] = "installed"]_vars

\* No document goes out of use through an upload unless, in the same step,
\* its replacement comes into use.
ReplacedBySuccessor ==
  [][\A t \in RowId :
       row[t].status = "ACTIVE" /\ row'[t].status = "SUPERSEDED" =>
         \E d \in RowId : /\ ~Exists(d)
                          /\ row'[d].status = "ACTIVE"
                          /\ row'[d].sup = t]_vars

\* The documents keep the ledger of the upload IDs: UploadLedger says what each
\* upload ID may go through, whatever the handlers and the failures do.
StageOf(u) ==
  IF RowOf(u) = {} THEN "absent"
  ELSE LET d == CHOOSE d \in RowOf(u) : TRUE
           unapplied == row[d].post \in RetryState \cup {"CANCELLED"}
       IN IF row[d].status = "ACTIVE"
          THEN IF unapplied THEN "open" ELSE "done"
          ELSE IF unapplied THEN "void" ELSE "retired"

Ledger == INSTANCE UploadLedger WITH ledger <- [u \in UploadId |-> StageOf(u)]

KeepsLedger == Ledger!Spec

\* Every request is answered, or lost in a crash.
EveryRequestAnswered ==
  \A h \in Handler : req[h].pc # "idle" ~> req[h].pc = "idle"

\* document_service.py:644: missionary data is never derived from a missing
\* committed file.  What is applied for a row is the data of that row.
AppliesOwnData ==
  [][\A h \in Handler :
       LET d == req[h].row IN
       req[h].pc = "apply" /\ row'[d].runs # row[d].runs =>
         req[h].data = row[d].payload]_vars

\* document_service.py:60: "An upload ID was reused for a different document
\* payload."  An upload repeated as it was first sent is not told that.
RepeatIsNoConflict ==
  [][\A h \in Handler :
       req[h].pc = "recover" /\ req'[h].reply = "conflict" =>
         \A d \in RowOf(req[h].uid) : row[d].payload # req[h].payload
                                      \/ row[d].asked # req[h].target]_vars
=============================================================================
