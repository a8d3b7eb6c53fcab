------------------------ MODULE DocumentUploadProofs ------------------------
(***************************************************************************)
(* Proofs about DocumentUpload, for every number of handlers, uploads,     *)
(* files and rows, and for any bounds on crashes and damages: the types,   *)
(* and then the documents table.  Its invariants do not depend on who      *)
(* writes it, so the steps of the specification are first reduced to what  *)
(* they do to the rows and to the residency events.  The last part shows   *)
(* that they keep the ledger of UploadLedger.  DocumentFileProofs builds   *)
(* on this module.                                                         *)
(***************************************************************************)
EXTENDS DocumentUpload, TLAPS

Replies == {"none", "saved", "conflict", "failed", "unknown"}

\* The steps that serve an upload know what is uploaded; a write has its file.
UploadKnown ==
  \A h \in Handler :
    /\ req[h].pc \in {"store", "commit", "recover"} =>
         req[h].uid \in UploadId /\ req[h].payload \in Payload
    /\ req[h].pc = "commit" => req[h].file \in FileName

TypeInv == UploadTypeOK /\ UploadKnown

\* The requests keep their type and know their uploads.
RequestsOK == req \in [Handler -> Request] /\ UploadKnown

-----------------------------------------------------------------------------
(* Requests *)

\* An answered handler is idle, with its reply.
LEMMA AnswerIdles ==
  ASSUME NEW reply \in Replies
  PROVE  /\ [Idle EXCEPT !.reply = reply] \in Request
         /\ [Idle EXCEPT !.reply = reply].pc = "idle"
         /\ [Idle EXCEPT !.reply = reply].file = Nothing
         /\ [Idle EXCEPT !.reply = reply].committing = FALSE
         /\ [Idle EXCEPT !.reply = reply].row = None
  BY DEF Idle, Request, Replies, Step

LEMMA IdleRequest == Idle \in Request /\ Idle.pc = "idle" /\ Idle.file = Nothing
  BY DEF Idle, Request, Step

\* A step of a handler that gives it a known request keeps RequestsOK.
LEMMA OneRequest ==
  ASSUME RequestsOK, NEW h \in Handler, NEW r \in Request,
         r.pc \in {"store", "commit", "recover"} =>
           r.uid \in UploadId /\ r.payload \in Payload,
         r.pc = "commit" => r.file \in FileName,
         req' = [req EXCEPT ![h] = r]
  PROVE  RequestsOK'
  BY DEF RequestsOK, UploadKnown

LEMMA AnswerOK ==
  ASSUME RequestsOK, NEW h \in Handler, NEW reply \in Replies, Answer(h, reply)
  PROVE  RequestsOK'
  BY AnswerIdles, OneRequest DEF Answer

\* Every post-processing step starts from a row, with nothing else remembered.
LEMMA LoadRequest ==
  ASSUME NEW op \in {"upload", "retry"}, NEW d \in RowId
  PROVE  LET r == [Idle EXCEPT !.pc = "load", !.op = op, !.row = d] IN
         r \in Request /\ r.pc = "load" /\ r.file = Nothing
  BY DEF Idle, Request, Step

LEMMA PostProcessOK ==
  ASSUME RequestsOK, NEW h \in Handler, NEW op \in {"upload", "retry"},
         NEW d \in RowId, PostProcess(h, op, d)
  PROVE  RequestsOK'
  BY AnswerOK, LoadRequest, OneRequest DEF PostProcess, Replies

LEMMA GotoOK ==
  ASSUME RequestsOK, NEW h \in Handler, NEW step \in Step \ {"store", "commit"},
         Goto(h, step), step = "recover" => req[h].pc \in {"store", "commit"}
  PROVE  RequestsOK'
  <1> DEFINE r == [req[h] EXCEPT !.pc = step]
  <1>1. r \in Request /\ r.pc = step /\ r.uid = req[h].uid /\ r.payload = req[h].payload
    BY DEF RequestsOK, Request
  <1>2. req' = [req EXCEPT ![h] = r]
    BY DEF Goto
  <1>3. r.pc = "recover" => r.uid \in UploadId /\ r.payload \in Payload
    BY <1>1 DEF RequestsOK, UploadKnown
  <1> QED
    BY <1>1, <1>2, <1>3, OneRequest

-----------------------------------------------------------------------------
(* Rows *)

\* What the write transaction writes are rows.
LEMMA NewRowType ==
  ASSUME NEW r \in Request, r.uid \in UploadId, r.payload \in Payload,
         r.file \in FileName
  PROVE  NewRow(r) \in Row
  BY DEF NewRow, Row, Request, PostState, RetryState

LEMMA RetireType ==
  ASSUME NEW o \in Row
  PROVE  Retire(o) \in Row
  BY DEF Retire, Row, PostState, RetryState

LEMMA StoredRow ==
  ASSUME UploadTypeOK, NEW d, Exists(d)
  PROVE  d \in RowId /\ row[d] \in Row
  BY DEF Exists, UploadTypeOK, NoRow

-----------------------------------------------------------------------------
(* Types *)

LEMMA TypeInit == Init => TypeInv
  <1> SUFFICES ASSUME Init PROVE TypeInv
    OBVIOUS
  <1>1. UploadTypeOK
    BY IdleRequest, UploadAssumption DEF Init, UploadTypeOK
  <1>2. UploadKnown
    BY IdleRequest DEF Init, UploadKnown
  <1> QED
    BY <1>1, <1>2 DEF TypeInv

\* The actions that change the requests only.
LEMMA BeginTypes ==
  ASSUME TypeInv, NEW h \in Handler, Begin(h)
  PROVE  RequestsOK' /\ UNCHANGED <<row, file, slot, field, crashes, damages>>
  <1>1. RequestsOK
    BY DEF TypeInv, UploadTypeOK, RequestsOK
  <1>2. CASE BeginUpload(h)
    <2>1. PICK u \in UploadId, p \in Payload, t \in RowId \cup {None} :
            \/ req' = [req EXCEPT ![h] = [Idle EXCEPT !.pc = "store",
                         !.op = "upload", !.uid = u, !.payload = p, !.target = t]]
            \/ \E d \in RowOf(u) :
                 IF ~Matches(d, p, t) THEN Answer(h, "conflict")
                 ELSE IF ~Readable(d) THEN Answer(h, "none")
                 ELSE PostProcess(h, "upload", d)
      BY <1>2 DEF BeginUpload
    <2> DEFINE r == [Idle EXCEPT !.pc = "store", !.op = "upload", !.uid = u,
                                 !.payload = p, !.target = t]
    <2>2. r \in Request /\ r.pc = "store" /\ r.uid \in UploadId /\ r.payload \in Payload
      BY DEF Idle, Request, Step
    <2>3. RequestsOK'
      BY <1>1, <2>1, <2>2, OneRequest, AnswerOK, PostProcessOK DEF RowOf, Replies
    <2> QED
      BY <1>2, <2>3 DEF BeginUpload
  <1>3. CASE BeginRetry(h)
    BY <1>1, <1>3, AnswerOK, PostProcessOK DEF BeginRetry, Replies
  <1>4. CASE BeginDelete(h)
    <2>1. PICK d \in RowId :
            /\ Exists(d)
            /\ req' = [req EXCEPT ![h] = [Idle EXCEPT !.pc = "delete",
                         !.op = "delete", !.row = d, !.file = row[d].file]]
      BY <1>4 DEF BeginDelete
    <2> DEFINE r == [Idle EXCEPT !.pc = "delete", !.op = "delete", !.row = d,
                                 !.file = row[d].file]
    <2>2. row[d].file \in FileName
      BY <2>1, StoredRow DEF TypeInv, Row
    <2>3. r \in Request /\ r.pc = "delete"
      BY <2>2 DEF Idle, Request, Step
    <2>4. RequestsOK'
      BY <1>1, <2>1, <2>3, OneRequest
    <2> QED
      BY <1>4, <2>4 DEF BeginDelete
  <1> QED
    BY <1>2, <1>3, <1>4 DEF Begin

LEMMA LoadTypes ==
  ASSUME TypeInv, NEW h \in Handler, Load(h)
  PROVE  RequestsOK' /\ UNCHANGED <<row, file, slot, field, crashes, damages>>
  <1> DEFINE d == req[h].row
             r == [req[h] EXCEPT !.pc = "apply", !.data = row[d].payload]
  <1>1. RequestsOK
    BY DEF TypeInv, UploadTypeOK, RequestsOK
  <1>2. \/ Answer(h, "saved")
        \/ Goto(h, "cancel")
        \/ Exists(d) /\ req' = [req EXCEPT ![h].pc = "apply", ![h].data = row[d].payload]
    BY DEF Load, Saved
  <1>3. Exists(d) => r \in Request /\ r.pc = "apply"
    <2>1. Exists(d) => row[d].payload \in Payload
      BY StoredRow DEF TypeInv, Row
    <2> QED
      BY <1>1, <2>1 DEF RequestsOK, Request, Step
  <1>4. CASE Exists(d) /\ req' = [req EXCEPT ![h].pc = "apply", ![h].data = row[d].payload]
    <2>1. req' = [req EXCEPT ![h] = r]
      BY <1>4
    <2> QED
      BY <1>1, <1>3, <1>4, <2>1, OneRequest DEF Load
  <1>5. CASE Answer(h, "saved") \/ Goto(h, "cancel")
    BY <1>1, <1>5, AnswerOK, GotoOK DEF Load, Replies, Step
  <1> QED
    BY <1>2, <1>4, <1>5

LEMMA StoreTypes ==
  ASSUME TypeInv, NEW h \in Handler, Store(h)
  PROVE  TypeInv'
  <1>1. RequestsOK
    BY DEF TypeInv, UploadTypeOK, RequestsOK
  <1>2. CASE Goto(h, "recover") /\ UNCHANGED file
    BY <1>1, <1>2, GotoOK DEF Store, TypeInv, UploadTypeOK, RequestsOK, Step
  <1>3. ASSUME NEW f \in FileName, NEW step \in {"commit", "recover"},
               file' = [file EXCEPT ![f] = "installed"],
               req' = [req EXCEPT ![h].file = f,
                                  ![h].pc = step]
        PROVE  TypeInv'
    <2> DEFINE r == [req[h] EXCEPT !.file = f, !.pc = step]
    <2>1. r \in Request /\ r.file = f /\ r.uid = req[h].uid /\ r.payload = req[h].payload
      <3>1. req[h] \in Request
        BY <1>1 DEF RequestsOK
      <3> QED
        BY <3>1 DEF Request, Step
    <2>2. r.uid \in UploadId /\ r.payload \in Payload
      BY <1>1, <2>1 DEF RequestsOK, UploadKnown, Store
    <2>3. req' = [req EXCEPT ![h] = r]
      BY <1>3
    <2>4. RequestsOK'
      BY <1>1, <2>1, <2>2, <2>3, OneRequest
    <2> QED
      BY <1>3, <2>4 DEF Store, TypeInv, UploadTypeOK, RequestsOK
  <1> QED
    BY <1>2, <1>3 DEF Store

\* The write transaction, whatever its outcome.
LEMMA CommitTypes ==
  ASSUME TypeInv, NEW h \in Handler, Commit(h)
  PROVE  TypeInv'
  <1>1. RequestsOK
    BY DEF TypeInv, UploadTypeOK, RequestsOK
  <1>2. /\ req[h].uid \in UploadId /\ req[h].payload \in Payload
        /\ req[h].file \in FileName /\ req[h] \in Request
    BY DEF Commit, TypeInv, UploadKnown, UploadTypeOK
  <1>3. ASSUME req' = [req EXCEPT ![h].pc = "recover", ![h].committing = TRUE]
        PROVE  RequestsOK'
    <2> DEFINE r == [req[h] EXCEPT !.pc = "recover", !.committing = TRUE]
    <2>1. r \in Request /\ r.pc = "recover" /\ r.uid = req[h].uid /\ r.payload = req[h].payload
      BY <1>2 DEF Request, Step
    <2> QED
      BY <1>1, <1>2, <1>3, <2>1, OneRequest
  <1>4. RequestsOK'
    <2>1. CASE Goto(h, "recover")
      BY <1>1, <2>1, GotoOK DEF Commit, Step
    <2>2. CASE \E d \in RowId :
                 \/ req' = [req EXCEPT ![h] = [Idle EXCEPT !.pc = "load",
                                                 !.op = "upload", !.row = d]]
                 \/ Answer(h, "saved")
      BY <1>1, <2>2, LoadRequest, OneRequest, AnswerOK DEF Replies
    <2> QED
      BY <1>3, <2>1, <2>2 DEF Commit
  <1>5. row' \in [RowId -> Row \cup {NoRow}]
    <2>1. CASE UNCHANGED row
      BY <2>1 DEF TypeInv, UploadTypeOK
    <2>2. CASE \E d \in RowId : Insert(d, req[h]) /\ (req[h].target = None \/ Replaceable(req[h].target, req[h]))
      <3>1. PICK d \in RowId : Insert(d, req[h]) /\ (req[h].target = None \/ Replaceable(req[h].target, req[h]))
        BY <2>2
      <3>2. NewRow(req[h]) \in Row
        BY <1>2, NewRowType
      <3>3. \A e \in RowId : e = req[h].target => Retire(row[e]) \in Row
        BY <3>1, StoredRow, RetireType DEF Replaceable, None, TypeInv, RowId
      <3> QED
        BY <3>1, <3>2, <3>3 DEF Insert, TypeInv, UploadTypeOK
    <2> QED
      BY <2>1, <2>2 DEF Commit
  <1> QED
    BY <1>4, <1>5 DEF Commit, TypeInv, UploadTypeOK, RequestsOK

\* Only a handler's own file is removed.
LEMMA RemoveTypes ==
  ASSUME TypeInv, NEW h \in Handler, UNCHANGED file \/ RemoveOwnFile(h)
  PROVE  file' \in [FileName -> {"unused", "installed", "damaged", "removed"}]
  BY DEF RemoveOwnFile, TypeInv, UploadTypeOK

LEMMA RecoverTypes ==
  ASSUME TypeInv, NEW h \in Handler, Recover(h)
  PROVE  TypeInv'
  <1>1. RequestsOK
    BY DEF TypeInv, UploadTypeOK, RequestsOK
  <1>2. UNCHANGED file \/ RemoveOwnFile(h)
    BY DEF Recover, CleanUp
  <1>3. \/ \E reply \in Replies : Answer(h, reply)
        \/ \E d \in RowId : PostProcess(h, "upload", d)
    <2>1. ASSUME NEW d \in RowOf(req[h].uid), PostProcess(h, "upload", d)
          PROVE  \E e \in RowId : PostProcess(h, "upload", e)
      BY <2>1 DEF RowOf
    <2> QED
      BY <2>1 DEF Recover, Replies
  <1>4. RequestsOK'
    BY <1>1, <1>3, AnswerOK, PostProcessOK
  <1> QED
    BY <1>2, <1>4, RemoveTypes DEF Recover, TypeInv, UploadTypeOK, RequestsOK

LEMMA ApproveTypes ==
  ASSUME TypeInv, NEW d \in RowId, Approve(d) \/ UNCHANGED slot
  PROVE  slot' \in [Slot -> RowId \cup {None, Free}]
  BY DEF Approve, TypeInv, UploadTypeOK

LEMMA ApplyTypes ==
  ASSUME TypeInv, NEW h \in Handler, Apply(h)
  PROVE  TypeInv'
  <1> DEFINE d == req[h].row
  <1>1. RequestsOK
    BY DEF TypeInv, UploadTypeOK, RequestsOK
  <1>2. RequestsOK'
    BY <1>1, AnswerOK, GotoOK DEF Apply, Saved, Replies, Step
  <1>3. CASE UNCHANGED <<row, slot, field>>
    BY <1>2, <1>3 DEF Apply, TypeInv, UploadTypeOK, RequestsOK
  <1>4. CASE Claimable(d) /\ ApplyUpdates(d, req[h].data)
    <2>1. d \in RowId /\ row[d] \in Row
      BY <1>4, StoredRow DEF Claimable, TypeInv
    <2> DEFINE o == [row[d] EXCEPT !.post = "COMPLETE",
                                   !.runs = IF @ < 2 THEN @ + 1 ELSE @]
    <2>2. o \in Row
      <3>1. (IF row[d].runs < 2 THEN row[d].runs + 1 ELSE row[d].runs) \in 0..2
        BY <2>1 DEF Row
      <3> QED
        BY <2>1, <3>1 DEF Row, PostState
    <2>3. row' = [row EXCEPT ![d] = o]
      BY <1>4 DEF ApplyUpdates
    <2>4. row' \in [RowId -> Row \cup {NoRow}]
      BY <2>1, <2>2, <2>3 DEF TypeInv, UploadTypeOK
    <2>5. slot' \in [Slot -> RowId \cup {None, Free}]
      BY <1>4, <2>1, ApproveTypes DEF ApplyUpdates
    <2>6. field' \in [value : CitaPayload \cup {Nothing}, source : RowId \cup {None}]
      BY <1>4, <2>1 DEF ApplyUpdates, TypeInv, UploadTypeOK
    <2> QED
      BY <1>2, <2>4, <2>5, <2>6 DEF Apply, TypeInv, UploadTypeOK, RequestsOK
  <1> QED
    BY <1>3, <1>4 DEF Apply

\* The two steps that write a row's status after a failure.
LEMMA MarkTypes ==
  ASSUME TypeInv, NEW h \in Handler, Record(h) \/ Cancel(h)
  PROVE  TypeInv'
  <1> DEFINE d == req[h].row
  <1>1. RequestsOK'
    BY AnswerOK DEF TypeInv, UploadTypeOK, RequestsOK, Record, Cancel, Saved, Replies
  <1>2. row' \in [RowId -> Row \cup {NoRow}]
    <2>1. CASE UNCHANGED row
      BY <2>1 DEF TypeInv, UploadTypeOK
    <2>2. ASSUME NEW status \in PostState, Exists(d), row' = [row EXCEPT ![d].post = status]
          PROVE  row' \in [RowId -> Row \cup {NoRow}]
      <3>1. d \in RowId /\ row[d] \in Row
        BY <2>2, StoredRow DEF TypeInv
      <3>2. [row[d] EXCEPT !.post = status] \in Row
        BY <3>1 DEF Row
      <3> QED
        BY <2>2, <3>1, <3>2 DEF TypeInv, UploadTypeOK
    <2>3. (IF row[d].status = "ACTIVE" THEN "RETRY_REQUIRED" ELSE "CANCELLED") \in PostState
          /\ "CANCELLED" \in PostState
      BY DEF PostState, RetryState
    <2> QED
      BY <2>1, <2>2, <2>3 DEF Record, Cancel
  <1> QED
    BY <1>1, <1>2 DEF Record, Cancel, TypeInv, UploadTypeOK, RequestsOK

LEMMA DeleteTypes ==
  ASSUME TypeInv, NEW h \in Handler, DeleteRow(h) \/ Unlink(h)
  PROVE  TypeInv'
  <1> DEFINE d == req[h].row
  <1>1. RequestsOK
    BY DEF TypeInv, UploadTypeOK, RequestsOK
  <1>2. CASE Unlink(h)
    <2>1. RequestsOK'
      BY <1>1, <1>2, AnswerOK DEF Unlink, Replies
    <2>2. file' \in [FileName -> {"unused", "installed", "damaged", "removed"}]
      BY <1>2, RemoveTypes DEF Unlink
    <2> QED
      BY <1>2, <2>1, <2>2 DEF Unlink, TypeInv, UploadTypeOK, RequestsOK
  <1>3. CASE DeleteRow(h)
    <2>1. RequestsOK'
      BY <1>1, <1>3, AnswerOK, GotoOK DEF DeleteRow, Replies, Step
    <2>2. ASSUME NEW e \in RowId
          PROVE  row[e].sup = d => [row[e] EXCEPT !.sup = None] \in Row \cup {NoRow}
      <3>1. CASE row[e] \in Row
        BY <3>1 DEF Row
      <3>2. CASE row[e] = NoRow
        BY <3>2 DEF NoRow
      <3> QED
        BY <3>1, <3>2 DEF TypeInv, UploadTypeOK
    <2>3. row' \in [RowId -> Row \cup {NoRow}]
      BY <1>3, <2>2 DEF DeleteRow, TypeInv, UploadTypeOK
    <2>4. slot' \in [Slot -> RowId \cup {None, Free}]
      BY <1>3 DEF DeleteRow, ClearSlots, TypeInv, UploadTypeOK
    <2> QED
      BY <1>3, <2>1, <2>3, <2>4 DEF DeleteRow, TypeInv, UploadTypeOK, RequestsOK
  <1> QED
    BY <1>2, <1>3

LEMMA EnvironmentTypes ==
  ASSUME TypeInv, Invalidate \/ Crash \/ Damage
  PROVE  TypeInv'
  <1>1. CASE Invalidate
    <2>1. ASSUME NEW d \in RowId, row[d].status = "ACTIVE"
          PROVE  [row[d] EXCEPT !.status = "STALE"] \in Row
      BY <2>1, StoredRow DEF Exists, TypeInv, Row
    <2>2. row' \in [RowId -> Row \cup {NoRow}]
      BY <1>1, <2>1 DEF Invalidate, TypeInv, UploadTypeOK
    <2> QED
      BY <1>1, <2>2 DEF Invalidate, TypeInv, UploadTypeOK, UploadKnown
  <1>2. CASE Crash
    BY <1>2, IdleRequest, UploadAssumption DEF Crash, TypeInv, UploadTypeOK, UploadKnown
  <1>3. CASE Damage
    BY <1>3, UploadAssumption DEF Damage, TypeInv, UploadTypeOK, UploadKnown
  <1> QED
    BY <1>1, <1>2, <1>3

LEMMA TypeStep == TypeInv /\ [Next]_vars => TypeInv'
  <1> SUFFICES ASSUME TypeInv, [Next]_vars PROVE TypeInv'
    OBVIOUS
  <1>1. ASSUME NEW h \in Handler, Begin(h) \/ Serve(h)
        PROVE  TypeInv'
    <2>1. CASE Begin(h) \/ Load(h)
      BY <2>1, BeginTypes, LoadTypes DEF TypeInv, UploadTypeOK, RequestsOK
    <2>2. CASE Store(h)
      BY <2>2, StoreTypes
    <2>3. CASE Commit(h)
      BY <2>3, CommitTypes
    <2>4. CASE Recover(h)
      BY <2>4, RecoverTypes
    <2>5. CASE Apply(h)
      BY <2>5, ApplyTypes
    <2>6. CASE Record(h) \/ Cancel(h)
      BY <2>6, MarkTypes
    <2>7. CASE DeleteRow(h) \/ Unlink(h)
      BY <2>7, DeleteTypes
    <2> QED
      BY <1>1, <2>1, <2>2, <2>3, <2>4, <2>5, <2>6, <2>7 DEF Serve
  <1>2. CASE Invalidate \/ Crash \/ Damage
    BY <1>2, EnvironmentTypes
  <1>3. CASE UNCHANGED vars
    BY <1>3 DEF vars, TypeInv, UploadTypeOK, UploadKnown
  <1> QED
    BY <1>1, <1>2, <1>3 DEF Next

\* The tables, the files and the requests keep their shapes: no step of any
\* number of handlers writes a row, a residency event or a missionary field
\* that is not one.
THEOREM TypeCorrect == Spec => []UploadTypeOK
  <1>1. TypeInv => UploadTypeOK
    BY DEF TypeInv
  <1> QED
    BY <1>1, TypeInit, TypeStep, PTL DEF Spec

\* The inductive form of TypeCorrect, for the proofs below.
LEMMA TypeInvariant == Spec => []TypeInv
  BY TypeInit, TypeStep, PTL DEF Spec

-----------------------------------------------------------------------------
(* The documents table *)

InsertStep ==
  \E h \in Handler, d \in RowId :
    /\ RowOf(req[h].uid) = {}
    /\ req[h].target = None \/ Replaceable(req[h].target, req[h])
    /\ Fresh(d)
    /\ Insert(d, req[h])
    /\ UNCHANGED slot

ApplyStep == \E d \in RowId, p \in Payload \cup {Nothing} :
               Claimable(d) /\ ApplyUpdates(d, p)

MarkStep ==
  \E d \in RowId :
    /\ Exists(d)
    /\ row[d].post \in RetryState
    /\ row' = [row EXCEPT ![d].post = IF row[d].status = "ACTIVE"
                                      THEN "RETRY_REQUIRED" ELSE "CANCELLED"]
    /\ UNCHANGED slot

DeleteStep ==
  \E d \in RowId \cup {None} :
    /\ row' = [e \in RowId |->
                 IF e = d THEN NoRow
                 ELSE IF row[e].sup = d THEN [row[e] EXCEPT !.sup = None]
                 ELSE row[e]]
    /\ slot' = ClearSlots(d)

TableStep == \/ InsertStep \/ ApplyStep \/ MarkStep \/ DeleteStep
             \/ Invalidate
             \/ UNCHANGED <<row, slot>>

LEMMA StepsOfTheTable ==
  ASSUME TypeInv, [Next]_vars
  PROVE  TableStep
  <1>1. ASSUME NEW h \in Handler, Begin(h) \/ Serve(h)
        PROVE  TableStep
    <2> DEFINE d == req[h].row
    <2>1. req[h].row \in RowId \cup {None} /\ req[h].data \in Payload \cup {Nothing}
      BY DEF TypeInv, UploadTypeOK, Request
    <2>2. CASE Begin(h) \/ Load(h) \/ Store(h) \/ Recover(h) \/ Unlink(h)
      BY <2>2 DEF Begin, BeginUpload, BeginRetry, BeginDelete, Load, Store,
                  Recover, Unlink, TableStep
    <2>3. CASE Commit(h)
      BY <2>3 DEF Commit, TableStep, InsertStep
    <2>4. CASE Apply(h)
      BY <2>1, <2>4 DEF Apply, TableStep, ApplyStep, Claimable, Exists
    <2>5. CASE Record(h)
      BY <2>1, <2>5 DEF Record, TableStep, MarkStep, Exists
    <2>6. CASE Cancel(h)
      BY <2>1, <2>6 DEF Cancel, TableStep, MarkStep, Exists
    <2>7. CASE DeleteRow(h)
      BY <2>1, <2>7 DEF DeleteRow, TableStep, DeleteStep
    <2> QED
      BY <1>1, <2>2, <2>3, <2>4, <2>5, <2>6, <2>7 DEF Serve
  <1>2. CASE Invalidate \/ Crash \/ Damage
    BY <1>2 DEF Crash, Damage, TableStep
  <1>3. CASE UNCHANGED vars
    BY <1>3 DEF vars, TableStep
  <1> QED
    BY <1>1, <1>2, <1>3 DEF Next

\* What replacing, inserting and deleting say about the single rows.
LEMMA InsertedRows ==
  ASSUME TypeInv, NEW h \in Handler, NEW d \in RowId, NEW e \in RowId,
         Insert(d, req[h])
  PROVE  /\ e = d => row'[e] = NewRow(req[h])
         /\ e # d /\ e = req[h].target => row'[e] = Retire(row[e])
         /\ e # d /\ e # req[h].target => row'[e] = row[e]
  BY DEF Insert

LEMMA InsertedRow ==
  ASSUME NEW r
  PROVE  /\ NewRow(r).status = "ACTIVE" /\ NewRow(r).runs = 0
         /\ NewRow(r).post \in {"PENDING", "NOT_REQUIRED"}
         /\ NewRow(r).uid = r.uid /\ NewRow(r).file = r.file
         /\ NewRow(r).sup = r.target /\ NewRow(r).payload = r.payload
  BY DEF NewRow, NeedsPostProcessing

LEMMA RetiredRow ==
  ASSUME NEW o \in Row
  PROVE  /\ Retire(o).status = "SUPERSEDED"
         /\ Retire(o).post = IF o.post \in RetryState THEN "CANCELLED" ELSE o.post
         /\ Retire(o).uid = o.uid /\ Retire(o).payload = o.payload
         /\ Retire(o).file = o.file /\ Retire(o).sup = o.sup
         /\ Retire(o).runs = o.runs
  BY DEF Retire, Row

LEMMA ReplacedRow ==
  ASSUME TypeInv, NEW h \in Handler, NEW d \in RowId, NEW e \in RowId, Fresh(d),
         req[h].target = None \/ Replaceable(req[h].target, req[h]),
         e = req[h].target
  PROVE  e # d /\ row[e] \in Row /\ row[e].status = "ACTIVE"
  BY StoredRow DEF Replaceable, Fresh, None, RowId, TypeInv

\* The data of a row was applied if and only if the row is COMPLETE.
TableInv ==
  /\ AppliedOnce
  /\ ReplacedIsFinal

LEMMA TableInit == Init => TableInv
  BY DEF Init, TableInv, AppliedOnce, ReplacedIsFinal, NoRow

LEMMA TableKept ==
  ASSUME TypeInv, TableInv, TableStep
  PROVE  TableInv'
  <1> SUFFICES ASSUME NEW e \in RowId
               PROVE  /\ row'[e].runs = IF row'[e].post = "COMPLETE" THEN 1 ELSE 0
                      /\ row'[e].status = "SUPERSEDED" => row'[e].post \notin RetryState
    BY DEF TableInv, AppliedOnce, ReplacedIsFinal
  <1>1. /\ row[e].runs = IF row[e].post = "COMPLETE" THEN 1 ELSE 0
        /\ row[e].status = "SUPERSEDED" => row[e].post \notin RetryState
        /\ row[e] \in Row \cup {NoRow}
    BY DEF TableInv, AppliedOnce, ReplacedIsFinal, TypeInv, UploadTypeOK
  <1>2. CASE InsertStep
    <2>1. PICK h \in Handler, d \in RowId :
            /\ req[h].target = None \/ Replaceable(req[h].target, req[h])
            /\ Fresh(d) /\ Insert(d, req[h])
      BY <1>2 DEF InsertStep
    <2>2. CASE e = d
      BY <2>1, <2>2, InsertedRows, InsertedRow
    <2>3. CASE e # d /\ e = req[h].target
      BY <1>1, <2>1, <2>3, InsertedRows, ReplacedRow, RetiredRow DEF RetryState
    <2>4. CASE e # d /\ e # req[h].target
      BY <1>1, <2>1, <2>4, InsertedRows
    <2> QED
      BY <2>2, <2>3, <2>4
  <1>3. CASE ApplyStep
    <2>1. PICK d \in RowId :
            /\ Claimable(d)
            /\ row' = [row EXCEPT ![d].post = "COMPLETE",
                                  ![d].runs = IF @ < 2 THEN @ + 1 ELSE @]
      BY <1>3 DEF ApplyStep, ApplyUpdates
    <2>2. CASE e = d
      <3>1. row[e] \in Row /\ row[e].runs = 0 /\ row[e].status = "ACTIVE"
        BY <1>1, <2>1, <2>2, StoredRow DEF Claimable, TypeInv, RetryState
      <3>2. row'[e].post = "COMPLETE" /\ row'[e].runs = 1 /\ row'[e].status = "ACTIVE"
        BY <2>1, <2>2, <3>1 DEF TypeInv, UploadTypeOK, Row
      <3> QED
        BY <3>2
    <2>3. CASE e # d
      BY <1>1, <2>1, <2>3 DEF TypeInv, UploadTypeOK
    <2> QED
      BY <2>2, <2>3
  <1>4. CASE MarkStep
    <2>1. PICK d \in RowId :
            /\ Exists(d) /\ row[d].post \in RetryState
            /\ row' = [row EXCEPT ![d].post = IF row[d].status = "ACTIVE"
                                              THEN "RETRY_REQUIRED" ELSE "CANCELLED"]
      BY <1>4 DEF MarkStep
    <2>2. CASE e = d
      <3>1. row[e] \in Row
        BY <2>1, <2>2, StoredRow DEF TypeInv
      <3>2. /\ row'[e].runs = row[e].runs /\ row'[e].status = row[e].status
            /\ row'[e].post = IF row[e].status = "ACTIVE" THEN "RETRY_REQUIRED"
                              ELSE "CANCELLED"
        BY <2>1, <2>2, <3>1 DEF TypeInv, UploadTypeOK, Row
      <3> QED
        BY <1>1, <2>1, <2>2, <3>2 DEF RetryState
    <2>3. CASE e # d
      BY <1>1, <2>1, <2>3 DEF TypeInv, UploadTypeOK
    <2> QED
      BY <2>2, <2>3
  <1>5. CASE DeleteStep
    <2>1. \/ row'[e] = NoRow
          \/ row'[e] = row[e]
          \/ row'[e] = [row[e] EXCEPT !.sup = None]
      BY <1>5 DEF DeleteStep
    <2> QED
      BY <1>1, <2>1 DEF NoRow, Row, RetryState
  <1>6. CASE Invalidate
    <2>1. \/ row'[e] = row[e]
          \/ row'[e] = [row[e] EXCEPT !.status = "STALE"]
      BY <1>6 DEF Invalidate
    <2> QED
      BY <1>1, <2>1 DEF NoRow, Row, RetryState
  <1>7. CASE UNCHANGED <<row, slot>>
    BY <1>1, <1>7
  <1> QED
    BY <1>2, <1>3, <1>4, <1>5, <1>6, <1>7 DEF TableStep

\* The data of a row is applied exactly once if it is COMPLETE and never
\* otherwise: the claim, the data and the COMPLETE mark are one transaction.
THEOREM DataAppliedOnce == Spec => []AppliedOnce
  <1>1. TypeInv /\ TableInv /\ [Next]_vars => TableInv'
    BY StepsOfTheTable, TableKept
  <1>2. TableInv => AppliedOnce
    BY DEF TableInv
  <1> QED
    BY <1>1, <1>2, TableInit, TypeInvariant, PTL DEF Spec

\* A replaced document can never be claimed by a retry again.
THEOREM ReplacementIsFinal == Spec => []ReplacedIsFinal
  <1>1. TypeInv /\ TableInv /\ [Next]_vars => TableInv'
    BY StepsOfTheTable, TableKept
  <1>2. TableInv => ReplacedIsFinal
    BY DEF TableInv
  <1> QED
    BY <1>1, <1>2, TableInit, TypeInvariant, PTL DEF Spec

-----------------------------------------------------------------------------
(***************************************************************************)
(* Upload IDs and replacements.  OneRowPerUpload is inductive with the     *)
(* foreign key: a row ID that is given out again is named by no row.       *)
(***************************************************************************)

ReferencesExist == \A d \in RowId : row[d].sup = None \/ Exists(row[d].sup)

LinkInv == OneRowPerUpload /\ ReferencesExist

LEMMA LinkInit == Init => LinkInv
  BY DEF Init, LinkInv, OneRowPerUpload, ReferencesExist, Exists, NoRow, None

\* The steps that change the status or the post-processing of rows only.
LEMMA SameLinks ==
  ASSUME LinkInv,
         \A d \in RowId : /\ row'[d].uid = row[d].uid
                          /\ row'[d].sup = row[d].sup
                          /\ row'[d].status = "ABSENT" <=> row[d].status = "ABSENT"
                          /\ row[d].status = "SUPERSEDED" => row'[d].status = "SUPERSEDED"
  PROVE  LinkInv'
  BY DEF LinkInv, OneRowPerUpload, ReferencesExist, Exists

LEMMA LinkKept ==
  ASSUME TypeInv, LinkInv, TableStep
  PROVE  LinkInv'
  <1> USE DEF None, RowId
  <1>1. CASE InsertStep
    <2>1. PICK h \in Handler, d \in RowId :
            /\ RowOf(req[h].uid) = {}
            /\ req[h].target = None \/ Replaceable(req[h].target, req[h])
            /\ Fresh(d) /\ Insert(d, req[h])
      BY <1>1 DEF InsertStep
    <2> DEFINE t == req[h].target
    <2>2. ~Exists(d) /\ \A e \in RowId : Exists(e) => row[e].uid # req[h].uid
      BY <2>1 DEF Fresh, RowOf
    <2>3. /\ row'[d].status = "ACTIVE" /\ row'[d].uid = req[h].uid /\ row'[d].sup = t
      BY <2>1, InsertedRows, InsertedRow
    <2>4. ASSUME NEW e \in RowId, e # d
          PROVE  /\ row'[e].uid = row[e].uid /\ row'[e].sup = row[e].sup
                 /\ row'[e].status = "ABSENT" <=> row[e].status = "ABSENT"
                 /\ row[e].status = "SUPERSEDED" => row'[e].status = "SUPERSEDED"
      <3>1. CASE e = t
        BY <2>1, <2>4, <3>1, InsertedRows, ReplacedRow, RetiredRow
      <3>2. CASE e # t
        BY <2>1, <2>4, <3>2, InsertedRows
      <3> QED
        BY <3>1, <3>2
    <2>5. t = None \/ (Exists(t) /\ row[t].status = "ACTIVE" /\ row'[t].status = "SUPERSEDED")
      BY <2>1, InsertedRows, ReplacedRow, RetiredRow DEF Replaceable, Exists
    <2>6. \A e \in RowId : Exists(e) => row[e].sup # d
      BY <2>2 DEF LinkInv, ReferencesExist, Exists
    <2>7. t # None => \A e \in RowId : Exists(e) => row[e].sup # t
      <3> SUFFICES ASSUME t # None, NEW e \in RowId, Exists(e)
                   PROVE  row[e].sup # t
        OBVIOUS
      <3>1. t \in RowId /\ Exists(t) /\ row[t].status = "ACTIVE"
        BY <2>5 DEF Exists
      <3> QED
        BY <3>1 DEF LinkInv, OneRowPerUpload
    <2>8. \A e \in RowId : Exists(e)' <=> (Exists(e) \/ e = d)
      BY <2>3, <2>4 DEF Exists
    <2>9. OneRowPerUpload'
      <3> SUFFICES ASSUME NEW a \in RowId, NEW b \in RowId, Exists(a)', Exists(b)'
                   PROVE  /\ row'[a].uid = row'[b].uid => a = b
                          /\ row'[a].sup = b => row'[b].status = "SUPERSEDED"
                          /\ row'[a].sup # None /\ row'[a].sup = row'[b].sup => a = b
        BY DEF OneRowPerUpload
      <3>1. CASE a = d /\ b = d
        BY <3>1, <2>2, <2>3, <2>5
      <3>2. CASE a = d /\ b # d
        BY <3>2, <2>2, <2>3, <2>4, <2>5, <2>7, <2>8
      <3>3. CASE a # d /\ b = d
        BY <3>3, <2>2, <2>3, <2>4, <2>5, <2>6, <2>7, <2>8
      <3>4. CASE a # d /\ b # d
        BY <3>4, <2>4, <2>8 DEF LinkInv, OneRowPerUpload
      <3> QED
        BY <3>1, <3>2, <3>3, <3>4
    <2>10. ReferencesExist'
      BY <2>3, <2>4, <2>5, <2>8 DEF LinkInv, ReferencesExist, Exists
    <2> QED
      BY <2>9, <2>10 DEF LinkInv
  <1>2. CASE ApplyStep \/ MarkStep \/ Invalidate \/ UNCHANGED <<row, slot>>
    <2> SUFFICES ASSUME NEW e \in RowId
                 PROVE  /\ row'[e].uid = row[e].uid /\ row'[e].sup = row[e].sup
                        /\ row'[e].status = "ABSENT" <=> row[e].status = "ABSENT"
                        /\ row[e].status = "SUPERSEDED" => row'[e].status = "SUPERSEDED"
      BY SameLinks
    <2>1. row[e] \in Row \cup {NoRow}
      BY DEF TypeInv, UploadTypeOK
    <2>2. CASE ApplyStep
      BY <2>1, <2>2 DEF ApplyStep, ApplyUpdates, TypeInv, UploadTypeOK, Row, NoRow
    <2>3. CASE MarkStep
      BY <2>1, <2>3 DEF MarkStep, TypeInv, UploadTypeOK, Row, NoRow
    <2>4. CASE Invalidate
      <3>1. \/ row'[e] = row[e]
            \/ row[e].status = "ACTIVE" /\ row'[e] = [row[e] EXCEPT !.status = "STALE"]
        BY <2>4 DEF Invalidate
      <3> QED
        BY <2>1, <3>1 DEF Row, NoRow
    <2> QED
      BY <1>2, <2>2, <2>3, <2>4
  <1>3. CASE DeleteStep
    <2>1. PICK d \in RowId \cup {None} :
            row' = [e \in RowId |->
                      IF e = d THEN NoRow
                      ELSE IF row[e].sup = d THEN [row[e] EXCEPT !.sup = None]
                      ELSE row[e]]
      BY <1>3 DEF DeleteStep
    <2>2. ASSUME NEW e \in RowId, e # d
          PROVE  /\ row'[e].uid = row[e].uid /\ row'[e].status = row[e].status
                 /\ row'[e].sup = IF row[e].sup = d THEN None ELSE row[e].sup
      <3>1. row[e] \in Row \cup {NoRow}
        BY DEF TypeInv, UploadTypeOK
      <3> QED
        BY <2>1, <2>2, <3>1 DEF Row, NoRow
    <2>3. d \in RowId => row'[d].status = "ABSENT" /\ row'[d].sup = None
      BY <2>1 DEF NoRow
    <2>4. \A e \in RowId : Exists(e)' <=> Exists(e) /\ e # d
      BY <2>2, <2>3 DEF Exists
    <2>5. OneRowPerUpload'
      <3> SUFFICES ASSUME NEW a \in RowId, NEW b \in RowId, Exists(a)', Exists(b)'
                   PROVE  /\ row'[a].uid = row'[b].uid => a = b
                          /\ row'[a].sup = b => row'[b].status = "SUPERSEDED"
                          /\ row'[a].sup # None /\ row'[a].sup = row'[b].sup => a = b
        BY DEF OneRowPerUpload
      <3>1. a # d /\ b # d /\ Exists(a) /\ Exists(b)
        BY <2>4
      <3> QED
        BY <3>1, <2>2 DEF LinkInv, OneRowPerUpload
    <2>6. ReferencesExist'
      BY <2>2, <2>3, <2>4 DEF LinkInv, ReferencesExist, Exists
    <2> QED
      BY <2>5, <2>6 DEF LinkInv
  <1> QED
    BY <1>1, <1>2, <1>3 DEF TableStep

\* One row per upload ID, and one successor per replaced document, for every
\* number of concurrent attempts.
THEOREM UploadIsUnique == Spec => []OneRowPerUpload
  <1>1. TypeInv /\ LinkInv /\ [Next]_vars => LinkInv'
    BY StepsOfTheTable, LinkKept
  <1>2. LinkInv => OneRowPerUpload
    BY DEF LinkInv
  <1> QED
    BY <1>1, <1>2, LinkInit, TypeInvariant, PTL DEF Spec

-----------------------------------------------------------------------------
(***************************************************************************)
(* Approved prorrogas.                                                     *)
(***************************************************************************)

LEMMA SlotsInit == Init => SlotsAreEarned
  BY UploadAssumption DEF Init, SlotsAreEarned, Free, RowId, Slot, MaxProrrogas

\* The rows that residency events name stay COMPLETE in every step that does
\* not delete them.
LEMMA SameSlots ==
  ASSUME TypeInv, SlotsAreEarned, UNCHANGED slot,
         \A d \in RowId : row[d].post = "COMPLETE" =>
           row'[d].post = "COMPLETE" /\ row'[d].payload = row[d].payload
  PROVE  SlotsAreEarned'
  BY DEF SlotsAreEarned, TypeInv, UploadTypeOK

LEMMA SlotsKept ==
  ASSUME TypeInv, SlotsAreEarned, TableStep
  PROVE  SlotsAreEarned'
  <1> DEFINE Kept(e) == row[e].post = "COMPLETE" =>
                          row'[e].post = "COMPLETE" /\ row'[e].payload = row[e].payload
  <1>0. \A e \in RowId : row[e] \in Row \cup {NoRow}
    BY DEF TypeInv, UploadTypeOK
  <1>1. CASE InsertStep
    <2>1. PICK h \in Handler, d \in RowId :
            /\ req[h].target = None \/ Replaceable(req[h].target, req[h])
            /\ Fresh(d) /\ Insert(d, req[h])
      BY <1>1 DEF InsertStep
    <2>2. ~Exists(d)
      BY <2>1 DEF Fresh, RowId
    <2>3. row[d].post # "COMPLETE"
      BY <1>0, <2>1, <2>2 DEF Exists, Row, NoRow
    <2>4. ASSUME NEW e \in RowId PROVE Kept(e)
      <3>1. CASE e = d
        BY <2>3, <3>1
      <3>2. CASE e # d /\ e = req[h].target
        BY <2>1, <3>2, InsertedRows, ReplacedRow, RetiredRow DEF RetryState
      <3>3. CASE e # d /\ e # req[h].target
        BY <2>1, <3>3, InsertedRows
      <3> QED
        BY <3>1, <3>2, <3>3
    <2> QED
      BY <1>1, <2>4, SameSlots DEF InsertStep
  <1>2. CASE MarkStep \/ Invalidate \/ UNCHANGED <<row, slot>>
    <2>1. ASSUME NEW e \in RowId PROVE Kept(e)
      <3>1. CASE MarkStep
        BY <1>0, <3>1 DEF MarkStep, TypeInv, UploadTypeOK, Row, NoRow, RetryState
      <3>2. CASE Invalidate
        <4>1. row'[e] = row[e] \/ row'[e] = [row[e] EXCEPT !.status = "STALE"]
          BY <3>2 DEF Invalidate
        <4> QED
          BY <1>0, <4>1 DEF Row, NoRow
      <3> QED
        BY <1>2, <3>1, <3>2
    <2>2. UNCHANGED slot
      BY <1>2 DEF MarkStep, Invalidate
    <2> QED
      BY <2>1, <2>2, SameSlots
  <1>3. CASE ApplyStep
    <2>1. PICK d \in RowId :
            /\ Claimable(d)
            /\ row' = [row EXCEPT ![d].post = "COMPLETE",
                                  ![d].runs = IF @ < 2 THEN @ + 1 ELSE @]
            /\ IF row[d].payload \in ProrrogaPayload THEN Approve(d) ELSE UNCHANGED slot
      BY <1>3 DEF ApplyStep, ApplyUpdates
    <2>2. row[d] \in Row /\ row[d].post # "COMPLETE"
      BY <2>1, StoredRow DEF Claimable, TypeInv, RetryState
    <2>3. row'[d].post = "COMPLETE" /\ row'[d].payload = row[d].payload
      BY <2>1, <2>2 DEF TypeInv, UploadTypeOK, Row
    <2>4. ASSUME NEW e \in RowId PROVE Kept(e)
      BY <2>1, <2>3, <2>4 DEF TypeInv, UploadTypeOK
    <2>5. CASE UNCHANGED slot
      BY <2>4, <2>5, SameSlots
    <2>6. CASE row[d].payload \in ProrrogaPayload /\ ~UNCHANGED slot
      <3>1. PICK s \in Slot : /\ slot[s] = Free
                              /\ \A e \in Slot : e < s => slot[e] # Free
                              /\ slot' = [slot EXCEPT ![s] = d]
        BY <2>1, <2>6 DEF Approve
      <3>2. \A e \in Slot : slot[e] # d
        BY <2>2 DEF SlotsAreEarned
      <3>3. slot'[s] = d /\ d # Free /\ \A e \in Slot : e # s => slot'[e] = slot[e]
        BY <3>1, UploadAssumption DEF TypeInv, UploadTypeOK, Free, RowId
      <3>4. ASSUME NEW e \in Slot, slot'[e] \in RowId
            PROVE  /\ row'[slot'[e]].post = "COMPLETE"
                   /\ row'[slot'[e]].payload \in ProrrogaPayload
                   /\ \A g \in Slot : slot'[g] = slot'[e] => g = e
        <4>1. CASE e = s
          BY <2>3, <2>6, <3>2, <3>3, <4>1
        <4>2. CASE e # s
          BY <2>4, <3>2, <3>3, <3>4, <4>2 DEF SlotsAreEarned
        <4> QED
          BY <4>1, <4>2
      <3>5. ASSUME NEW a \in Slot, NEW b \in Slot, b < a, slot'[a] # Free
            PROVE  slot'[b] # Free
        BY <3>1, <3>3, <3>5 DEF SlotsAreEarned
      <3> QED
        BY <3>4, <3>5 DEF SlotsAreEarned
    <2> QED
      BY <2>1, <2>5, <2>6
  <1>4. CASE DeleteStep
    <2>1. PICK d \in RowId \cup {None} :
            /\ row' = [e \in RowId |->
                        IF e = d THEN NoRow
                        ELSE IF row[e].sup = d THEN [row[e] EXCEPT !.sup = None]
                        ELSE row[e]]
            /\ slot' = [s \in Slot |-> IF slot[s] = d THEN None ELSE slot[s]]
      BY <1>4 DEF DeleteStep, ClearSlots
    <2>2. ASSUME NEW e \in RowId, e # d PROVE Kept(e)
      <3>1. row'[e] = row[e] \/ row'[e] = [row[e] EXCEPT !.sup = None]
        BY <2>1, <2>2
      <3> QED
        BY <1>0, <3>1 DEF Row, NoRow
    <2>3. None \notin RowId /\ None # Free
      BY UploadAssumption DEF None, RowId, Free
    <2>4. ASSUME NEW s \in Slot
          PROVE  slot'[s] = (IF slot[s] = d THEN None ELSE slot[s])
      BY <2>1
    <2>5. d # Free
      BY UploadAssumption DEF None, RowId, Free
    <2> QED
      BY <2>2, <2>3, <2>4, <2>5 DEF SlotsAreEarned
  <1> QED
    BY <1>1, <1>2, <1>3, <1>4 DEF TableStep

\* The residency period is extended only by documents whose post-processing
\* committed, once per document and in the order of the prorrogas.
THEOREM ProrrogasAreEarned == Spec => []SlotsAreEarned
  <1>1. TypeInv /\ SlotsAreEarned /\ [Next]_vars => SlotsAreEarned'
    BY StepsOfTheTable, SlotsKept
  <1> QED
    BY <1>1, SlotsInit, TypeInvariant, PTL DEF Spec

-----------------------------------------------------------------------------
(* Replacement as a step: one row goes out of use and another comes in. *)

LEMMA SuccessorStep ==
  ASSUME TypeInv, TableStep, NEW t \in RowId,
         row[t].status = "ACTIVE", row'[t].status = "SUPERSEDED"
  PROVE  \E d \in RowId : ~Exists(d) /\ row'[d].status = "ACTIVE" /\ row'[d].sup = t
  <1>0. row[t] \in Row
    BY StoredRow DEF Exists, TypeInv
  <1>1. CASE InsertStep
    <2>1. PICK h \in Handler, d \in RowId :
            /\ req[h].target = None \/ Replaceable(req[h].target, req[h])
            /\ Fresh(d) /\ Insert(d, req[h])
      BY <1>1 DEF InsertStep
    <2>2. ~Exists(d)
      BY <2>1 DEF Fresh, RowId
    <2>3. t # d
      BY <2>2 DEF Exists
    <2>4. t = req[h].target
      BY <2>1, <2>3, InsertedRows
    <2>5. row'[d].status = "ACTIVE" /\ row'[d].sup = t
      BY <2>1, <2>4, InsertedRows, InsertedRow
    <2> QED
      BY <2>2, <2>5
  <1>2. CASE ApplyStep \/ MarkStep
    <2>1. CASE ApplyStep
      BY <1>0, <2>1 DEF ApplyStep, ApplyUpdates, TypeInv, UploadTypeOK, Row
    <2>2. CASE MarkStep
      BY <1>0, <2>2 DEF MarkStep, TypeInv, UploadTypeOK, Row
    <2> QED
      BY <1>2, <2>1, <2>2
  <1>3. CASE DeleteStep
    <2>1. row'[t] \in {NoRow, row[t], [row[t] EXCEPT !.sup = None]}
      BY <1>3 DEF DeleteStep
    <2> QED
      BY <1>0, <2>1 DEF Row, NoRow
  <1>4. CASE Invalidate
    <2>1. row'[t] \in {row[t], [row[t] EXCEPT !.status = "STALE"]}
      BY <1>4 DEF Invalidate
    <2> QED
      BY <1>0, <2>1 DEF Row
  <1>5. CASE UNCHANGED <<row, slot>>
    BY <1>5
  <1> QED
    BY <1>1, <1>2, <1>3, <1>4, <1>5 DEF TableStep

\* A document never goes out of use through an upload unless its replacement
\* comes into use in the same transaction.
THEOREM ReplacementIsAtomic == Spec => ReplacedBySuccessor
  <1> DEFINE Succeeded ==
        \A t \in RowId :
          row[t].status = "ACTIVE" /\ row'[t].status = "SUPERSEDED" =>
            \E d \in RowId : /\ ~Exists(d)
                             /\ row'[d].status = "ACTIVE"
                             /\ row'[d].sup = t
  <1>1. TypeInv /\ [Next]_vars => [Succeeded]_vars
    BY StepsOfTheTable, SuccessorStep
  <1>2. ReplacedBySuccessor <=> [][Succeeded]_vars
    BY DEF ReplacedBySuccessor
  <1> QED
    BY <1>1, <1>2, TypeInvariant, PTL DEF Spec

-----------------------------------------------------------------------------
(***************************************************************************)
(* The ledger.  A table with one row per upload ID determines the stage of *)
(* an upload by that row, so each step of the table is a step of the ledger *)
(* for the upload IDs of the rows it changes.                              *)
(***************************************************************************)

RowsIn(tbl, u) == {d \in RowId : tbl[d].status # "ABSENT" /\ tbl[d].uid = u}

Unapplied == RetryState \cup {"CANCELLED"}

RowStage(r) ==
  IF r.status = "ACTIVE"
  THEN IF r.post \in Unapplied THEN "open" ELSE "done"
  ELSE IF r.post \in Unapplied THEN "void" ELSE "retired"

StageIn(tbl, u) == IF RowsIn(tbl, u) = {} THEN "absent"
                   ELSE RowStage(tbl[CHOOSE d \in RowsIn(tbl, u) : TRUE])

LEMMA StagesOfTables ==
  ASSUME NEW u \in UploadId
  PROVE  StageOf(u) = StageIn(row, u) /\ StageOf(u)' = StageIn(row', u)
  <1>1. RowOf(u) = RowsIn(row, u) /\ RowOf(u)' = RowsIn(row', u)
    BY DEF RowOf, RowsIn, Exists
  <1>2. StageOf(u) = StageIn(row, u)
    BY <1>1 DEF StageOf, StageIn, RowStage, Unapplied
  <1>3. StageOf(u)' = StageIn(row', u)
    BY <1>1 DEF StageOf, StageIn, RowStage, Unapplied
  <1> QED
    BY <1>2, <1>3

\* The only row of an upload ID gives its stage.
LEMMA StageOfItsRow ==
  ASSUME NEW tbl, NEW d \in RowId, NEW u, u = tbl[d].uid, tbl[d].status # "ABSENT",
         \A e \in RowId : tbl[e].status # "ABSENT" /\ tbl[e].uid = u => e = d
  PROVE  StageIn(tbl, u) = RowStage(tbl[d])
  <1>1. RowsIn(tbl, u) = {d}
    BY DEF RowsIn
  <1> QED
    BY <1>1 DEF StageIn

LEMMA NoRowNoStage ==
  ASSUME NEW tbl, NEW u, \A d \in RowId : tbl[d].status # "ABSENT" => tbl[d].uid # u
  PROVE  StageIn(tbl, u) = "absent"
  BY DEF StageIn, RowsIn

\* A step that leaves the rows of an upload ID with their stage leaves it alone.
LEMMA SameStage ==
  ASSUME NEW tbl, NEW new, NEW u,
         \A d \in RowId :
           /\ tbl[d].status # "ABSENT" /\ tbl[d].uid = u
                <=> new[d].status # "ABSENT" /\ new[d].uid = u
           /\ tbl[d].status # "ABSENT" /\ tbl[d].uid = u
                => RowStage(new[d]) = RowStage(tbl[d])
  PROVE  StageIn(new, u) = StageIn(tbl, u)
  <1>1. RowsIn(new, u) = RowsIn(tbl, u)
    BY DEF RowsIn
  <1>2. CASE RowsIn(tbl, u) = {}
    BY <1>1, <1>2 DEF StageIn
  <1>3. CASE RowsIn(tbl, u) # {}
    <2> DEFINE d == CHOOSE d \in RowsIn(tbl, u) : TRUE
    <2>1. d \in RowsIn(tbl, u)
      BY <1>3
    <2>2. RowStage(new[d]) = RowStage(tbl[d])
      BY <2>1 DEF RowsIn
    <2> QED
      BY <1>1, <1>3, <2>2 DEF StageIn
  <1> QED
    BY <1>2, <1>3

\* What the ledger says after each kind of step.
Stages == [u \in UploadId |-> StageOf(u)]

LEMMA LedgerIs ==
  /\ \A u \in UploadId : Stages[u] = StageIn(row, u)
  /\ Stages' = [u \in UploadId |-> StageIn(row', u)]
  /\ DOMAIN Stages = UploadId
  BY StagesOfTables DEF Stages

LEMMA StageRetired ==
  ASSUME NEW o \in Row, o.status = "ACTIVE"
  PROVE  /\ RowStage(o) \in {"open", "done"}
         /\ RowStage(Retire(o)) = Ledger!OutOfUse(RowStage(o))
  <1>1. Retire(o).status = "SUPERSEDED" /\ Retire(o).post
          = IF o.post \in RetryState THEN "CANCELLED" ELSE o.post
    BY RetiredRow
  <1>2. CASE o.post \in Unapplied
    BY <1>1, <1>2 DEF RowStage, Unapplied, RetryState, Ledger!OutOfUse
  <1>3. CASE o.post \notin Unapplied
    BY <1>1, <1>3 DEF RowStage, Unapplied, RetryState, Ledger!OutOfUse
  <1> QED
    BY <1>2, <1>3

\* The new row gives its upload ID a stage; the row it replaces goes out of use.
LEMMA InsertLedger ==
  ASSUME TypeInv, TypeInv', LinkInv, LinkInv', InsertStep
  PROVE  \E u \in UploadId : Ledger!Submit(u)
  <1>1. PICK h \in Handler, d \in RowId :
          /\ RowOf(req[h].uid) = {}
          /\ req[h].target = None \/ Replaceable(req[h].target, req[h])
          /\ Fresh(d) /\ Insert(d, req[h])
    BY DEF InsertStep
  <1> DEFINE t == req[h].target
             u == req[h].uid
             stage == RowStage(row'[d])
  <1>2. ~Exists(d) /\ \A e \in RowId : Exists(e) => row[e].uid # u
    BY <1>1 DEF Fresh, RowOf, RowId
  <1>3. row'[d].status = "ACTIVE" /\ row'[d].uid = u
    BY <1>1, InsertedRows, InsertedRow
  <1>4. \A e \in RowId : e # d /\ e # t => row'[e] = row[e]
    BY <1>1, InsertedRows
  <1>5. u \in UploadId
    <2>1. row'[d] \in Row \cup {NoRow}
      BY DEF TypeInv, UploadTypeOK
    <2> QED
      BY <1>3, <2>1 DEF Row, NoRow
  <1>6. stage \in {"open", "done"}
    BY <1>3 DEF RowStage
  <1>7. StageIn(row, u) = "absent"
    BY <1>2, NoRowNoStage DEF Exists
  <1>8. \A e \in RowId : row'[e].status # "ABSENT" /\ row'[e].uid = u => e = d
    BY <1>3 DEF LinkInv, OneRowPerUpload, Exists
  <1>9. StageIn(row', u) = stage
    BY <1>3, <1>8, StageOfItsRow
  <1>10. CASE t = None
    <2>1. ASSUME NEW v \in UploadId, v # u
          PROVE  StageIn(row', v) = StageIn(row, v)
      <3>1. \A e \in RowId : e # d => row'[e] = row[e]
        BY <1>4, <1>10 DEF None, RowId
      <3> QED
        BY <1>2, <1>3, <2>1, <3>1, SameStage DEF Exists
    <2>2. Stages' = [Stages EXCEPT ![u] = stage]
      BY <1>5, <1>9, <2>1, LedgerIs
    <2> QED
      BY <1>5, <1>6, <1>7, <2>2, LedgerIs DEF Ledger!Submit, Stages
  <1>11. CASE t # None
    <2>1. /\ t \in RowId /\ t # d /\ row[t] \in Row /\ row[t].status = "ACTIVE"
          /\ row'[t] = Retire(row[t])
      BY <1>1, <1>11, InsertedRows, ReplacedRow DEF Replaceable, Exists
    <2> DEFINE o == row[t].uid
    <2>2. o \in UploadId /\ o # u
      BY <1>2, <2>1 DEF Row, Exists
    <2>3. row'[t].uid = o /\ row'[t].status = "SUPERSEDED"
      BY <2>1, RetiredRow
    <2>4. StageIn(row, o) = RowStage(row[t])
      <3>1. \A e \in RowId : row[e].status # "ABSENT" /\ row[e].uid = o => e = t
        BY <2>1 DEF LinkInv, OneRowPerUpload, Exists
      <3> QED
        BY <2>1, <3>1, StageOfItsRow
    <2>5. StageIn(row', o) = RowStage(Retire(row[t]))
      <3>1. \A e \in RowId : row'[e].status # "ABSENT" /\ row'[e].uid = o => e = t
        BY <2>1, <2>3 DEF LinkInv, OneRowPerUpload, Exists
      <3> QED
        BY <2>1, <2>3, <3>1, StageOfItsRow
    <2>6. /\ StageIn(row, o) \in {"open", "done"}
          /\ StageIn(row', o) = Ledger!OutOfUse(StageIn(row, o))
      BY <2>1, <2>4, <2>5, StageRetired
    <2>7. ASSUME NEW v \in UploadId, v # u, v # o
          PROVE  StageIn(row', v) = StageIn(row, v)
      <3>1. ASSUME NEW e \in RowId
            PROVE  /\ row[e].status # "ABSENT" /\ row[e].uid = v
                        <=> row'[e].status # "ABSENT" /\ row'[e].uid = v
                   /\ row[e].status # "ABSENT" /\ row[e].uid = v
                        => RowStage(row'[e]) = RowStage(row[e])
        BY <1>2, <1>3, <1>4, <2>3, <2>7 DEF Exists
      <3> QED
        BY <3>1, SameStage
    <2>8. Stages' = [Stages EXCEPT ![u] = stage, ![o] = Ledger!OutOfUse(@)]
      BY <1>5, <1>9, <2>2, <2>6, <2>7, LedgerIs
    <2> QED
      BY <1>5, <1>6, <1>7, <2>2, <2>6, <2>8, LedgerIs DEF Ledger!Submit, Stages
  <1> QED
    BY <1>10, <1>11

\* A step of the post-processing moves one row, from an open stage if it applies
\* the data, and within its stage otherwise.
LEMMA ApplyLedger ==
  ASSUME TypeInv, LinkInv, LinkInv', ApplyStep
  PROVE  \E u \in UploadId : Ledger!Process(u)
  <1>1. PICK d \in RowId :
          /\ Claimable(d)
          /\ row' = [row EXCEPT ![d].post = "COMPLETE",
                                ![d].runs = IF @ < 2 THEN @ + 1 ELSE @]
    BY DEF ApplyStep, ApplyUpdates
  <1> DEFINE u == row[d].uid
  <1>2. row[d] \in Row /\ row[d].status = "ACTIVE" /\ row[d].post \in RetryState
    BY <1>1, StoredRow DEF Claimable, TypeInv
  <1>3. /\ row'[d].status = "ACTIVE" /\ row'[d].post = "COMPLETE" /\ row'[d].uid = u
        /\ \A e \in RowId : e # d => row'[e] = row[e]
    BY <1>1, <1>2 DEF TypeInv, UploadTypeOK, Row
  <1>4. u \in UploadId
    BY <1>2 DEF Row
  <1>5. StageIn(row, u) = "open"
    <2>1. \A e \in RowId : row[e].status # "ABSENT" /\ row[e].uid = u => e = d
      BY <1>2 DEF LinkInv, OneRowPerUpload, Exists
    <2> QED
      BY <1>2, <2>1, StageOfItsRow DEF RowStage, Unapplied
  <1>6. StageIn(row', u) = "done"
    <2>1. \A e \in RowId : row'[e].status # "ABSENT" /\ row'[e].uid = u => e = d
      BY <1>3 DEF LinkInv, OneRowPerUpload, Exists
    <2>2. RowStage(row'[d]) = "done"
      BY <1>3 DEF RowStage, Unapplied, RetryState
    <2> QED
      BY <1>3, <2>1, <2>2, StageOfItsRow
  <1>7. ASSUME NEW v \in UploadId, v # u
        PROVE  StageIn(row', v) = StageIn(row, v)
    BY <1>3, <1>7, SameStage
  <1>8. Stages' = [Stages EXCEPT ![u] = "done"]
    BY <1>4, <1>6, <1>7, LedgerIs
  <1> QED
    BY <1>4, <1>5, <1>8, LedgerIs DEF Ledger!Process, Stages

LEMMA SameLedger ==
  ASSUME \A u \in UploadId : StageIn(row', u) = StageIn(row, u)
  PROVE  Stages' = Stages
  <1>1. Stages = [u \in UploadId |-> StageIn(row, u)]
    BY StagesOfTables DEF Stages
  <1> QED
    BY <1>1, LedgerIs

LEMMA MarkLedger ==
  ASSUME TypeInv, MarkStep
  PROVE  Stages' = Stages
  <1>1. PICK d \in RowId :
          /\ Exists(d)
          /\ row[d].post \in RetryState
          /\ row' = [row EXCEPT ![d].post = IF row[d].status = "ACTIVE"
                                            THEN "RETRY_REQUIRED" ELSE "CANCELLED"]
    BY DEF MarkStep
  <1>2. row[d] \in Row
    BY <1>1, StoredRow DEF TypeInv
  <1>3. /\ row'[d].status = row[d].status /\ row'[d].uid = row[d].uid
        /\ row'[d].post \in Unapplied
        /\ \A e \in RowId : e # d => row'[e] = row[e]
    BY <1>1, <1>2 DEF TypeInv, UploadTypeOK, Row, Unapplied, RetryState
  <1>4. RowStage(row'[d]) = RowStage(row[d])
    BY <1>1, <1>3 DEF RowStage, Unapplied
  <1>5. ASSUME NEW u \in UploadId PROVE StageIn(row', u) = StageIn(row, u)
    <2>1. ASSUME NEW e \in RowId
          PROVE  /\ row[e].status # "ABSENT" /\ row[e].uid = u
                      <=> row'[e].status # "ABSENT" /\ row'[e].uid = u
                 /\ row[e].status # "ABSENT" /\ row[e].uid = u
                      => RowStage(row'[e]) = RowStage(row[e])
      BY <1>3, <1>4
    <2> QED
      BY <2>1, SameStage
  <1> QED
    BY <1>5, SameLedger

LEMMA DeleteLedger ==
  ASSUME TypeInv, LinkInv, DeleteStep
  PROVE  Stages' = Stages \/ \E u \in UploadId : Ledger!Delete(u)
  <1>1. PICK d \in RowId \cup {None} :
          row' = [e \in RowId |->
                    IF e = d THEN NoRow
                    ELSE IF row[e].sup = d THEN [row[e] EXCEPT !.sup = None]
                    ELSE row[e]]
    BY DEF DeleteStep
  <1>2. ASSUME NEW e \in RowId, e # d
        PROVE  /\ row'[e].uid = row[e].uid /\ row'[e].status = row[e].status
               /\ row'[e].post = row[e].post
    <2>1. row[e] \in Row \cup {NoRow}
      BY DEF TypeInv, UploadTypeOK
    <2>2. row'[e] = row[e] \/ row'[e] = [row[e] EXCEPT !.sup = None]
      BY <1>1, <1>2
    <2> QED
      BY <2>1, <2>2 DEF Row, NoRow
  <1>3. d \in RowId => row'[d].status = "ABSENT"
    BY <1>1 DEF NoRow
  <1>4. ASSUME NEW u, Exists(d) => u # row[d].uid
        PROVE  StageIn(row', u) = StageIn(row, u)
    <2>1. ASSUME NEW e \in RowId
          PROVE  /\ row[e].status # "ABSENT" /\ row[e].uid = u
                      <=> row'[e].status # "ABSENT" /\ row'[e].uid = u
                 /\ row[e].status # "ABSENT" /\ row[e].uid = u
                      => RowStage(row'[e]) = RowStage(row[e])
      BY <1>2, <1>3, <1>4 DEF Exists, RowStage
    <2> QED
      BY <2>1, SameStage
  <1>5. CASE ~Exists(d)
    BY <1>4, <1>5, SameLedger
  <1>6. CASE Exists(d)
    <2> DEFINE u == row[d].uid
    <2>1. d \in RowId /\ row[d] \in Row /\ u \in UploadId /\ row[d].status # "ABSENT"
      BY <1>6, StoredRow DEF TypeInv, Row, Exists
    <2>2. \A e \in RowId : row[e].status # "ABSENT" /\ row[e].uid = u => e = d
      BY <2>1 DEF LinkInv, OneRowPerUpload, Exists
    <2>3. StageIn(row, u) = RowStage(row[d])
      BY <2>1, <2>2, StageOfItsRow
    <2>4. StageIn(row', u) = "absent"
      BY <1>2, <1>3, <2>1, <2>2, NoRowNoStage
    <2>5. Stages' = [Stages EXCEPT ![u] = "absent"]
      BY <1>4, <2>1, <2>4, LedgerIs
    <2>6. Stages[u] # "absent"
      BY <2>1, <2>3, LedgerIs DEF RowStage
    <2> QED
      BY <2>1, <2>5, <2>6 DEF Ledger!Delete, Stages
  <1> QED
    BY <1>5, <1>6

LEMMA InvalidateLedger ==
  ASSUME TypeInv, LinkInv, Invalidate
  PROVE  Ledger!Withdraw
  <1> DEFINE Missed(d) == row[d].status = "ACTIVE" /\ row[d].payload \in CitaPayload
             S == {u \in UploadId : \E d \in RowId : Missed(d) /\ row[d].uid = u}
  <1>1. ASSUME NEW d \in RowId
        PROVE  /\ ~Missed(d) => row'[d] = row[d]
               /\ Missed(d) => /\ row[d] \in Row /\ row'[d].status = "STALE"
                               /\ row'[d].post = row[d].post
               /\ row'[d].uid = row[d].uid
               /\ row'[d].status = "ABSENT" <=> row[d].status = "ABSENT"
    <2>1. row[d] \in Row \cup {NoRow}
      BY DEF TypeInv, UploadTypeOK
    <2>2. row'[d] = IF Missed(d) THEN [row[d] EXCEPT !.status = "STALE"] ELSE row[d]
      BY DEF Invalidate
    <2> QED
      BY <2>1, <2>2 DEF Row, NoRow
  <1>2. ASSUME NEW u \in S
        PROVE  /\ StageIn(row, u) \in {"open", "done"}
               /\ StageIn(row', u) = Ledger!OutOfUse(StageIn(row, u))
    <2>1. PICK d \in RowId : Missed(d) /\ row[d].uid = u
      BY <1>2
    <2>2. \A e \in RowId : row[e].status # "ABSENT" /\ row[e].uid = u => e = d
      BY <2>1 DEF LinkInv, OneRowPerUpload, Exists
    <2>3. StageIn(row, u) = RowStage(row[d])
      BY <2>1, <2>2, StageOfItsRow
    <2>4. StageIn(row', u) = RowStage(row'[d])
      <3>1. \A e \in RowId : row'[e].status # "ABSENT" /\ row'[e].uid = u => e = d
        BY <1>1, <2>2
      <3>2. row'[d].uid = u /\ row'[d].status # "ABSENT"
        BY <1>1, <2>1
      <3> QED
        BY <3>1, <3>2, StageOfItsRow
    <2>5. CASE row[d].post \in Unapplied
      BY <1>1, <2>1, <2>3, <2>4, <2>5 DEF RowStage, Ledger!OutOfUse
    <2>6. CASE row[d].post \notin Unapplied
      BY <1>1, <2>1, <2>3, <2>4, <2>6 DEF RowStage, Ledger!OutOfUse
    <2> QED
      BY <2>5, <2>6
  <1>3. ASSUME NEW u \in UploadId \ S
        PROVE  StageIn(row', u) = StageIn(row, u)
    <2>1. ASSUME NEW e \in RowId
          PROVE  /\ row[e].status # "ABSENT" /\ row[e].uid = u
                      <=> row'[e].status # "ABSENT" /\ row'[e].uid = u
                 /\ row[e].status # "ABSENT" /\ row[e].uid = u
                      => RowStage(row'[e]) = RowStage(row[e])
      BY <1>1, <1>3
    <2> QED
      BY <2>1, SameStage
  <1>4. Stages' = [u \in UploadId |-> IF u \in S THEN Ledger!OutOfUse(Stages[u])
                                      ELSE Stages[u]]
    BY <1>2, <1>3, LedgerIs
  <1>5. S \in SUBSET {u \in UploadId : Stages[u] \in {"open", "done"}}
    BY <1>2, LedgerIs
  <1> QED
    BY <1>4, <1>5 DEF Ledger!Withdraw, Stages

LEMMA LedgerInit == Init => Ledger!Init
  <1> SUFFICES ASSUME Init PROVE Ledger!Init
    OBVIOUS
  <1>1. \A u \in UploadId : StageOf(u) = "absent"
    BY DEF Init, StageOf, RowOf, Exists, NoRow
  <1> QED
    BY <1>1 DEF Ledger!Init

LEMMA LedgerKept ==
  ASSUME TypeInv, TypeInv', LinkInv, LinkInv', TableStep
  PROVE  [Ledger!Next]_Stages
  <1>1. CASE InsertStep
    BY <1>1, InsertLedger DEF Ledger!Next
  <1>2. CASE ApplyStep
    BY <1>2, ApplyLedger DEF Ledger!Next
  <1>3. CASE MarkStep
    BY <1>3, MarkLedger
  <1>4. CASE DeleteStep
    BY <1>4, DeleteLedger DEF Ledger!Next
  <1>5. CASE Invalidate
    BY <1>5, InvalidateLedger DEF Ledger!Next
  <1>6. CASE UNCHANGED <<row, slot>>
    BY <1>6, SameLedger
  <1> QED
    BY <1>1, <1>2, <1>3, <1>4, <1>5, <1>6 DEF TableStep

\* The documents implement the ledger of the upload IDs, for every number of
\* handlers, uploads and rows and any crashes.
THEOREM DocumentsImplementLedger == Spec => KeepsLedger
  <1>1. TypeInv /\ LinkInv /\ [Next]_vars => LinkInv'
    BY StepsOfTheTable, LinkKept
  <1>2. TypeInv /\ TypeInv' /\ LinkInv /\ LinkInv' /\ [Next]_vars => [Ledger!Next]_Stages
    BY StepsOfTheTable, LedgerKept
  <1> QED
    BY <1>1, <1>2, LinkInit, LedgerInit, TypeInvariant, PTL
       DEF Spec, KeepsLedger, Ledger!Spec, Stages
=============================================================================
