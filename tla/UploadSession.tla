---------------------------- MODULE UploadSession ----------------------------
(***************************************************************************)
(* The upload window of the client (ui/dialogs/upload_session) and its     *)
(* requests (services/api_client.py), over a server that saves an upload   *)
(* in one step.  Replies are lost, requests that timed out are served      *)
(* late, files change on disk and other clients add and delete documents.  *)
(*                                                                         *)
(* The server part is an abstraction of DocumentUpload: like it, it is     *)
(* shown to implement UploadLedger.                                        *)
(***************************************************************************)
EXTENDS Naturals, FiniteSets

CONSTANTS
  MaxItem,     \* bound on the files of the window
  Type,        \* document types
  MaxDoc,      \* bound on the documents of the missionary
  MaxEdit,     \* bound on the edits of a file that is in the queue
  MaxMove,     \* bound on what other clients and programs do meanwhile
  MaxFault     \* bound on lost replies and failed calls

ASSUME SessionAssumption ==
  /\ {MaxItem, MaxDoc, MaxEdit, MaxMove, MaxFault} \subseteq Nat
  /\ MaxDoc >= 1 + MaxItem + MaxMove    \* the table never is the limit
  /\ "none" \notin Type

Item == 1..MaxItem              \* the upload ID of a file is made with its item
DocId == 1..MaxDoc
Content == 1..2                 \* the bytes of a file; 0: none
Other == 0                      \* the item of another client's document

VARIABLES
  item,      \* the queue of the window
  file,      \* file[i]: the present content of the selected file
  window,    \* the window's activity: its step, the item at work, its request
  doc,       \* the server's documents
  late,      \* requests the client has given up that may still be served
  sent,      \* history: every request ever sent
  lost,      \* history: the files whose document another client has deleted
  moves, faults

vars == <<item, file, window, doc, late, sent, lost, moves, faults>>

NewItem(t) == [status |-> "pending", type |-> t, action |-> "keep", target |-> 0,
               resolved |-> FALSE, content |-> 0, doc |-> 0, warn |-> FALSE, edit |-> 0]
Absent == [NewItem("none") EXCEPT !.status = "absent"]

NoDoc == [state |-> "none", item |-> Other, type |-> "none", content |-> 0,
          target |-> 0, post |-> "done"]
NoRequest == [item |-> 0, type |-> "none", content |-> 0, target |-> 0, edit |-> 0]
NoReply == [says |-> "none", doc |-> 0, open |-> FALSE]
IdleWindow == [pc |-> "idle", at |-> 0, req |-> NoRequest, reply |-> NoReply]

Init ==
  /\ item = [i \in Item |-> Absent]
  /\ file = [i \in Item |-> 1]
  /\ window = IdleWindow
  /\ \E t \in Type : doc \in {[d \in DocId |-> NoDoc],
       [d \in DocId |-> IF d = 1 THEN [NoDoc EXCEPT !.state = "active", !.type = t]
                                 ELSE NoDoc]}
  /\ late = {} /\ sent = {} /\ lost = {}
  /\ moves = 0 /\ faults = 0

Fault == faults < MaxFault /\ faults' = faults + 1
Move == moves < MaxMove /\ moves' = moves + 1

-----------------------------------------------------------------------------
(* The server *)

Live(d) == doc[d].state \in {"active", "superseded"}
RowsOf(i) == {d \in DocId : Live(d) /\ doc[d].item = i}

\* The largest ID in use plus one: the ID of a deleted last row is given out
\* again, whoever still has it in mind.
Fresh(d) == (\A e \in DocId : Live(e) => e < d) /\ (d > 1 => Live(d - 1))

\* Mutant of Matches: the upload ID is enough.
MatchesAny(d, r) == TRUE

Matches(d, r) == /\ doc[d].type = r.type /\ doc[d].content = r.content
                 /\ doc[d].target = r.target

Active(t) == {d \in DocId : doc[d].state = "active" /\ doc[d].type = t}

\* Mutant of FollowUps: the data of a replaced document may still be applied.
FollowUpsOfAny(d, docs) == {docs, [docs EXCEPT ![d].post = "done"]}

\* The follow-up of a saved document is tried with every request about it, as
\* long as the document is in use.
FollowUps(d, docs) ==
  {docs} \cup {e \in {[docs EXCEPT ![d].post = "done"]} : docs[d].state = "active"}

Inserted(d, r) == [e \in DocId |->
  CASE e = d -> [state |-> "active", item |-> r.item, type |-> r.type,
                 content |-> r.content, target |-> r.target, post |-> "open"]
    [] e = r.target /\ e # d -> [doc[e] EXCEPT !.state = "superseded",
                                   !.post = IF @ = "open" THEN "cancelled" ELSE @]
    [] OTHER -> doc[e]]

Saved(d, docs) == [says |-> "saved", doc |-> d, open |-> docs[d].post = "open"]
Conflict == [NoReply EXCEPT !.says = "conflict"]

Answer == [says : {"saved"}, doc : DocId, open : BOOLEAN] \cup {Conflict}

\* One upload request, with its answer.
Serve(r, a) ==
  \/ \E d \in RowsOf(r.item) :
       /\ Matches(d, r)
       /\ doc' \in FollowUps(d, doc)
       /\ a = Saved(d, doc')
  \/ /\ \E d \in RowsOf(r.item) : ~Matches(d, r)
     /\ a = Conflict
     /\ UNCHANGED doc
  \/ /\ RowsOf(r.item) = {}
     /\ IF r.target = 0 \/ r.target \in Active(r.type)
        THEN \E d \in DocId : /\ Fresh(d)
                              /\ doc' \in FollowUps(d, Inserted(d, r))
                              /\ a = Saved(d, doc')
        ELSE a = Conflict /\ UNCHANGED doc

-----------------------------------------------------------------------------
(* The queue, edited while nothing runs; files may be dropped on it any time *)

Idle == window.pc = "idle"
Queued(i) == item[i].status \notin {"absent", "removed"}
UNCHANGEDAllBut == UNCHANGED <<file, window, doc, late, sent, lost, moves, faults>>

AddFile(i) ==
  /\ window.pc # "closed"
  /\ item[i].status = "absent"
  /\ \A j \in Item : j < i => item[j].status # "absent"
  /\ item' = [item EXCEPT ![i] = NewItem("none")]
  /\ UNCHANGEDAllBut

CanModify(i) == Idle /\ item[i].status \in {"pending", "failed"}

\* Edits are counted from the first attempt on.
Edited(i) == IF item[i].content = 0 THEN item[i].edit ELSE item[i].edit + 1
CanEdit(i) == CanModify(i) /\ Edited(i) <= MaxEdit

\* set_document_type: the replacement has to be looked for again.
SetType(i, t) ==
  /\ CanEdit(i) /\ item[i].type # t
  /\ item' = [item EXCEPT ![i] = [@ EXCEPT !.type = t, !.status = "pending",
                !.target = 0, !.resolved = FALSE, !.edit = Edited(i)]]
  /\ UNCHANGEDAllBut

\* Mutant of SetAction: the target of the earlier choice stays.
SetActionOnly(i, a) ==
  /\ CanEdit(i) /\ item[i].action # a
  /\ item' = [item EXCEPT ![i] = [@ EXCEPT !.action = a, !.edit = Edited(i)]]
  /\ UNCHANGEDAllBut

SetAction(i, a) ==
  /\ CanEdit(i) /\ item[i].action # a
  /\ item' = [item EXCEPT ![i] = [@ EXCEPT !.action = a, !.target = 0,
                                           !.resolved = FALSE, !.edit = Edited(i)]]
  /\ UNCHANGEDAllBut

Remove(i) ==
  /\ Idle /\ Queued(i) /\ item[i].status # "unknown"
  /\ item' = [item EXCEPT ![i] = [Absent EXCEPT !.status = "removed"]]
  /\ UNCHANGEDAllBut

Close ==
  /\ Idle
  /\ \A i \in Item : item[i].status # "unknown"
  /\ window' = [window EXCEPT !.pc = "closed"]
  /\ UNCHANGED <<item, file, doc, late, sent, lost, moves, faults>>

-----------------------------------------------------------------------------
(* Save All *)

FollowUpDue(i) == item[i].status = "saved" /\ item[i].warn

\* Mutant of Finished: an upload in doubt is not taken up again.
FinishedOrUnknown(i) == ~Queued(i) \/ item[i].status \in {"skipped", "unknown"}
                          \/ (item[i].status = "saved" /\ ~item[i].warn)

Finished(i) == ~Queued(i) \/ item[i].status = "skipped"
                 \/ (item[i].status = "saved" /\ ~item[i].warn)
Checked(i) == ~Finished(i) /\ item[i].action # "skip"
Pinned(i) == item[i].status = "unknown" /\ item[i].content # 0

Unfit(i) == /\ Checked(i)
            /\ \/ file[i] = 0 /\ ~Pinned(i) /\ ~FollowUpDue(i)
               \/ item[i].type = "none"

\* A replacement saved together with another file of its type.
Mixed(i) ==
  LET batch == {j \in Item : /\ Checked(j) /\ ~Unfit(j) /\ ~FollowUpDue(j)
                             /\ item[j].type = item[i].type} IN
  i \in batch /\ Cardinality(batch) > 1 /\ \E j \in batch : item[j].action = "replace"

\* _preflight_save_all: one unfit file keeps all of them from being saved.
SaveAll ==
  /\ Idle
  /\ \E i \in Item : ~Finished(i)
  /\ item' = [i \in Item |->
       IF Unfit(i) \/ Mixed(i) THEN [item[i] EXCEPT !.status = "failed"]
       ELSE IF Checked(i) /\ item[i].status = "failed"
            THEN [item[i] EXCEPT !.status = "pending"]
            ELSE item[i]]
  /\ window' = IF \E i \in Item : Unfit(i) \/ Mixed(i) THEN window
               ELSE [window EXCEPT !.pc = "next", !.at = 1]
  /\ UNCHANGED <<file, doc, late, sent, lost, moves, faults>>

At(pc) == window.pc = pc
cur == window.at                \* the item at work
Goto(pc) == window' = [window EXCEPT !.pc = pc, !.req = NoRequest, !.reply = NoReply]
Done == window' = [IdleWindow EXCEPT !.pc = "next", !.at = cur + 1]
Mark(status) == item' = [item EXCEPT ![cur].status = status] /\ Done

Succeeded == \A i \in Item : Finished(i)

\* _save_all_next and the beginning of save_item.
NextItem ==
  /\ At("next")
  /\ IF cur \notin Item
     THEN /\ window' = [IdleWindow EXCEPT !.pc = IF Succeeded THEN "closed" ELSE "idle"]
          /\ UNCHANGED item
     ELSE \/ Finished(cur) /\ Done /\ UNCHANGED item
          \/ ~Finished(cur) /\ item[cur].action = "skip" /\ Mark("skipped")
          \/ Checked(cur) /\ item[cur].type = "none" /\ Mark("failed")
          \/ /\ Checked(cur) /\ item[cur].type # "none"
             /\ Goto(IF FollowUpDue(cur) THEN "follow" ELSE "resolve")
             /\ UNCHANGED item
  /\ UNCHANGED <<file, doc, late, sent, lost, moves, faults>>

Resolved == IF Pinned(cur) THEN "reconcile" ELSE "send"

\* Mutant of TargetKnown: the target is looked for with every attempt.
TargetUnknown == item[cur].action # "replace"

TargetKnown == item[cur].action # "replace" \/ item[cur].resolved

\* _resolve_replacement_document_id
Resolve ==
  /\ At("resolve")
  /\ LET found == Active(item[cur].type) IN
     \/ TargetKnown /\ Goto(Resolved) /\ UNCHANGED <<item, faults>>
     \/ /\ ~TargetKnown /\ Cardinality(found) <= 1
        /\ item' = [item EXCEPT ![cur].resolved = TRUE,
                      ![cur].target = IF found = {} THEN 0 ELSE CHOOSE d \in found : TRUE]
        /\ Goto(Resolved)
        /\ UNCHANGED faults
     \/ ~TargetKnown /\ Cardinality(found) > 1 /\ Mark("failed") /\ UNCHANGED faults
     \/ ~TargetKnown /\ Mark("failed") /\ Fault
  /\ UNCHANGED <<file, doc, late, sent, lost, moves>>

Request(i) == [item |-> i, type |-> item[i].type, content |-> item[i].content,
               target |-> item[i].target, edit |-> item[i].edit]

Record(d, open) == item' = [item EXCEPT ![cur] =
                     [@ EXCEPT !.status = "saved", !.doc = d, !.warn = open]]

\* GET /v1/document-uploads/{id}: what the lookup of the item's upload says.
\* It is absent, there, there with another payload, or the server is not reached;
\* and a client whose pairing is refused (401) takes the upload for failed.
LookUp(Absence, Mismatch) ==
  \/ RowsOf(cur) = {} /\ Absence /\ UNCHANGED <<doc, faults>>
  \/ \E d \in RowsOf(cur) :
       /\ Matches(d, Request(cur))
       /\ doc' \in FollowUps(d, doc)
       /\ Record(d, doc'[d].post = "open") /\ Done
       /\ UNCHANGED faults
  \/ \E d \in RowsOf(cur) : /\ ~Matches(d, Request(cur))
                            /\ doc' \in FollowUps(d, doc)
                            /\ Mark(Mismatch)
                            /\ UNCHANGED faults
  \/ \E status \in {"unknown", "failed"} : Mark(status) /\ Fault /\ UNCHANGED doc

\* reconcile_upload, before the bytes of an upload in doubt are sent again.
Reconcile ==
  /\ At("reconcile")
  /\ LookUp(Goto("send") /\ UNCHANGED item, "failed")
  /\ UNCHANGED <<file, late, sent, lost, moves>>

\* Mutant of Capture: the identity is that of the present file.
CaptureAgain(i) == TRUE

\* _capture_content_identity
Capture(i) == item[i].content \in {0, file[i]}

Send ==
  /\ At("send")
  /\ \/ /\ file[cur] # 0 /\ Capture(cur)
        /\ LET r == [Request(cur) EXCEPT !.content = file[cur]] IN
           /\ item' = [item EXCEPT ![cur].content = file[cur]]
           /\ window' = [window EXCEPT !.pc = "sent", !.req = r, !.reply = NoReply]
           /\ sent' = sent \cup {r}
     \/ (file[cur] = 0 \/ ~Capture(cur)) /\ Mark("failed") /\ UNCHANGED sent
  /\ UNCHANGED <<file, doc, late, lost, moves, faults>>

ServeCurrent ==
  /\ At("sent") /\ window.reply.says = "none"
  /\ \E a \in Answer : /\ Serve(window.req, a)
                     /\ window' = [window EXCEPT !.reply = a]
  /\ UNCHANGED <<item, file, late, sent, lost, moves, faults>>

ServeLate ==
  /\ \E r \in late, a \in Answer : Serve(r, a) /\ late' = late \ {r}
  /\ UNCHANGED <<item, file, window, sent, lost, moves, faults>>

\* The request is refused before it is looked at (401).
Refuse ==
  /\ At("sent") /\ window.reply.says = "none"
  /\ window' = [window EXCEPT !.reply = Conflict]
  /\ Fault
  /\ UNCHANGED <<item, file, doc, late, sent, lost, moves>>

\* The request or the answer is lost, late, or an error of the server.
LoseReply ==
  /\ At("sent") /\ window.reply.says # "lost"
  /\ window' = [window EXCEPT !.reply = [NoReply EXCEPT !.says = "lost"]]
  /\ late' = IF window.reply.says = "none" THEN late \cup {window.req} ELSE late
  /\ Fault
  /\ UNCHANGED <<item, file, doc, sent, lost, moves>>

GotReply ==
  /\ At("sent")
  /\ \/ /\ window.reply.says = "saved"
        /\ Record(window.reply.doc, window.reply.open)
        /\ Done
     \/ window.reply.says = "conflict" /\ Mark("failed")
     \/ window.reply.says = "lost" /\ Goto("lookup") /\ UNCHANGED item
  /\ UNCHANGED <<doc, file, late, sent, lost, moves, faults>>

\* Mutant of Unconfirmed: an upload that is not there has failed.
UnconfirmedFails == "failed"

Unconfirmed == "unknown"

\* lookup_upload after an ambiguous answer.
AfterLoss ==
  /\ At("lookup")
  /\ LookUp(Mark(Unconfirmed), "unknown")
  /\ UNCHANGED <<file, late, sent, lost, moves>>

\* _retry_saved_item_follow_up, by the document's ID.
FollowUp ==
  /\ At("follow")
  /\ LET d == item[cur].doc IN
     \/ /\ Live(d)
        /\ doc' \in FollowUps(d, doc)
        /\ Record(d, doc'[d].post = "open")
        /\ UNCHANGED faults
     \/ ~Live(d) /\ UNCHANGED <<item, doc, faults>>
     \/ Fault /\ UNCHANGED <<item, doc>>
  /\ Done
  /\ UNCHANGED <<file, late, sent, lost, moves>>

-----------------------------------------------------------------------------
(* Other clients and programs *)

OtherAdds ==
  /\ Move
  /\ \E d \in DocId, t \in Type :
       /\ Fresh(d)
       /\ doc' = [doc EXCEPT ![d] = [NoDoc EXCEPT !.state = "active", !.type = t]]
  /\ UNCHANGED <<item, file, window, late, sent, lost, faults>>

\* ON DELETE SET NULL clears the target column of the successor.
Deleted(d) == [e \in DocId |->
  IF e = d THEN NoDoc
  ELSE IF doc[e].target = d THEN [doc[e] EXCEPT !.target = 0] ELSE doc[e]]

OtherDeletes ==
  /\ Move
  /\ \E d \in DocId : /\ Live(d)
                      /\ doc' = Deleted(d)
                      /\ lost' = lost \cup ({doc[d].item} \cap Item)
  /\ UNCHANGED <<item, file, window, late, sent, faults>>

FileChanges ==
  /\ Move
  /\ \E i \in Item, c \in {0} \cup Content : c # file[i] /\ file' = [file EXCEPT ![i] = c]
  /\ UNCHANGED <<item, window, doc, late, sent, lost, faults>>

Worker == \/ NextItem \/ Resolve \/ Reconcile \/ Send \/ GotReply \/ AfterLoss \/ FollowUp

RemoveFailed == \E i \in Item : item[i].status = "failed" /\ Remove(i)

Next ==
  \/ \E i \in Item : \/ AddFile(i) \/ Remove(i)
                     \/ \E t \in Type : SetType(i, t)
                     \/ \E a \in {"keep", "replace", "skip"} : SetAction(i, a)
  \/ Close \/ SaveAll \/ Worker \/ ServeCurrent \/ ServeLate \/ Refuse \/ LoseReply
  \/ OtherAdds \/ OtherDeletes \/ FileChanges

\* The worker and the server go on.  The window cannot be closed over an upload
\* in doubt: its user clicks Save All again, and removes what it refuses.
Fairness == /\ WF_vars(Worker) /\ WF_vars(ServeCurrent)
            /\ WF_vars(SaveAll) /\ SF_vars(RemoveFailed)

Spec == Init /\ [][Next]_vars /\ Fairness

-----------------------------------------------------------------------------
(* Properties *)

\* Type invariant of the window and the documents.
SessionTypeOK ==
  /\ item \in [Item -> [status : {"absent", "removed", "pending", "saved", "skipped",
                                  "failed", "unknown"},
                        type : Type \cup {"none"}, action : {"keep", "replace", "skip"},
                        target : 0..MaxDoc, resolved : BOOLEAN, content : 0..2,
                        doc : 0..MaxDoc, warn : BOOLEAN, edit : 0..MaxEdit]]
  /\ \A i \in Item : /\ item[i].target # 0 => item[i].resolved
                     /\ item[i].resolved => item[i].action = "replace"
  /\ window.at \in 0..(MaxItem + 1)
  /\ doc \in [DocId -> [state : {"none", "active", "superseded"},
                        item : 0..MaxItem, type : Type \cup {"none"}, content : 0..2,
                        target : 0..MaxDoc, post : {"open", "done", "cancelled"}]]
  /\ late \subseteq sent /\ lost \subseteq Item

\* All requests for a file its user has not edited in between carry one payload:
\* upload ID, content, type and replacement target are those of the first one,
\* whatever has happened to the file and to the documents since.
OnePayload == \A r, q \in sent : r.item = q.item /\ r.edit = q.edit => r = q

\* A file shown as saved is stored as the document the window names, with its
\* content and type, and in the place of no document but its target, as long as
\* no other client has deleted that document (its ID may then be another's).
SavedIsStored == \A i \in Item : item[i].status = "saved" /\ i \notin lost =>
  LET d == item[i].doc IN
  /\ d \in RowsOf(i)
  /\ doc[d].content = item[i].content /\ doc[d].type = item[i].type
  /\ doc[d].target \in {0, item[i].target}

\* An upload in doubt does not stay so.
UnknownSettles == \A i \in Item : item[i].status = "unknown" ~> item[i].status # "unknown"

\* The uploads of the window keep the ledger, as those of DocumentUpload do.
Stage(i) ==
  IF RowsOf(i) = {} THEN "absent" ELSE
  LET d == CHOOSE d \in RowsOf(i) : TRUE IN
  IF doc[d].state = "active" THEN IF doc[d].post = "open" THEN "open" ELSE "done"
  ELSE IF doc[d].post = "cancelled" THEN "void" ELSE "retired"

Ledger == INSTANCE UploadLedger WITH UploadId <- Item, ledger <- [i \in Item |-> Stage(i)]
SessionKeepsLedger == Ledger!Spec

\* test_upload_batch_reliability.py:768 test_unknown_outcome_cannot_be_removed_or_
\* mutated_before_retry: an upload in doubt is given up by an attempt to settle
\* it, never by the window alone.
DoubtNeedsAnswer ==
  [][\A i \in Item : item[i].status = "unknown" => item'[i].status = "unknown" \/ ~Idle]_vars
=============================================================================
