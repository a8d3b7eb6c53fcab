---------------------------- MODULE SessionProofs ----------------------------
(***************************************************************************)
(* Proofs about UploadSession, for any number of files, documents, edits   *)
(* and faults: the type invariant, that a file keeps one payload through   *)
(* all its retries, that a file shown as saved is stored, and that the     *)
(* uploads of the window keep the ledger, step by step.                    *)
(*                                                                         *)
(* The invariant relates every request ever sent to the queue: a request   *)
(* of the present edit is exactly what would be sent again.                *)
(***************************************************************************)
EXTENDS UploadSession, TLAPS

-----------------------------------------------------------------------------
(* The inductive invariant *)

ItemType == [status : {"absent", "removed", "pending", "saved", "skipped", "failed", "unknown"},
             type : Type \cup {"none"}, action : {"keep", "replace", "skip"},
             target : 0..MaxDoc, resolved : BOOLEAN, content : 0..2,
             doc : 0..MaxDoc, warn : BOOLEAN, edit : 0..MaxEdit]
DocType == [state : {"none", "active", "superseded"},
            item : 0..MaxItem, type : Type \cup {"none"}, content : 0..2,
            target : 0..MaxDoc, post : {"open", "done", "cancelled"}]
RequestType == [item : 0..MaxItem, type : Type \cup {"none"}, content : 0..2,
                target : 0..MaxDoc, edit : 0..MaxEdit]
ReplyType == [says : {"none", "saved", "conflict", "lost"}, doc : 0..MaxDoc, open : BOOLEAN]
Working == {"resolve", "reconcile", "send", "sent", "lookup", "follow"}
WindowType == [pc : {"idle", "next", "closed"} \cup Working, at : 0..(MaxItem + 1),
               req : RequestType, reply : ReplyType]

ItemsTyped ==
  /\ item \in [Item -> ItemType]
  /\ \A i \in Item : /\ item[i].target # 0 => item[i].resolved
                     /\ item[i].resolved => item[i].action = "replace"
DocsTyped == doc \in [DocId -> DocType] /\ lost \subseteq Item

TypesOK ==
  /\ ItemsTyped
  /\ file \in [Item -> 0..2]
  /\ window \in WindowType
  /\ DocsTyped
  /\ late \subseteq sent /\ sent \subseteq RequestType

\* At most one document has an upload's ID, and only a document in use waits for
\* its follow-up.
DocsInv ==
  /\ \A d, e \in DocId : Live(d) /\ Live(e) /\ doc[d].item = doc[e].item /\ doc[d].item # Other
                           => d = e
  /\ \A d \in DocId : /\ doc[d].state = "active" => doc[d].post # "cancelled"
                      /\ doc[d].state = "superseded" => doc[d].post # "open"

Known(i) == item[i].action # "replace" \/ item[i].resolved

\* A request of the present edit is what would be sent again.
SentInv ==
  /\ \A r \in sent :
       /\ r.item \in Item /\ item[r.item].status # "absent"
       /\ item[r.item].status # "removed" =>
            /\ r.edit <= item[r.item].edit
            /\ item[r.item].content # 0
            /\ r.edit = item[r.item].edit => r = Request(r.item) /\ Known(r.item)
  /\ OnePayload

\* d is stored for the item, content, type and target, unless the item's document
\* was deleted.
Stored(d, i, t, c, g) ==
  /\ i \in Item /\ d \in DocId
  /\ i \notin lost => /\ doc[d].state # "none" /\ doc[d].item = i
                     /\ doc[d].content = c /\ doc[d].type = t
                     /\ doc[d].target \in {0, g}

SavedInv == \A i \in Item : item[i].status = "saved" =>
              Stored(item[i].doc, i, item[i].type, item[i].content, item[i].target)

WorkInv ==
  /\ window.pc \in Working => /\ cur \in Item
                              /\ item[cur].status \notin {"absent", "removed"}
  /\ window.pc \in Working => (window.pc = "follow" <=> item[cur].status = "saved")
  /\ window.pc \in {"reconcile", "send", "sent", "lookup"} => Known(cur)
  /\ window.pc = "sent" => window.req = Request(cur) /\ window.req \in sent
  /\ window.reply.says = "saved" =>
       LET r == window.req IN Stored(window.reply.doc, r.item, r.type, r.content, r.target)

SessionInv == TypesOK /\ DocsInv /\ SentInv /\ WorkInv /\ SavedInv

-----------------------------------------------------------------------------
(* What happens to the documents *)

\* Documents keep what was stored with them, but for those another client deletes.
DocsKept ==
  /\ lost \subseteq lost'
  /\ \A d \in DocId : doc[d].state # "none" /\ doc[d].item \in Item =>
       \/ doc[d].item \in lost'
       \/ /\ doc'[d].state # "none"
          /\ doc'[d].item = doc[d].item /\ doc'[d].type = doc[d].type
          /\ doc'[d].content = doc[d].content /\ doc'[d].target \in {0, doc[d].target}

LEMMA Numbers ==
  /\ MaxItem \in Nat /\ MaxDoc \in Nat /\ MaxEdit \in Nat
  /\ 0 \notin Item /\ 0 \notin DocId /\ Item \subseteq 0..MaxItem /\ DocId \subseteq 0..MaxDoc
  /\ 0 \in 0..MaxDoc /\ 0 \in 0..MaxItem /\ 0 \in 0..MaxEdit /\ 0 \in 0..2
  BY SessionAssumption DEF Item, DocId

LEMMA StoredStays ==
  ASSUME DocsKept, NEW d, NEW i, NEW t, NEW c, NEW g, Stored(d, i, t, c, g)
  PROVE  Stored(d, i, t, c, g)'
  BY DEF Stored, DocsKept

\* The stage of an upload is that of its one live document.
DocStage(x) == IF x.state = "active" THEN IF x.post = "open" THEN "open" ELSE "done"
               ELSE IF x.post = "cancelled" THEN "void" ELSE "retired"

LEMMA StageIs ==
  ASSUME DocsInv, NEW i \in Item
  PROVE  /\ RowsOf(i) = {} => Stage(i) = "absent"
         /\ \A d \in RowsOf(i) : Stage(i) = DocStage(doc[d])
  <1>1. RowsOf(i) = {} => Stage(i) = "absent"
    BY DEF Stage
  <1>2. ASSUME NEW d \in RowsOf(i) PROVE Stage(i) = DocStage(doc[d])
    <2>1. RowsOf(i) = {d}
      BY Numbers DEF RowsOf, DocsInv, Other
    <2>2. (CHOOSE e \in RowsOf(i) : TRUE) = d
      BY <2>1
    <2> QED  BY <1>2, <2>2 DEF Stage, DocStage
  <1> QED  BY <1>1, <1>2

LEMMA StageNext ==
  ASSUME DocsInv', NEW i \in Item
  PROVE  /\ RowsOf(i)' = {} => Stage(i)' = "absent"
         /\ \A d \in RowsOf(i)' : Stage(i)' = DocStage(doc'[d])
  <1>1. RowsOf(i)' = {} => Stage(i)' = "absent"
    BY DEF Stage
  <1>2. ASSUME NEW d \in RowsOf(i)' PROVE Stage(i)' = DocStage(doc'[d])
    <2>1. RowsOf(i)' = {d}
      BY Numbers DEF RowsOf, DocsInv, Other
    <2>2. (CHOOSE e \in RowsOf(i)' : TRUE) = d
      BY <2>1
    <2> QED  BY <1>2, <2>2 DEF Stage, DocStage
  <1> QED  BY <1>1, <1>2

LEMMA StageSame ==
  ASSUME DocsInv, DocsInv', NEW i \in Item, RowsOf(i)' = RowsOf(i),
         \A d \in RowsOf(i) : doc'[d].state = doc[d].state /\ doc'[d].post = doc[d].post
  PROVE  Stage(i)' = Stage(i)
  BY StageIs, StageNext DEF DocStage

Uploads == [i \in Item |-> Stage(i)]
LedgerStep == [Ledger!Next]_Uploads

DocsStep == DocsTyped' /\ DocsInv' /\ DocsKept /\ LedgerStep

LEMMA DocsSame ==
  ASSUME DocsTyped, DocsInv, UNCHANGED <<doc, lost>>
  PROVE  DocsStep
  <1>1. DocsTyped' /\ DocsInv' /\ DocsKept
    BY DEF DocsTyped, DocsInv, DocsKept, Live
  <1>2. Uploads' = Uploads
    BY DEF Uploads, Stage, RowsOf, Live
  <1> QED  BY <1>1, <1>2 DEF LedgerStep, DocsStep

\* The follow-up of a document is done, or not.
LEMMA Follows ==
  ASSUME DocsTyped, DocsInv, NEW d \in DocId, Live(d), doc' \in FollowUps(d, doc),
         lost' = lost
  PROVE  DocsStep
  <1>1. CASE doc' = doc
    BY <1>1, DocsSame
  <1>2. CASE doc' = [doc EXCEPT ![d].post = "done"] /\ doc[d].state = "active"
    <2>1. /\ doc'[d].state = doc[d].state /\ doc'[d].item = doc[d].item
          /\ doc'[d].type = doc[d].type /\ doc'[d].content = doc[d].content
          /\ doc'[d].target = doc[d].target /\ doc'[d].post = "done"
          /\ \A e \in DocId \ {d} : doc'[e] = doc[e]
          /\ DocsTyped'
      BY <1>2 DEF DocsTyped, DocType
    <2>2. \A e \in DocId : /\ Live(e)' <=> Live(e)
                           /\ doc'[e].item = doc[e].item /\ doc'[e].state = doc[e].state
      BY <2>1 DEF Live
    <2>3. DocsKept
      BY <2>1, <2>2 DEF DocsKept
    <2>4. DocsInv'
      BY <1>2, <2>1, <2>2 DEF DocsInv
    <2>5. \A i \in Item : RowsOf(i)' = RowsOf(i)
      BY <2>2 DEF RowsOf
    <2>6. \A i \in Item : d \notin RowsOf(i) => Stage(i)' = Stage(i)
      <3>1. \A i \in Item : \A e \in RowsOf(i) : e \in DocId
        BY DEF RowsOf
      <3> QED  BY <2>1, <2>4, <2>5, <3>1, StageSame
    <2>7. CASE doc[d].item \notin Item
      <3>1. \A i \in Item : d \notin RowsOf(i)
        BY <2>7 DEF RowsOf
      <3>2. Uploads' = Uploads
        BY <2>6, <3>1 DEF Uploads
      <3> QED  BY <2>1, <2>3, <2>4, <3>2 DEF DocsStep, LedgerStep
    <2>8. CASE doc[d].item \in Item
      <3>1. PICK u \in Item : d \in RowsOf(u) /\ (\A i \in Item : d \in RowsOf(i) => i = u)
        BY <2>8 DEF RowsOf
      <3>2. Stage(u) = DocStage(doc[d]) /\ Stage(u)' = "done"
        BY <1>2, <2>1, <2>4, <2>5, <3>1, StageIs, StageNext DEF DocStage
      <3>3. Uploads' = [Uploads EXCEPT ![u] = "done"]
        <4>1. \A i \in Item : Stage(i)' = IF i = u THEN "done" ELSE Stage(i)
          BY <2>6, <3>1, <3>2
        <4> QED  BY <3>1, <4>1, Zenon DEF Uploads
      <3>4. CASE doc[d].post = "open"
        <4>1. Uploads[u] = "open"
          BY <1>2, <3>1, <3>2, <3>4 DEF Uploads, DocStage
        <4> QED  BY <2>3, <2>4, <2>1, <3>1, <3>3, <4>1
              DEF DocsStep, LedgerStep, Ledger!Next, Ledger!Process, Uploads
      <3>5. CASE doc[d].post # "open"
        <4>1. Uploads[u] = "done"
          BY <1>2, <3>1, <3>2, <3>5 DEF Uploads, DocStage
        <4>2. Uploads' = Uploads
          BY <3>3, <4>1 DEF Uploads
        <4> QED  BY <2>1, <2>3, <2>4, <4>2 DEF DocsStep, LedgerStep
      <3> QED  BY <3>4, <3>5
    <2> QED  BY <2>7, <2>8
  <1> QED  BY <1>1, <1>2 DEF FollowUps

\* A new document of the upload is saved, in the place of its target.
LEMMA Inserts ==
  ASSUME DocsTyped, DocsInv, NEW r \in RequestType, NEW d \in DocId, r.item \in Item,
         RowsOf(r.item) = {}, r.target = 0 \/ r.target \in Active(r.type), Fresh(d),
         doc' \in FollowUps(d, Inserted(d, r)), lost' = lost
  PROVE  /\ DocsStep
         /\ Stored(d, r.item, r.type, r.content, r.target)'
  <1> DEFINE g == r.target
             u == r.item
  <1>1. /\ doc[d].state = "none" /\ g # d
        /\ g # 0 => g \in DocId /\ doc[g].state = "active" /\ doc[g].type = r.type
    <2>1. ~Live(d)
      BY SessionAssumption DEF Fresh, DocId
    <2>2. doc[d].state = "none"
      BY <2>1 DEF DocsTyped, DocType, Live
    <2> QED  BY <2>2, Numbers DEF Active
  <1>2. PICK p \in {"open", "done"} :
          /\ doc'[d] = [state |-> "active", item |-> u, type |-> r.type,
                        content |-> r.content, target |-> g, post |-> p]
          /\ \A e \in DocId \ {d} : doc'[e] = Inserted(d, r)[e]
          /\ DOMAIN doc' = DocId /\ doc' = [e \in DocId |-> doc'[e]]
    <2>1. Inserted(d, r)[d] = [state |-> "active", item |-> u, type |-> r.type,
                        content |-> r.content, target |-> g, post |-> "open"]
      BY DEF Inserted
    <2>2. DOMAIN Inserted(d, r) = DocId /\ Inserted(d, r) = [e \in DocId |-> Inserted(d, r)[e]]
      BY DEF Inserted
    <2> DEFINE docs == Inserted(d, r)
    <2>3. doc' = docs \/ doc' = [docs EXCEPT ![d].post = "done"]
      BY DEF FollowUps
    <2> HIDE DEF docs
    <2>4. CASE doc' = docs
      <3>1. /\ docs[d] = [state |-> "active", item |-> u, type |-> r.type,
                        content |-> r.content, target |-> g, post |-> "open"]
            /\ \A e \in DocId \ {d} : docs[e] = Inserted(d, r)[e]
            /\ DOMAIN docs = DocId /\ docs = [e \in DocId |-> docs[e]]
        BY <2>1, <2>2 DEF docs
      <3> QED  BY <2>4, <3>1
    <2>5. CASE doc' = [docs EXCEPT ![d].post = "done"]
      <3>1. /\ docs[d] = [state |-> "active", item |-> u, type |-> r.type,
                        content |-> r.content, target |-> g, post |-> "open"]
            /\ \A e \in DocId \ {d} : docs[e] = Inserted(d, r)[e]
            /\ DOMAIN docs = DocId /\ docs = [e \in DocId |-> docs[e]]
        BY <2>1, <2>2 DEF docs
      <3>2. doc' = [e \in DocId |-> IF e = d THEN [docs[d] EXCEPT !.post = "done"] ELSE docs[e]]
        BY <2>5, <3>1
      <3> QED  BY <3>1, <3>2
    <2> QED  BY <2>3, <2>4, <2>5
  <1>3. \A e \in DocId \ {d} :
          /\ e # g => doc'[e] = doc[e]
          /\ e = g => doc'[e] = [doc[e] EXCEPT !.state = "superseded",
                                   !.post = IF @ = "open" THEN "cancelled" ELSE @]
    BY <1>1, <1>2 DEF Inserted
  <1>4. \A e \in DocId \ {d} :
          /\ doc'[e].item = doc[e].item /\ doc'[e].type = doc[e].type
          /\ doc'[e].content = doc[e].content /\ doc'[e].target = doc[e].target
          /\ doc'[e].state = IF e = g THEN "superseded" ELSE doc[e].state
          /\ doc'[e].post = IF e = g /\ doc[e].post = "open" THEN "cancelled" ELSE doc[e].post
    <2> TAKE e \in DocId \ {d}
    <2>1. doc[e] \in DocType
      BY DEF DocsTyped
    <2>2. CASE e = g
      <3>1. doc'[e] = [doc[e] EXCEPT !.state = "superseded",
                         !.post = IF @ = "open" THEN "cancelled" ELSE @]
        BY <1>3, <2>2
      <3> QED  BY <2>1, <2>2, <3>1 DEF DocType
    <2>3. CASE e # g
      BY <1>3, <2>3
    <2> QED  BY <2>2, <2>3
  <1>5. /\ doc'[d].state = "active" /\ doc'[d].item = u /\ doc'[d].type = r.type
        /\ doc'[d].content = r.content /\ doc'[d].target = g /\ doc'[d].post = p
    BY <1>2
  <1>6. \A e \in DocId \ {d} : Live(e)' <=> Live(e)
    <2> TAKE e \in DocId \ {d}
    <2>1. CASE e = g
      <3>1. g # 0
        BY <2>1, Numbers
      <3> QED  BY <1>1, <1>4, <2>1, <3>1 DEF Live
    <2>2. CASE e # g
      BY <1>4, <2>2 DEF Live
    <2> QED  BY <2>1, <2>2
  <1>7. DocsTyped'
    <2>1. \A e \in DocId \ {d} : doc'[e] \in DocType
      <3> TAKE e \in DocId \ {d}
      <3>1. doc[e] \in DocType
        BY DEF DocsTyped
      <3>2. CASE e = g
        <4>1. doc'[e] = [doc[e] EXCEPT !.state = "superseded",
                           !.post = IF @ = "open" THEN "cancelled" ELSE @]
          BY <1>3, <3>2
        <4> QED  BY <3>1, <4>1 DEF DocType
      <3>3. CASE e # g
        BY <1>3, <3>1, <3>3
      <3> QED  BY <3>2, <3>3
    <2>2. doc'[d] \in DocType
      BY <1>2, Numbers DEF DocType, RequestType
    <2> QED  BY <1>2, <2>1, <2>2 DEF DocsTyped
  <1>8. DocsKept
    BY <1>1, <1>4, <1>6 DEF DocsKept
  <1>9. DocsInv'
    <2>2. ASSUME NEW e \in DocId, NEW f \in DocId, Live(e)', Live(f)',
                 doc'[e].item = doc'[f].item, doc'[e].item # Other
          PROVE  e = f
      <3>1. \A h \in DocId \ {d} : Live(h)' => doc[h].item # u
        BY <1>6 DEF RowsOf
      <3>2. CASE e = d \/ f = d
        BY <1>4, <1>5, <2>2, <3>1, <3>2
      <3>3. CASE e # d /\ f # d
        BY <1>4, <1>6, <2>2, <3>3 DEF DocsInv
      <3> QED  BY <3>2, <3>3
    <2>3. \A e \in DocId : /\ doc'[e].state = "active" => doc'[e].post # "cancelled"
                           /\ doc'[e].state = "superseded" => doc'[e].post # "open"
      BY <1>4, <1>5 DEF DocsInv
    <2> QED  BY <2>2, <2>3 DEF DocsInv
  <1>10. Stored(d, r.item, r.type, r.content, r.target)'
    BY <1>5 DEF Stored
  <1>11. Stage(u) = "absent" /\ Stage(u)' = p /\ u \in Item
    <2>1. d \in RowsOf(u)'
      BY <1>5 DEF RowsOf, Live
    <2> QED  BY <1>5, <1>9, <2>1, StageIs, StageNext DEF DocStage
  <1>12. \A i \in Item \ {u} : RowsOf(i)' = RowsOf(i)
    <2>1. ASSUME NEW i \in Item \ {u} PROVE \A e \in DocId : e \in RowsOf(i)' <=> e \in RowsOf(i)
      BY <1>1, <1>4, <1>5, <1>6, <2>1 DEF RowsOf, Live
    <2> QED  BY <2>1 DEF RowsOf
  <1>13. \A i \in Item \ {u} : g \notin RowsOf(i) => Stage(i)' = Stage(i)
    <2>1. \A i \in Item : \A e \in RowsOf(i) : e \in DocId /\ e # d
      BY <1>1 DEF RowsOf, Live
    <2> QED  BY <1>4, <1>9, <1>12, <2>1, StageSame
  <1>14. CASE \A i \in Item \ {u} : g \notin RowsOf(i)
    <2>1. \A i \in Item : Stage(i)' = IF i = u THEN p ELSE Stage(i)
      BY <1>11, <1>13, <1>14
    <2>2. Uploads' = [Uploads EXCEPT ![u] = p]
      BY <1>11, <2>1, Zenon DEF Uploads
    <2>3. Uploads[u] = "absent"
      BY <1>11 DEF Uploads
    <2>4. Ledger!Submit(u)
      BY <2>2, <2>3 DEF Ledger!Submit, Uploads
    <2> QED  BY <1>7, <1>8, <1>9, <1>10, <1>11, <2>4
         DEF DocsStep, LedgerStep, Ledger!Next
  <1>15. CASE \E i \in Item \ {u} : g \in RowsOf(i)
    <2>1. PICK o \in Item \ {u} : g \in RowsOf(o)
      BY <1>15
    <2>2. g \in DocId /\ doc[g].state = "active" /\ doc[g].item = o /\ g # 0
      BY <1>1, <2>1, Numbers DEF RowsOf
    <2>3. \A i \in Item \ {u, o} : Stage(i)' = Stage(i)
      BY <1>13, <2>2 DEF RowsOf
    <2>4. Stage(o) = DocStage(doc[g]) /\ Stage(o)' = DocStage(doc'[g])
      BY <1>9, <1>12, <2>1, StageIs, StageNext
    <2>5. Stage(o) \in {"open", "done"} /\ Stage(o)' = Ledger!OutOfUse(Stage(o))
      BY <1>1, <1>4, <2>2, <2>4 DEF DocStage, Ledger!OutOfUse, DocsInv
    <2>6. \A i \in Item : Stage(i)' = IF i = o THEN Ledger!OutOfUse(Stage(o))
                                      ELSE IF i = u THEN p ELSE Stage(i)
      BY <1>11, <2>1, <2>3, <2>5
    <2>7. Uploads' = [Uploads EXCEPT ![u] = p, ![o] = Ledger!OutOfUse(@)]
      BY <1>11, <2>1, <2>6 DEF Uploads
    <2>8. Uploads[u] = "absent" /\ Uploads[o] \in {"open", "done"}
      BY <1>11, <2>1, <2>5 DEF Uploads
    <2>9. Ledger!Submit(u)
      BY <2>7, <2>8 DEF Ledger!Submit, Uploads
    <2> QED  BY <1>7, <1>8, <1>9, <1>10, <1>11, <2>9
         DEF DocsStep, LedgerStep, Ledger!Next
  <1> QED  BY <1>14, <1>15

\* An answer of a request and what is stored when it says so.
LEMMA Serves ==
  ASSUME DocsTyped, DocsInv, NEW r \in RequestType, NEW a \in Answer, r.item \in Item,
         Serve(r, a), lost' = lost
  PROVE  /\ DocsStep
         /\ a \in ReplyType /\ a.says \in {"saved", "conflict"}
         /\ a.says = "saved" => Stored(a.doc, r.item, r.type, r.content, r.target)'
  <1>1. a \in ReplyType /\ a.says \in {"saved", "conflict"}
    <2>1. NoReply \in ReplyType
      BY Numbers DEF NoReply, ReplyType
    <2>2. Conflict \in ReplyType /\ Conflict.says = "conflict"
      BY <2>1 DEF Conflict, ReplyType
    <2>3. CASE a = Conflict
      BY <2>2, <2>3
    <2>4. CASE a # Conflict
      BY <2>4, Numbers DEF Answer, ReplyType
    <2> QED  BY <2>3, <2>4
  <1>2. CASE UNCHANGED doc /\ a = Conflict
    <2>1. a.says # "saved"
      BY <1>2 DEF Conflict, NoReply
    <2> QED  BY <1>1, <1>2, <2>1, DocsSame
  <1>3. ASSUME NEW d \in RowsOf(r.item), Matches(d, r), doc' \in FollowUps(d, doc),
               a = Saved(d, doc')
        PROVE  /\ DocsStep
               /\ Stored(a.doc, r.item, r.type, r.content, r.target)'
    <2>1. d \in DocId /\ Live(d) /\ doc[d].item = r.item
      BY DEF RowsOf
    <2>2. DocsStep
      BY <1>3, <2>1, Follows
    <2>3. Stored(d, r.item, r.type, r.content, r.target)
      BY <1>3, <2>1 DEF Stored, Matches, Live
    <2>4. Stored(d, r.item, r.type, r.content, r.target)'
      BY <2>2, <2>3, StoredStays DEF DocsStep
    <2>5. a.doc = d
      BY <1>3 DEF Saved
    <2> QED  BY <2>2, <2>4, <2>5
  <1>4. ASSUME RowsOf(r.item) = {}, r.target = 0 \/ r.target \in Active(r.type),
               NEW d \in DocId, Fresh(d), doc' \in FollowUps(d, Inserted(d, r)),
               a = Saved(d, doc')
        PROVE  /\ DocsStep
               /\ Stored(a.doc, r.item, r.type, r.content, r.target)'
    <2>1. a.doc = d
      BY <1>4 DEF Saved
    <2> QED  BY <1>4, <2>1, Inserts
  <1> QED  BY <1>1, <1>2, <1>3, <1>4 DEF Serve

\* The lookup of an upload may do its follow-up.
LEMMA LooksUp ==
  ASSUME DocsTyped, DocsInv, cur \in Item,
         \/ UNCHANGED doc
         \/ \E d \in RowsOf(cur) : doc' \in FollowUps(d, doc),
         lost' = lost
  PROVE  DocsStep
  <1>1. CASE UNCHANGED doc
    BY <1>1, DocsSame
  <1>2. ASSUME NEW d \in RowsOf(cur), doc' \in FollowUps(d, doc)
        PROVE  DocsStep
    <2>1. d \in DocId /\ Live(d)
      BY DEF RowsOf
    <2> QED  BY <1>2, <2>1, Follows
  <1> QED  BY <1>1, <1>2

LEMMA OthersAdd ==
  ASSUME DocsTyped, DocsInv, NEW d \in DocId, NEW t \in Type, Fresh(d),
         doc' = [doc EXCEPT ![d] = [NoDoc EXCEPT !.state = "active", !.type = t]],
         lost' = lost
  PROVE  DocsStep
  <1>1. doc[d].state = "none"
    <2>1. ~Live(d)
      BY SessionAssumption DEF Fresh, DocId
    <2> QED  BY <2>1 DEF DocsTyped, DocType, Live
  <1>2. /\ doc'[d].state = "active" /\ doc'[d].item = Other /\ doc'[d].target = 0
        /\ doc'[d].post = "done" /\ ~Live(d) /\ Live(d)' /\ Other = 0
        /\ DocsTyped'
    <2>1. NoDoc \in DocType
      BY Numbers DEF NoDoc, DocType, Other
    <2>2. [NoDoc EXCEPT !.state = "active", !.type = t] \in DocType
      BY <2>1 DEF DocType
    <2>3. doc'[d] = [NoDoc EXCEPT !.state = "active", !.type = t] /\ DocsTyped'
      BY <2>2 DEF DocsTyped
    <2>4. /\ doc'[d].state = "active" /\ doc'[d].item = Other /\ doc'[d].target = 0
          /\ doc'[d].post = "done"
      BY <2>3 DEF NoDoc
    <2> QED  BY <1>1, <2>3, <2>4 DEF Live, Other
  <1>3. \A e \in DocId \ {d} : doc'[e] = doc[e] /\ (Live(e)' <=> Live(e))
    BY DEF DocsTyped, Live
  <1>4. DocsTyped'
    BY <1>2
  <1>5. DocsKept
    BY <1>1, <1>3 DEF DocsKept
  <1>6. DocsInv'
    <2>2. \A e, f \in DocId : Live(e)' /\ Live(f)' /\ doc'[e].item = doc'[f].item
                                /\ doc'[e].item # Other => e = f
      BY <1>2, <1>3 DEF DocsInv
    <2>3. \A e \in DocId : /\ doc'[e].state = "active" => doc'[e].post # "cancelled"
                           /\ doc'[e].state = "superseded" => doc'[e].post # "open"
      BY <1>2, <1>3 DEF DocsInv
    <2> QED  BY <2>2, <2>3 DEF DocsInv
  <1>7. \A i \in Item : Stage(i)' = Stage(i)
    <2> TAKE i \in Item
    <2>1. \A e \in DocId : e \in RowsOf(i)' <=> e \in RowsOf(i)
      BY <1>1, <1>2, <1>3, Numbers DEF RowsOf
    <2>2. RowsOf(i)' = RowsOf(i)
      BY <2>1 DEF RowsOf
    <2>3. \A e \in RowsOf(i) : e \in DocId \ {d}
      BY <1>1 DEF RowsOf, Live
    <2> QED  BY <1>3, <1>6, <2>2, <2>3, StageSame
  <1>8. Uploads' = Uploads
    BY <1>7 DEF Uploads
  <1> QED  BY <1>4, <1>5, <1>6, <1>8 DEF DocsStep, LedgerStep

LEMMA OthersDelete ==
  ASSUME DocsTyped, DocsInv, NEW d \in DocId, Live(d),
         doc' = Deleted(d), lost' = lost \cup ({doc[d].item} \cap Item)
  PROVE  DocsStep
  <1>1. /\ doc'[d] = NoDoc /\ DOMAIN doc' = DocId /\ doc' = [e \in DocId |-> doc'[e]]
        /\ \A e \in DocId \ {d} : /\ doc'[e] \in DocType
                                  /\ doc'[e].state = doc[e].state
                                  /\ doc'[e].item = doc[e].item
                                  /\ doc'[e].type = doc[e].type
                                  /\ doc'[e].content = doc[e].content
                                  /\ doc'[e].post = doc[e].post
                                  /\ doc'[e].target \in {0, doc[e].target}
    <2>1. /\ doc'[d] = NoDoc /\ DOMAIN doc' = DocId /\ doc' = [e \in DocId |-> doc'[e]]
          /\ \A e \in DocId \ {d} :
               \/ doc'[e] = doc[e]
               \/ doc'[e] = [doc[e] EXCEPT !.target = 0]
      BY DEF Deleted
    <2>2. ASSUME NEW e \in DocId \ {d}
          PROVE  /\ doc'[e] \in DocType
                 /\ doc'[e].state = doc[e].state /\ doc'[e].item = doc[e].item
                 /\ doc'[e].type = doc[e].type /\ doc'[e].content = doc[e].content
                 /\ doc'[e].post = doc[e].post /\ doc'[e].target \in {0, doc[e].target}
      <3>1. doc[e] \in DocType
        BY DEF DocsTyped
      <3> QED  BY <2>1, <3>1, Numbers DEF DocType
    <2> QED  BY <2>1, <2>2
  <1>2. /\ ~Live(d)' /\ (\A e \in DocId \ {d} : Live(e)' <=> Live(e))
        /\ doc'[d].state = "none" /\ doc'[d].item = Other
    BY <1>1 DEF Live, NoDoc
  <1>3. DocsKept /\ DocsTyped'
    <2>1. DocsKept
      BY <1>1 DEF DocsKept
    <2>2. NoDoc \in DocType
      BY Numbers DEF NoDoc, DocType, Other
    <2> QED  BY <1>1, <2>1, <2>2 DEF DocsTyped
  <1>4. DocsInv'
    <2>4. \A e, f \in DocId : Live(e)' /\ Live(f)' /\ doc'[e].item = doc'[f].item
                                /\ doc'[e].item # Other => e = f
      BY <1>1, <1>2 DEF DocsInv
    <2>5. \A e \in DocId : /\ doc'[e].state = "active" => doc'[e].post # "cancelled"
                           /\ doc'[e].state = "superseded" => doc'[e].post # "open"
      BY <1>1, <1>2 DEF DocsInv
    <2> QED  BY <2>4, <2>5 DEF DocsInv
  <1>5. \A i \in Item : doc[d].item # i => Stage(i)' = Stage(i)
    <2> SUFFICES ASSUME NEW i \in Item, doc[d].item # i PROVE Stage(i)' = Stage(i)
      OBVIOUS
    <2>1. \A e \in DocId : e \in RowsOf(i)' <=> e \in RowsOf(i)
      BY <1>1, <1>2 DEF RowsOf
    <2>2. RowsOf(i)' = RowsOf(i)
      BY <2>1 DEF RowsOf
    <2>3. \A e \in RowsOf(i) : e \in DocId \ {d}
      BY DEF RowsOf
    <2> QED  BY <1>1, <1>4, <2>2, <2>3, StageSame
  <1>6. CASE doc[d].item \notin Item
    <2>1. Uploads' = Uploads
      BY <1>5, <1>6 DEF Uploads
    <2> QED  BY <1>1, <1>3, <1>4, <2>1 DEF DocsStep, LedgerStep
  <1>7. CASE doc[d].item \in Item
    <2>1. PICK u \in Item : u = doc[d].item
      BY <1>7
    <2>2. d \in RowsOf(u)
      BY <2>1 DEF RowsOf
    <2>3. Stage(u) = DocStage(doc[d])
      BY <2>2, StageIs
    <2>4. RowsOf(u)' = {}
      BY <1>1, <1>2, <2>1, Numbers DEF RowsOf, DocsInv, Other
    <2>5. Stage(u)' = "absent" /\ Stage(u) # "absent"
      BY <1>4, <2>3, <2>4, StageNext DEF DocStage
    <2>6. \A i \in Item : Stage(i)' = IF i = u THEN "absent" ELSE Stage(i)
      BY <1>5, <2>1, <2>5
    <2>7. Uploads' = [Uploads EXCEPT ![u] = "absent"] /\ Uploads[u] # "absent"
      BY <2>5, <2>6, Zenon DEF Uploads
    <2>8. Ledger!Delete(u)
      BY <2>7 DEF Ledger!Delete, Uploads
    <2> QED  BY <1>1, <1>3, <1>4, <2>8 DEF DocsStep, LedgerStep, Ledger!Next
  <1> QED  BY <1>6, <1>7

-----------------------------------------------------------------------------
(* What happens to the queue *)

LEMMA Together ==
  ASSUME ItemsTyped', file' \in [Item -> 0..2], window' \in WindowType, DocsStep,
         late' \subseteq sent', sent' \subseteq RequestType, SentInv', WorkInv', SavedInv'
  PROVE  SessionInv' /\ LedgerStep
  BY DEF SessionInv, TypesOK, DocsStep

\* One item changes to x.
LEMMA OneItem ==
  ASSUME ItemsTyped, NEW i \in Item, NEW x \in ItemType, x.target # 0 => x.resolved,
         x.resolved => x.action = "replace", item' = [item EXCEPT ![i] = x]
  PROVE  ItemsTyped' /\ item'[i] = x /\ \A j \in Item \ {i} : item'[j] = item[j]
  <1>1. item'[i] = x /\ \A j \in Item \ {i} : item'[j] = item[j]
    BY DEF ItemsTyped
  <1>2. item' \in [Item -> ItemType]
    BY DEF ItemsTyped
  <1> QED  BY <1>1, <1>2 DEF ItemsTyped

\* What the requests sent for an item allow to happen to it.
Carries(i) ==
  \/ item[i].status = "absent"
  \/ item[i].status # "removed" /\ item[i].content = 0
  \/ item'[i].status = "removed"
  \/ /\ item'[i].status # "absent" /\ item[i].status # "removed"
     /\ item'[i].content # 0 /\ item[i].edit <= item'[i].edit
     /\ item'[i].edit = item[i].edit /\ Known(i) => Request(i)' = Request(i) /\ Known(i)'

LEMMA SentStays ==
  ASSUME SentInv, ItemsTyped, ItemsTyped', sent \subseteq RequestType, sent' = sent,
         \A i \in Item : Carries(i)
  PROVE  SentInv'
  <1>1. OnePayload'
    BY DEF SentInv, OnePayload
  <1>2. ASSUME NEW r \in sent
        PROVE  /\ r.item \in Item /\ item'[r.item].status # "absent"
               /\ item'[r.item].status # "removed" =>
                    /\ r.edit <= item'[r.item].edit
                    /\ item'[r.item].content # 0
                    /\ r.edit = item'[r.item].edit => r = Request(r.item)' /\ Known(r.item)'
    <2>1. PICK i \in Item : i = r.item
      BY DEF SentInv
    <2>2. /\ item[i].status # "absent"
          /\ item[i].status # "removed" =>
               /\ r.edit <= item[i].edit /\ item[i].content # 0
               /\ r.edit = item[i].edit => r = Request(i) /\ Known(i)
      BY <2>1 DEF SentInv
    <2>3. Carries(i)
      OBVIOUS
    <2>4. item[i].edit \in Nat /\ item'[i].edit \in Nat /\ r.edit \in Nat
      BY DEF ItemsTyped, ItemType, RequestType
    <2>5. CASE item'[i].status = "removed"
      BY <2>1, <2>5
    <2>6. CASE item'[i].status # "removed"
      <3>1. /\ item'[i].status # "absent" /\ item'[i].content # 0
            /\ r.edit <= item'[i].edit
            /\ r.edit = item'[i].edit => r = Request(i)' /\ Known(i)'
        BY <2>2, <2>3, <2>4, <2>6 DEF Carries
      <3> QED  BY <2>1, <3>1
    <2> QED  BY <2>5, <2>6
  <1> QED  BY <1>1, <1>2 DEF SentInv

\* Only the outcome of the item is written.
Written(i) == /\ item[i].status \notin {"absent", "removed"}
              /\ item'[i].status \notin {"absent", "removed"}
              /\ item'[i].type = item[i].type /\ item'[i].action = item[i].action
              /\ item'[i].target = item[i].target /\ item'[i].resolved = item[i].resolved
              /\ item'[i].content = item[i].content /\ item'[i].edit = item[i].edit

LEMMA WrittenCarries ==
  ASSUME ItemsTyped, NEW i \in Item, Written(i) \/ item'[i] = item[i]
  PROVE  Carries(i)
  <1>1. item[i].edit \in Nat
    BY DEF ItemsTyped, ItemType
  <1> QED  BY <1>1 DEF Carries, Written, Known, Request

LEMMA SavedStays ==
  ASSUME SavedInv, DocsTyped, DocsInv, DocsStep,
         \A i \in Item : item'[i].status = "saved" =>
           \/ /\ item[i].status = "saved" /\ item'[i].doc = item[i].doc
              /\ item'[i].type = item[i].type /\ item'[i].content = item[i].content
              /\ item'[i].target = item[i].target
           \/ Stored(item[i].doc, i, item[i].type, item[i].content, item[i].target)'
  PROVE  SavedInv'
  <1> SUFFICES ASSUME NEW i \in Item, item'[i].status = "saved"
               PROVE  Stored(item[i].doc, i, item[i].type, item[i].content, item[i].target)'
    BY DEF SavedInv, Stored
  <1>1. CASE /\ item[i].status = "saved" /\ item'[i].doc = item[i].doc
             /\ item'[i].type = item[i].type /\ item'[i].content = item[i].content
             /\ item'[i].target = item[i].target
    <2>1. PICK d, t, c, g : d = item[i].doc /\ t = item[i].type /\ c = item[i].content
                            /\ g = item[i].target
      OBVIOUS
    <2>2. Stored(d, i, t, c, g)
      BY <1>1, <2>1 DEF SavedInv, Stored
    <2>3. Stored(d, i, t, c, g)'
      BY <2>2, StoredStays DEF DocsStep
    <2> QED  BY <1>1, <2>1, <2>3
  <1> QED  BY <1>1

\* A window that does not wait for an answer.
Rests == window.pc \in {"idle", "next", "closed"} /\ window.reply.says # "saved"

LEMMA RestsWork ==
  ASSUME Rests'
  PROVE  WorkInv'
  BY DEF Rests, WorkInv, Working

-----------------------------------------------------------------------------
(* The user's steps *)

USE DEF At, cur

\* The queue changes at one item, which is not the one at work.
LEMMA QueueStep ==
  ASSUME SessionInv, NEW i \in Item, NEW x \in ItemType, x.target # 0 => x.resolved,
         x.resolved => x.action = "replace", item' = [item EXCEPT ![i] = x],
         Carries(i), x.status # "saved", window.pc \in Working => i # cur,
         UNCHANGEDAllBut
  PROVE  SessionInv' /\ LedgerStep
  <1> USE DEF SessionInv, TypesOK
  <1>1. ItemsTyped' /\ item'[i] = x /\ \A j \in Item \ {i} : item'[j] = item[j]
    BY OneItem
  <1>2. DocsStep
    BY DocsSame DEF UNCHANGEDAllBut
  <1>3. SentInv'
    <2>1. \A j \in Item : Carries(j)
      <3>1. \A j \in Item \ {i} : Carries(j)
        BY <1>1, WrittenCarries
      <3> QED  BY <3>1
    <2> QED  BY <1>1, <2>1, SentStays DEF UNCHANGEDAllBut
  <1>4. SavedInv'
    <2>1. \A j \in Item : item'[j].status = "saved" => item'[j] = item[j]
      BY <1>1
    <2> QED  BY <1>2, <2>1, SavedStays
  <1>5. WorkInv'
    <2>1. window' = window /\ sent' = sent
      BY DEF UNCHANGEDAllBut
    <2>2. window.pc \in Working => window.at \in Item /\ item'[window.at] = item[window.at]
      BY <1>1 DEF WorkInv
    <2>3. /\ window.pc \in Working => item'[window.at].status \notin {"absent", "removed"}
          /\ window.pc \in Working =>
               (window.pc = "follow" <=> item'[window.at].status = "saved")
      BY <2>2 DEF WorkInv, Working
    <2>4. /\ window.pc \in {"reconcile", "send", "sent", "lookup"} => Known(cur)'
          /\ window.pc = "sent" => window.req = Request(cur)' /\ window.req \in sent
      BY <2>1, <2>2 DEF WorkInv, Working, Known, Request
    <2>5. window.reply.says = "saved" =>
            Stored(window.reply.doc, window.req.item, window.req.type, window.req.content,
                   window.req.target)'
      BY <2>1 DEF WorkInv, Stored, UNCHANGEDAllBut
    <2> QED  BY <2>1, <2>2, <2>3, <2>4, <2>5 DEF WorkInv
  <1> QED  BY <1>1, <1>2, <1>3, <1>4, <1>5, Together DEF UNCHANGEDAllBut

LEMMA NewItems ==
  ASSUME NEW t \in Type \cup {"none"}
  PROVE  /\ NewItem(t) \in ItemType /\ NewItem(t).target = 0 /\ NewItem(t).resolved = FALSE
         /\ NewItem(t).status = "pending"
  BY Numbers DEF NewItem, ItemType

LEMMA AbsentItem ==
  /\ Absent \in ItemType /\ Absent.target = 0 /\ Absent.resolved = FALSE
  /\ [Absent EXCEPT !.status = "removed"] \in ItemType
  /\ [Absent EXCEPT !.status = "removed"].status = "removed"
  /\ [Absent EXCEPT !.status = "removed"].target = 0
  /\ [Absent EXCEPT !.status = "removed"].resolved = FALSE
  <1>1. NewItem("none") \in ItemType /\ NewItem("none").target = 0
        /\ NewItem("none").resolved = FALSE
    BY NewItems
  <1>2. Absent \in ItemType /\ Absent.target = 0 /\ Absent.resolved = FALSE
    BY <1>1 DEF Absent, ItemType
  <1>3. [Absent EXCEPT !.status = "removed"] \in ItemType
    BY <1>2 DEF ItemType
  <1> QED  BY <1>2, <1>3 DEF ItemType

LEMMA AddFileStep ==
  ASSUME SessionInv, NEW i \in Item, AddFile(i)
  PROVE  SessionInv' /\ LedgerStep
  <1>1. window.pc \in Working => i # cur
    BY DEF SessionInv, WorkInv, AddFile
  <1>2. Carries(i)
    BY DEF AddFile, Carries
  <1> QED  BY <1>1, <1>2, NewItems, QueueStep DEF AddFile

LEMMA RemoveStep ==
  ASSUME SessionInv, NEW i \in Item, Remove(i)
  PROVE  SessionInv' /\ LedgerStep
  <1>1. window.pc \notin Working
    BY DEF Remove, Idle, Working
  <1> DEFINE x == [Absent EXCEPT !.status = "removed"]
  <1>2. item'[i].status = "removed"
    BY AbsentItem DEF Remove, SessionInv, TypesOK, ItemsTyped
  <1>3. Carries(i)
    BY <1>2 DEF Carries
  <1>4. item' = [item EXCEPT ![i] = x] /\ UNCHANGEDAllBut
    BY DEF Remove
  <1>5. x \in ItemType /\ x.status = "removed" /\ x.target = 0 /\ x.resolved = FALSE
    BY AbsentItem
  <1> HIDE DEF x
  <1> QED  BY <1>1, <1>3, <1>4, <1>5, QueueStep

LEMMA EditNumbers ==
  ASSUME SessionInv, NEW i \in Item, CanEdit(i)
  PROVE  /\ Edited(i) \in 0..MaxEdit /\ item[i].edit \in Nat
         /\ Edited(i) = item[i].edit \/ Edited(i) > item[i].edit
         /\ item[i].content # 0 => Edited(i) > item[i].edit
         /\ item[i] \in ItemType
  <1>1. item[i] \in ItemType /\ item[i].edit \in Nat
    BY DEF SessionInv, TypesOK, ItemsTyped, ItemType
  <1> QED  BY <1>1, Numbers DEF CanEdit, Edited

LEMMA SetTypeStep ==
  ASSUME SessionInv, NEW i \in Item, NEW t \in Type, SetType(i, t)
  PROVE  SessionInv' /\ LedgerStep
  <1> DEFINE x == [item[i] EXCEPT !.type = t, !.status = "pending",
                     !.target = 0, !.resolved = FALSE, !.edit = Edited(i)]
  <1>1. CanEdit(i) /\ item' = [item EXCEPT ![i] = x] /\ UNCHANGEDAllBut
    BY DEF SetType
  <1>2. window.pc \notin Working /\ item[i].status \in {"pending", "failed"}
    BY <1>1 DEF CanEdit, CanModify, Idle, Working
  <1>3. /\ x \in ItemType /\ x.status = "pending" /\ x.target = 0 /\ x.resolved = FALSE
        /\ x.content = item[i].content /\ x.edit = Edited(i)
    <2>1. item[i] \in ItemType /\ Edited(i) \in 0..MaxEdit
      BY <1>1, EditNumbers
    <2>2. x \in ItemType
      BY <2>1, Numbers DEF ItemType
    <2> QED  BY <2>1, <2>2 DEF ItemType
  <1> HIDE DEF x
  <1>4. item'[i] = x
    BY <1>1 DEF SessionInv, TypesOK, ItemsTyped
  <1>5. Carries(i)
    BY <1>1, <1>2, <1>3, <1>4, EditNumbers DEF Carries
  <1> QED  BY <1>1, <1>2, <1>3, <1>5, QueueStep

LEMMA SetActionStep ==
  ASSUME SessionInv, NEW i \in Item, NEW a \in {"keep", "replace", "skip"}, SetAction(i, a)
  PROVE  SessionInv' /\ LedgerStep
  <1> DEFINE x == [item[i] EXCEPT !.action = a, !.target = 0, !.resolved = FALSE,
                                  !.edit = Edited(i)]
  <1>1. CanEdit(i) /\ item' = [item EXCEPT ![i] = x] /\ UNCHANGEDAllBut
    BY DEF SetAction
  <1>2. window.pc \notin Working /\ item[i].status \in {"pending", "failed"}
    BY <1>1 DEF CanEdit, CanModify, Idle, Working
  <1>3. /\ x \in ItemType /\ x.status = item[i].status /\ x.target = 0 /\ x.resolved = FALSE
        /\ x.content = item[i].content /\ x.edit = Edited(i)
    <2>1. item[i] \in ItemType /\ Edited(i) \in 0..MaxEdit
      BY <1>1, EditNumbers
    <2>2. x \in ItemType
      BY <2>1, Numbers DEF ItemType
    <2> QED  BY <2>1, <2>2 DEF ItemType
  <1> HIDE DEF x
  <1>4. item'[i] = x
    BY <1>1 DEF SessionInv, TypesOK, ItemsTyped
  <1>5. Carries(i)
    BY <1>1, <1>2, <1>3, <1>4, EditNumbers DEF Carries
  <1> QED  BY <1>1, <1>2, <1>3, <1>5, QueueStep

LEMMA CloseStep ==
  ASSUME SessionInv, Close
  PROVE  SessionInv' /\ LedgerStep
  <1> USE DEF SessionInv, TypesOK
  <1>1. window' = [window EXCEPT !.pc = "closed"] /\ window' \in WindowType
        /\ window'.pc = "closed" /\ window'.reply = window.reply
    BY DEF Close, WindowType
  <1>2. DocsStep
    BY DocsSame DEF Close
  <1>3. SentInv'
    BY WrittenCarries, SentStays DEF Close, ItemsTyped
  <1>4. SavedInv'
    BY <1>2, SavedStays DEF Close
  <1>5. WorkInv'
    BY <1>1 DEF Close, WorkInv, Working, Stored
  <1> QED  BY <1>1, <1>2, <1>3, <1>4, <1>5, Together DEF Close, ItemsTyped

LEMMA SaveAllStep ==
  ASSUME SessionInv, SaveAll
  PROVE  SessionInv' /\ LedgerStep
  <1> USE DEF SessionInv, TypesOK
  <1>1. \A i \in Item : item'[i] = item[i]
                        \/ (\E s \in {"failed", "pending"} :
                              item'[i] = [item[i] EXCEPT !.status = s]
                              /\ item[i].status \notin {"absent", "removed"})
    BY DEF SaveAll, Unfit, Mixed, Checked, Finished, Queued
  <1>2. \A i \in Item : item'[i] \in ItemType
                        /\ (item'[i] = item[i] \/ Written(i))
                        /\ (item'[i] # item[i] => item'[i].status # "saved")
    <2> TAKE i \in Item
    <2>1. item[i] \in ItemType
      BY DEF ItemsTyped
    <2>2. CASE item'[i] = item[i]
      BY <2>1, <2>2
    <2>3. ASSUME NEW s \in {"failed", "pending"}, item'[i] = [item[i] EXCEPT !.status = s],
                 item[i].status \notin {"absent", "removed"}
          PROVE  item'[i] \in ItemType /\ Written(i) /\ item'[i].status # "saved"
      BY <2>1, <2>3 DEF ItemType, Written
    <2> QED  BY <1>1, <2>2, <2>3
  <1>3. ItemsTyped'
    <2>1. item' \in [Item -> ItemType]
      BY <1>2 DEF SaveAll
    <2> QED  BY <1>2, <2>1 DEF ItemsTyped, Written
  <1>4. DocsStep
    BY DocsSame DEF SaveAll
  <1>5. SentInv'
    BY <1>2, <1>3, WrittenCarries, SentStays DEF SaveAll
  <1>6. SavedInv'
    BY <1>2, <1>4, SavedStays
  <1>7. window' \in WindowType /\ window'.pc \in {"idle", "next"} /\ window'.reply = window.reply
        /\ window'.req = window.req
    <2>1. window \in WindowType /\ 1 \in 0..(MaxItem + 1)
      BY Numbers
    <2>2. CASE window' = window
      BY <2>1, <2>2 DEF SaveAll, Idle
    <2>3. CASE window' = [window EXCEPT !.pc = "next", !.at = 1]
      BY <2>1, <2>3 DEF WindowType
    <2> QED  BY <2>2, <2>3 DEF SaveAll
  <1>8. WorkInv'
    BY <1>7 DEF SaveAll, WorkInv, Working, Stored
  <1> QED  BY <1>3, <1>4, <1>5, <1>6, <1>7, <1>8, Together DEF SaveAll

-----------------------------------------------------------------------------
(* The steps of Save All *)

LEMMA Windows ==
  /\ IdleWindow \in WindowType /\ NoReply \in ReplyType /\ NoRequest \in RequestType
  /\ IdleWindow.reply = NoReply /\ NoReply.says = "none"
  <1>1. NoReply \in ReplyType /\ NoReply.says = "none"
    BY Numbers DEF NoReply, ReplyType
  <1>2. NoRequest \in RequestType
    BY Numbers DEF NoRequest, RequestType
  <1>3. 0 \in 0..(MaxItem + 1)
    BY Numbers
  <1> QED  BY <1>1, <1>2, <1>3 DEF IdleWindow, WindowType

\* The window goes on to the next item.
LEMMA Dones ==
  ASSUME cur \in Item, Done
  PROVE  window' \in WindowType /\ WorkInv'
  <1>1. cur + 1 \in 0..(MaxItem + 1)
    BY Numbers DEF Item
  <1>2. window' \in WindowType /\ window'.pc = "next" /\ window'.reply.says # "saved"
    BY <1>1, Windows DEF Done, WindowType
  <1> QED  BY <1>2, RestsWork DEF Rests

\* The window goes on with the item at work.
LEMMA Goes ==
  ASSUME window \in WindowType, NEW i \in Item, i = cur,
         NEW p \in Working \ {"sent"}, Goto(p),
         item'[i].status \notin {"absent", "removed"},
         p = "follow" <=> item'[i].status = "saved",
         p \in {"reconcile", "send", "lookup"} => Known(i)'
  PROVE  window' \in WindowType /\ WorkInv'
  <1>1. window' \in WindowType
    BY Windows DEF Goto, WindowType
  <1>2. window'.pc = p /\ window'.at = i /\ window'.reply.says # "saved"
    BY Windows DEF Goto, WindowType
  <1> QED  BY <1>1, <1>2 DEF WorkInv, Known

\* The queue stays.
LEMMA QueueStays ==
  ASSUME SessionInv, UNCHANGED <<item, sent>>, late' \subseteq sent,
                                 file' \in [Item -> 0..2],
         DocsStep, window' \in WindowType, WorkInv'
  PROVE  SessionInv' /\ LedgerStep
  <1> USE DEF SessionInv, TypesOK
  <1>1. ItemsTyped'
    BY DEF ItemsTyped
  <1>2. SentInv'
    BY <1>1, WrittenCarries, SentStays
  <1>3. SavedInv'
    BY SavedStays
  <1> QED  BY <1>1, <1>2, <1>3, Together

\* The window stays too.
LEMMA WindowStays ==
  ASSUME SessionInv, UNCHANGED <<item, window, sent>>, DocsStep
  PROVE  WorkInv'
  <1> USE DEF SessionInv, TypesOK
  <1>1. CASE window.reply.says = "saved"
    <2>1. PICK d, r : d = window.reply.doc /\ r = window.req
      OBVIOUS
    <2>2. Stored(d, r.item, r.type, r.content, r.target)
      BY <1>1, <2>1 DEF WorkInv
    <2>3. Stored(d, r.item, r.type, r.content, r.target)'
      BY <2>2, StoredStays DEF DocsStep
    <2> QED  BY <2>1, <2>3 DEF WorkInv, Known, Request, Working
  <1>2. CASE window.reply.says # "saved"
    BY <1>2 DEF WorkInv, Known, Request, Working
  <1> QED  BY <1>1, <1>2

\* The outcome of the item at work is written.
LEMMA Outcome ==
  ASSUME SessionInv, NEW i \in Item, i = cur, item[i].status \notin {"absent", "removed"},
         NEW x \in ItemType, x.status \notin {"absent", "removed"},
         x.type = item[i].type, x.action = item[i].action, x.target = item[i].target,
         x.resolved = item[i].resolved, x.content = item[i].content, x.edit = item[i].edit,
         item' = [item EXCEPT ![i] = x],
         DocsStep, x.status = "saved" => Stored(x.doc, i, x.type, x.content, x.target)',
         Done, UNCHANGED <<file, late, sent, lost>>
  PROVE  SessionInv' /\ LedgerStep
  <1> USE DEF SessionInv, TypesOK
  <1>1. ItemsTyped' /\ item'[i] = x /\ \A j \in Item \ {i} : item'[j] = item[j]
    BY OneItem DEF ItemsTyped
  <1>2. \A j \in Item : Carries(j)
    <2>1. \A j \in Item : Written(j) \/ item'[j] = item[j]
      BY <1>1 DEF Written
    <2> QED  BY <2>1, WrittenCarries
  <1>3. SentInv'
    BY <1>1, <1>2, SentStays
  <1>4. SavedInv'
    <2>1. x.status = "saved" =>
            Stored(item[i].doc, i, item[i].type, item[i].content, item[i].target)'
      BY <1>1
    <2> QED  BY <1>1, <2>1, SavedStays
  <1>5. window' \in WindowType /\ WorkInv'
    BY Dones
  <1> QED  BY <1>1, <1>3, <1>4, <1>5, Together

LEMMA Marks ==
  ASSUME SessionInv, NEW i \in Item, i = cur, item[i].status \notin {"absent", "removed"},
         NEW s \in {"failed", "unknown", "skipped"}, Mark(s), DocsStep,
         UNCHANGED <<file, late, sent, lost>>
  PROVE  SessionInv' /\ LedgerStep
  <1> DEFINE x == [item[i] EXCEPT !.status = s]
  <1>1. item[i] \in ItemType
    BY DEF SessionInv, TypesOK, ItemsTyped
  <1>2. item' = [item EXCEPT ![i] = x] /\ Done
    BY DEF Mark
  <1>3. /\ x \in ItemType /\ x.status = s
        /\ x.type = item[i].type /\ x.action = item[i].action /\ x.target = item[i].target
        /\ x.resolved = item[i].resolved /\ x.content = item[i].content
        /\ x.edit = item[i].edit
    BY <1>1 DEF ItemType
  <1> HIDE DEF x
  <1> QED  BY <1>2, <1>3, Outcome

LEMMA Records ==
  ASSUME SessionInv, NEW i \in Item, i = cur, item[i].status \notin {"absent", "removed"},
         NEW d \in DocId, NEW b \in BOOLEAN, Record(d, b), Done, DocsStep,
         NEW y, y = item[i], Stored(d, i, y.type, y.content, y.target)',
         UNCHANGED <<file, late, sent, lost>>
  PROVE  SessionInv' /\ LedgerStep
  <1> DEFINE x == [y EXCEPT !.status = "saved", !.doc = d, !.warn = b]
  <1>1. y \in ItemType
    BY DEF SessionInv, TypesOK, ItemsTyped
  <1>2. item' = [item EXCEPT ![i] = x]
    BY DEF Record
  <1>3. x \in ItemType
    BY <1>1, Numbers DEF ItemType
  <1>4. /\ x.status = "saved" /\ x.doc = d
        /\ x.type = y.type /\ x.action = y.action /\ x.target = y.target
        /\ x.resolved = y.resolved /\ x.content = y.content /\ x.edit = y.edit
    BY <1>1 DEF ItemType
  <1> HIDE DEF x
  <1> QED  BY <1>2, <1>3, <1>4, Outcome

\* The item at work, and what is known of it.
LEMMA AtWork ==
  ASSUME SessionInv, window.pc \in Working
  PROVE  /\ cur \in Item /\ item[cur].status \notin {"absent", "removed"}
         /\ item[cur] \in ItemType /\ Request(cur) \in RequestType
         /\ DocsTyped /\ DocsInv
  <1>1. cur \in Item /\ item[cur].status \notin {"absent", "removed"} /\ item[cur] \in ItemType
    BY DEF SessionInv, TypesOK, ItemsTyped, WorkInv
  <1>2. PICK i \in Item, y \in ItemType : i = cur /\ y = item[i]
    BY <1>1
  <1>3. Request(i) = [item |-> i, type |-> y.type, content |-> y.content,
                      target |-> y.target, edit |-> y.edit]
    BY <1>2 DEF Request
  <1>4. Request(i) \in RequestType
    BY <1>3, Numbers DEF ItemType, RequestType
  <1> QED  BY <1>1, <1>2, <1>4 DEF SessionInv, TypesOK

LEMMA NextItemStep ==
  ASSUME SessionInv, NextItem
  PROVE  SessionInv' /\ LedgerStep
  <1> USE DEF SessionInv, TypesOK
  <1>1. DocsStep
    BY DocsSame DEF NextItem
  <1>2. CASE cur \notin Item
    <2>1. window' \in WindowType /\ window'.pc \in {"idle", "closed"}
          /\ window'.reply.says # "saved" /\ item' = item
      BY <1>2, Windows DEF NextItem, WindowType
    <2>2. WorkInv'
      BY <2>1, RestsWork DEF Rests
    <2> QED  BY <1>1, <2>1, <2>2, QueueStays DEF NextItem
  <1>3. CASE cur \in Item
    <2>1. PICK i \in Item : i = cur
      BY <1>3
    <2>2. /\ item[i].status \notin {"absent", "removed"} <=> Queued(i)
          /\ ~Finished(i) => (FollowUpDue(i) <=> item[i].status = "saved")
      BY DEF Queued, Finished, FollowUpDue
    <2>3. CASE Finished(cur) /\ Done /\ UNCHANGED item
      <3>1. window' \in WindowType /\ WorkInv'
        BY <1>3, <2>3, Dones
      <3> QED  BY <1>1, <2>3, <3>1, QueueStays DEF NextItem
    <2>4. CASE ~Finished(cur) /\ item[cur].action = "skip" /\ Mark("skipped")
      BY <1>1, <2>1, <2>2, <2>4, Marks DEF NextItem, Finished
    <2>5. CASE Checked(cur) /\ item[cur].type = "none" /\ Mark("failed")
      BY <1>1, <2>1, <2>2, <2>5, Marks DEF NextItem, Finished, Checked
    <2>6. CASE /\ Checked(cur) /\ item[cur].type # "none"
               /\ Goto(IF FollowUpDue(cur) THEN "follow" ELSE "resolve")
               /\ UNCHANGED item
      <3>1. Queued(i)
        BY <2>1, <2>6 DEF Checked, Finished
      <3>2. window' \in WindowType /\ WorkInv'
        <4>1. CASE FollowUpDue(cur)
          BY <2>1, <2>2, <2>6, <3>1, <4>1, Goes DEF Checked, Working
        <4>2. CASE ~FollowUpDue(cur)
          BY <2>1, <2>2, <2>6, <3>1, <4>2, Goes DEF Checked, Working
        <4> QED  BY <4>1, <4>2
      <3> QED  BY <1>1, <2>6, <3>2, QueueStays DEF NextItem
    <2> QED  BY <1>3, <2>3, <2>4, <2>5, <2>6 DEF NextItem
  <1> QED  BY <1>2, <1>3

LEMMA ResolveStep ==
  ASSUME SessionInv, Resolve
  PROVE  SessionInv' /\ LedgerStep
  <1> USE DEF SessionInv, TypesOK
  <1>1. DocsStep /\ UNCHANGED <<file, late, sent, lost>>
    BY DocsSame DEF Resolve
  <1>2. PICK i \in Item, y \in ItemType : /\ i = cur /\ y = item[i]
                                          /\ y.status \notin {"absent", "removed"}
    BY AtWork DEF Resolve, Working
  <1> DEFINE found == Active(item[cur].type)
  <1>3. CASE TargetKnown /\ Goto(Resolved) /\ UNCHANGED <<item, faults>>
    <2>1. Resolved \in {"reconcile", "send"} /\ Known(i)' /\ item'[i].status # "saved"
      BY <1>2, <1>3 DEF Resolved, TargetKnown, Known, Resolve, WorkInv, Working
    <2>2. window' \in WindowType /\ WorkInv'
      <3>1. PICK p \in {"reconcile", "send"} : p = Resolved
        BY <2>1
      <3> QED  BY <1>2, <1>3, <2>1, <3>1, Goes DEF Working
    <2> QED  BY <1>1, <1>3, <2>2, QueueStays
  <1>4. CASE /\ ~TargetKnown
             /\ item' = [item EXCEPT ![cur].resolved = TRUE,
                      ![cur].target = IF found = {} THEN 0 ELSE CHOOSE d \in found : TRUE]
             /\ Goto(Resolved)
    <2>1. PICK g \in 0..MaxDoc : g = IF found = {} THEN 0 ELSE CHOOSE d \in found : TRUE
      <3>1. CASE found = {}
        BY <3>1, Numbers
      <3>2. CASE found # {}
        <4>1. (CHOOSE d \in found : TRUE) \in found
          BY <3>2
        <4> QED  BY <3>2, <4>1, Numbers DEF Active
      <3> QED  BY <3>1, <3>2
    <2> DEFINE x == [y EXCEPT !.resolved = TRUE, !.target = g]
    <2>2. x \in ItemType
      BY DEF ItemType
    <2>3. /\ x.status = y.status /\ x.action = "replace" /\ x.resolved = TRUE
          /\ x.doc = y.doc /\ x.type = y.type /\ x.content = y.content /\ x.target = g
          /\ x.edit = y.edit
      BY <1>2, <1>4 DEF ItemType, TargetKnown
    <2>4. item' = [item EXCEPT ![i] = x]
      <3>1. item' = [item EXCEPT ![i] = [[item[i] EXCEPT !.resolved = TRUE] EXCEPT !.target = g]]
        BY <1>2, <1>4, <2>1 DEF ItemsTyped
      <3> QED  BY <1>2, <3>1 DEF ItemType
    <2> HIDE DEF x
    <2>5. ItemsTyped' /\ item'[i] = x /\ \A j \in Item \ {i} : item'[j] = item[j]
      BY <2>2, <2>3, <2>4, OneItem
    <2>6. ~Known(i)
      BY <1>2, <1>4 DEF TargetKnown, Known
    <2>7. \A j \in Item : Carries(j)
      <3>1. Carries(i)
        <4>1. y.edit \in Nat
          BY DEF ItemType
        <4> QED  BY <1>2, <2>3, <2>5, <2>6, <4>1 DEF Carries
      <3> QED  BY <2>5, <3>1, WrittenCarries
    <2>8. SentInv'
      BY <1>1, <2>5, <2>7, SentStays
    <2>9. SavedInv'
      <3>1. item[i].status # "saved"
        BY <1>2 DEF Resolve, WorkInv, Working
      <3> QED  BY <1>1, <1>2, <2>3, <2>5, <3>1, SavedStays
    <2>10. window' \in WindowType /\ WorkInv'
      <3>1. PICK p \in {"reconcile", "send"} : p = Resolved
        BY DEF Resolved
      <3>2. Known(i)' /\ item'[i].status \notin {"absent", "removed", "saved"}
        BY <1>2, <2>3, <2>5 DEF Known, Resolve, WorkInv, Working
      <3> QED  BY <1>2, <1>4, <3>1, <3>2, Goes DEF Working
    <2> QED  BY <1>1, <2>5, <2>8, <2>9, <2>10, Together
  <1>5. CASE Mark("failed")
    BY <1>1, <1>2, <1>5, Marks
  <1> QED  BY <1>3, <1>4, <1>5 DEF Resolve

\* The answer to a lookup of the upload.
LEMMA Answered ==
  ASSUME SessionInv, window.pc \in Working, NEW i \in Item, i = cur, NEW y \in ItemType, y = item[i],
         UNCHANGED <<file, late, sent, lost>>,
         \/ \E d \in RowsOf(cur) :
              /\ Matches(d, Request(cur)) /\ doc' \in FollowUps(d, doc)
              /\ Record(d, doc'[d].post = "open") /\ Done
         \/ \E d \in RowsOf(cur) :
              doc' \in FollowUps(d, doc) /\ (Mark("failed") \/ Mark("unknown"))
         \/ (Mark("unknown") \/ Mark("failed")) /\ UNCHANGED doc
  PROVE  SessionInv' /\ LedgerStep
  <1>1. cur \in Item /\ item[i].status \notin {"absent", "removed"} /\ DocsTyped /\ DocsInv
    BY AtWork
  <1>2. ASSUME NEW d \in RowsOf(i), Matches(d, Request(i)), doc' \in FollowUps(d, doc),
               Record(d, doc'[d].post = "open"), Done
        PROVE  SessionInv' /\ LedgerStep
    <2>1. DocsStep
      BY <1>1, <1>2, LooksUp
    <2>2. Stored(d, i, y.type, y.content, y.target)
      BY <1>2 DEF RowsOf, Matches, Request, Stored, Live
    <2>3. Stored(d, i, y.type, y.content, y.target)'
      BY <1>1, <2>1, <2>2, StoredStays DEF DocsStep
    <2>4. d \in DocId /\ (doc'[d].post = "open") \in BOOLEAN
      BY DEF RowsOf
    <2> QED  BY <1>1, <1>2, <2>1, <2>3, <2>4, Records
  <1>3. ASSUME NEW d \in RowsOf(i), doc' \in FollowUps(d, doc), Mark("failed") \/ Mark("unknown")
        PROVE  SessionInv' /\ LedgerStep
    <2>1. DocsStep
      BY <1>1, <1>3, LooksUp
    <2> QED  BY <1>1, <1>3, <2>1, Marks
  <1>4. ASSUME Mark("failed") \/ Mark("unknown"), UNCHANGED doc
        PROVE  SessionInv' /\ LedgerStep
    <2>1. DocsStep
      BY <1>1, <1>4, DocsSame
    <2> QED  BY <1>1, <1>4, <2>1, Marks
  <1> QED  BY <1>2, <1>3, <1>4

LEMMA ReconcileStep ==
  ASSUME SessionInv, Reconcile
  PROVE  SessionInv' /\ LedgerStep
  <1> USE DEF SessionInv, TypesOK
  <1>1. window.pc = "reconcile" /\ window.pc \in Working /\ UNCHANGED <<file, late, sent, lost>>
    BY DEF Reconcile, Working
  <1>2. PICK i \in Item, y \in ItemType : i = cur /\ y = item[i]
    BY <1>1, AtWork
  <1>3. CASE Goto("send") /\ UNCHANGED <<item, doc>>
    <2>1. DocsStep
      BY <1>1, <1>3, AtWork, DocsSame
    <2>2. /\ item'[i].status \notin {"absent", "removed"} /\ item'[i].status # "saved"
          /\ Known(i)'
      BY <1>1, <1>2, <1>3 DEF WorkInv, Working, Known
    <2>3. window' \in WindowType /\ WorkInv'
      BY <1>2, <1>3, <2>2, Goes DEF Working
    <2> QED  BY <1>1, <1>3, <2>1, <2>3, QueueStays
  <1>4. CASE ~(Goto("send") /\ UNCHANGED <<item, doc>>)
    <2>1. \/ \E d \in RowsOf(cur) :
              /\ Matches(d, Request(cur)) /\ doc' \in FollowUps(d, doc)
              /\ Record(d, doc'[d].post = "open") /\ Done
          \/ \E d \in RowsOf(cur) :
              doc' \in FollowUps(d, doc) /\ (Mark("failed") \/ Mark("unknown"))
          \/ (Mark("unknown") \/ Mark("failed")) /\ UNCHANGED doc
      BY <1>4 DEF Reconcile, LookUp
    <2> HIDE DEF SessionInv
    <2> QED  BY <1>1, <1>2, <2>1, Answered
  <1> QED  BY <1>3, <1>4

LEMMA AfterLossStep ==
  ASSUME SessionInv, AfterLoss
  PROVE  SessionInv' /\ LedgerStep
  <1>1. window.pc \in Working /\ UNCHANGED <<file, late, sent, lost>>
    BY DEF AfterLoss, Working
  <1>2. PICK i \in Item, y \in ItemType : i = cur /\ y = item[i]
    BY <1>1, AtWork
  <1>3. \/ \E d \in RowsOf(cur) :
              /\ Matches(d, Request(cur)) /\ doc' \in FollowUps(d, doc)
              /\ Record(d, doc'[d].post = "open") /\ Done
        \/ \E d \in RowsOf(cur) :
              doc' \in FollowUps(d, doc) /\ (Mark("failed") \/ Mark("unknown"))
        \/ (Mark("unknown") \/ Mark("failed")) /\ UNCHANGED doc
    BY DEF AfterLoss, LookUp, Unconfirmed
  <1> QED  BY <1>1, <1>2, <1>3, Answered

LEMMA FollowUpStep ==
  ASSUME SessionInv, FollowUp
  PROVE  SessionInv' /\ LedgerStep
  <1> USE DEF SessionInv, TypesOK
  <1>1. window.pc = "follow" /\ window.pc \in Working /\ Done /\ UNCHANGED <<file, late, sent, lost>>
    BY DEF FollowUp, Working
  <1>2. PICK i \in Item, y \in ItemType : i = cur /\ y = item[i]
    BY <1>1, AtWork
  <1>3. PICK d : d = y.doc
    OBVIOUS
  <1>4. y.status = "saved"
    BY <1>1, <1>2 DEF WorkInv
  <1>5. d \in DocId /\ Stored(d, i, y.type, y.content, y.target)
    BY <1>2, <1>3, <1>4 DEF SavedInv, Stored
  <1>6. CASE Live(d) /\ doc' \in FollowUps(d, doc) /\ Record(d, doc'[d].post = "open")
    <2>1. DocsStep
      BY <1>1, <1>5, <1>6, Follows
    <2>2. Stored(d, i, y.type, y.content, y.target)'
      BY <1>5, <2>1, StoredStays DEF DocsStep
    <2>3. (doc'[d].post = "open") \in BOOLEAN
      OBVIOUS
    <2> HIDE DEF SessionInv, TypesOK
    <2> QED  BY <1>1, <1>2, <1>4, <1>5, <1>6, <2>1, <2>2, <2>3, Records
  <1>7. CASE UNCHANGED <<item, doc>>
    <2>1. DocsStep
      BY <1>1, <1>7, DocsSame
    <2>2. window' \in WindowType /\ WorkInv'
      BY <1>1, <1>2, Dones
    <2> QED  BY <1>1, <1>7, <2>1, <2>2, QueueStays
  <1> QED  BY <1>2, <1>3, <1>6, <1>7 DEF FollowUp

LEMMA SendStep ==
  ASSUME SessionInv, Send
  PROVE  SessionInv' /\ LedgerStep
  <1> USE DEF SessionInv, TypesOK
  <1>1. window.pc = "send" /\ window.pc \in Working /\ UNCHANGED <<file, doc, late, lost>>
    BY DEF Send, Working
  <1>2. PICK i \in Item, y \in ItemType : i = cur /\ y = item[i]
    BY <1>1, AtWork
  <1>3. DocsStep
    BY <1>1, DocsSame
  <1>4. y.status \notin {"absent", "removed", "saved"} /\ Known(i)
    BY <1>1, <1>2 DEF WorkInv, Working, Known
  <1>5. CASE Mark("failed") /\ UNCHANGED sent
    <2> HIDE DEF SessionInv, TypesOK
    <2> QED  BY <1>1, <1>2, <1>3, <1>4, <1>5, Marks
  <1>6. ASSUME NEW c \in 1..2, c = file[i], y.content \in {0, c},
               NEW r, r = [Request(i) EXCEPT !.content = c],
               item' = [item EXCEPT ![i].content = c],
               window' = [window EXCEPT !.pc = "sent", !.req = r, !.reply = NoReply],
               sent' = sent \cup {r}
        PROVE  SessionInv' /\ LedgerStep
    <2> DEFINE x == [y EXCEPT !.content = c]
    <2>1. x \in ItemType
      BY <1>6 DEF ItemType
    <2>2. /\ x.status = y.status /\ x.action = y.action /\ x.resolved = y.resolved
          /\ x.doc = y.doc /\ x.type = y.type /\ x.content = c /\ x.target = y.target
          /\ x.edit = y.edit
      BY DEF ItemType
    <2>3. item' = [item EXCEPT ![i] = x]
      BY <1>2, <1>6
    <2> HIDE DEF x
    <2>4. ItemsTyped' /\ item'[i] = x /\ \A j \in Item \ {i} : item'[j] = item[j]
      BY <1>2, <2>1, <2>2, <2>3, OneItem DEF ItemsTyped
    <2>5. r \in RequestType /\ r = Request(i)'
      <3>1. r = [item |-> i, type |-> y.type, content |-> c, target |-> y.target,
                 edit |-> y.edit]
        BY <1>2, <1>6 DEF Request
      <3>2. Request(i)' = r
        BY <2>2, <2>4, <3>1 DEF Request
      <3> QED  BY <3>1, <3>2, Numbers DEF ItemType, RequestType
    <2>6. r.item = i /\ r.edit = y.edit /\ y.edit \in Nat /\ Known(i)'
      BY <1>2, <1>4, <1>6, <2>2, <2>4 DEF Request, ItemType, Known
    <2>7. \A q \in sent : q.item = i /\ q.edit = y.edit => q = r
      <3>1. ASSUME NEW q \in sent, q.item = i, q.edit = y.edit PROVE q = r
        <4>1. q = Request(i) /\ y.content # 0
          BY <1>2, <1>4, <3>1 DEF SentInv
        <4>2. y.content = c
          BY <1>6, <4>1
        <4> QED  BY <1>2, <1>6, <4>1, <4>2 DEF Request
      <3> QED  BY <3>1
    <2>8. SentInv'
      <3>1. OnePayload'
        <4>1. \A p, q \in sent : p.item = q.item /\ p.edit = q.edit => p = q
          BY DEF SentInv, OnePayload
        <4>2. \A q \in sent : q.item = r.item /\ q.edit = r.edit => q = r
          BY <2>6, <2>7
        <4>3. \A p \in sent' : p \in sent \/ p = r
          BY <1>6
        <4> HIDE DEF SessionInv, TypesOK
        <4> QED  BY <4>1, <4>2, <4>3 DEF OnePayload
      <3>2. ASSUME NEW q \in sent, q.item # i
            PROVE  /\ q.item \in Item /\ item'[q.item].status # "absent"
                   /\ item'[q.item].status # "removed" =>
                        /\ q.edit <= item'[q.item].edit
                        /\ item'[q.item].content # 0
                        /\ q.edit = item'[q.item].edit =>
                             q = Request(q.item)' /\ Known(q.item)'
        BY <2>4, <3>2 DEF SentInv, Request, Known
      <3>3. ASSUME NEW q \in sent, q.item = i
            PROVE  /\ item'[i].status # "absent"
                   /\ q.edit <= item'[i].edit /\ item'[i].content # 0
                   /\ q.edit = item'[i].edit => q = Request(i)' /\ Known(i)'
        <4>1. q.edit <= y.edit
          BY <1>2, <1>4, <3>3 DEF SentInv
        <4> QED  BY <1>2, <1>4, <2>2, <2>4, <2>5, <2>6, <2>7, <3>3, <4>1
      <3>4. /\ item'[i].status # "absent" /\ r.edit <= item'[i].edit /\ item'[i].content # 0
        BY <1>2, <1>4, <2>2, <2>4, <2>6
      <3>5. \A q \in sent' : q \in sent \/ q = r
        BY <1>6
      <3> QED  BY <2>5, <2>6, <3>1, <3>2, <3>3, <3>4, <3>5 DEF SentInv
    <2>9. SavedInv'
      BY <1>2, <1>3, <1>4, <2>2, <2>4, SavedStays
    <2>10. window' \in WindowType /\ window'.pc = "sent" /\ window'.at = i /\ window'.req = r
           /\ window'.reply.says # "saved"
      BY <1>2, <1>6, <2>5, Windows DEF WindowType, Working
    <2>11. WorkInv'
      BY <1>2, <1>4, <1>6, <2>2, <2>4, <2>5, <2>6, <2>10 DEF WorkInv, Working
    <2>12. sent' \subseteq RequestType /\ late' \subseteq sent'
      BY <1>1, <1>6, <2>5
    <2> QED  BY <1>1, <1>3, <2>4, <2>8, <2>9, <2>10, <2>11, <2>12, Together
  <1>7. file[i] \in 0..2 /\ (file[i] # 0 => file[i] \in 1..2)
    BY <1>2
  <1> QED  BY <1>2, <1>5, <1>6, <1>7 DEF Send, Capture

LEMMA GotReplyStep ==
  ASSUME SessionInv, GotReply
  PROVE  SessionInv' /\ LedgerStep
  <1> USE DEF SessionInv, TypesOK
  <1>1. window.pc = "sent" /\ window.pc \in Working /\ UNCHANGED <<file, doc, late, sent, lost>>
    BY DEF GotReply, Working
  <1>2. PICK i \in Item, y \in ItemType : i = cur /\ y = item[i]
    BY <1>1, AtWork
  <1>3. DocsStep
    BY <1>1, DocsSame
  <1>4. y.status \notin {"absent", "removed", "saved"} /\ Known(i) /\ window.req = Request(i)
    BY <1>1, <1>2 DEF WorkInv, Working, Known
  <1>5. CASE /\ window.reply.says = "saved"
             /\ Record(window.reply.doc, window.reply.open) /\ Done
    <2>1. PICK d, b : d = window.reply.doc /\ b = window.reply.open
      OBVIOUS
    <2>2. b \in BOOLEAN
      BY <2>1 DEF WindowType, ReplyType
    <2>3. Stored(d, i, y.type, y.content, y.target)
      BY <1>2, <1>4, <1>5, <2>1 DEF WorkInv, Request
    <2>4. Stored(d, i, y.type, y.content, y.target)'
      BY <1>3, <2>3, StoredStays DEF DocsStep
    <2>5. d \in DocId
      BY <2>3 DEF Stored
    <2> HIDE DEF SessionInv, TypesOK
    <2> QED  BY <1>1, <1>2, <1>3, <1>4, <1>5, <2>1, <2>2, <2>4, <2>5, Records
  <1>6. CASE Mark("failed")
    <2> HIDE DEF SessionInv, TypesOK
    <2> QED  BY <1>1, <1>2, <1>3, <1>4, <1>6, Marks
  <1>7. CASE Goto("lookup") /\ UNCHANGED item
    <2>1. window' \in WindowType /\ WorkInv'
      BY <1>2, <1>4, <1>7, Goes DEF Working, Known
    <2> QED  BY <1>1, <1>3, <1>7, <2>1, QueueStays
  <1> QED  BY <1>5, <1>6, <1>7 DEF GotReply

-----------------------------------------------------------------------------
(* The requests, and what others do *)

LEMMA ServeCurrentStep ==
  ASSUME SessionInv, ServeCurrent
  PROVE  SessionInv' /\ LedgerStep
  <1> USE DEF SessionInv, TypesOK
  <1>1. window.pc = "sent" /\ UNCHANGED <<item, file, late, sent, lost>>
    BY DEF ServeCurrent
  <1>2. PICK a \in Answer : Serve(window.req, a) /\ window' = [window EXCEPT !.reply = a]
    BY DEF ServeCurrent
  <1>3. PICK r \in RequestType : r = window.req
    BY DEF WindowType
  <1>4. r \in sent /\ r.item \in Item
    BY <1>1, <1>3 DEF WorkInv, SentInv
  <1>5. /\ DocsStep /\ a \in ReplyType
        /\ a.says = "saved" => Stored(a.doc, r.item, r.type, r.content, r.target)'
    BY <1>1, <1>2, <1>3, <1>4, Serves
  <1>6. window' \in WindowType /\ window'.pc = window.pc /\ window'.at = window.at
        /\ window'.req = r /\ window'.reply = a
    BY <1>2, <1>3, <1>5 DEF WindowType
  <1>7. WorkInv'
    <2>1. a.says = "saved" => Stored(window.reply.doc, r.item, r.type, r.content, r.target)'
      BY <1>5, <1>6
    <2> QED  BY <1>1, <1>3, <1>6, <2>1 DEF WorkInv, Working, Known, Request
  <1> QED  BY <1>1, <1>5, <1>6, <1>7, QueueStays

LEMMA ServeLateStep ==
  ASSUME SessionInv, ServeLate
  PROVE  SessionInv' /\ LedgerStep
  <1> USE DEF SessionInv, TypesOK
  <1>1. PICK r \in late, a \in Answer : Serve(r, a) /\ late' = late \ {r}
    BY DEF ServeLate
  <1>2. r \in RequestType /\ r.item \in Item
    BY DEF SentInv
  <1>3. UNCHANGED <<item, file, window, sent, lost>>
    BY DEF ServeLate
  <1>4. DocsStep
    BY <1>1, <1>2, <1>3, Serves
  <1>5. WorkInv'
    <2> HIDE DEF SessionInv, TypesOK
    <2> QED  BY <1>3, <1>4, WindowStays
  <1> QED  BY <1>1, <1>3, <1>4, <1>5, QueueStays

LEMMA LoseReplyStep ==
  ASSUME SessionInv, LoseReply
  PROVE  SessionInv' /\ LedgerStep
  <1> USE DEF SessionInv, TypesOK
  <1>1. /\ window.pc = "sent" /\ UNCHANGED <<item, file, doc, sent, lost>>
        /\ window' = [window EXCEPT !.reply = [NoReply EXCEPT !.says = "lost"]]
    BY DEF LoseReply
  <1>2. DocsStep
    BY <1>1, DocsSame
  <1>3. [NoReply EXCEPT !.says = "lost"] \in ReplyType
        /\ [NoReply EXCEPT !.says = "lost"].says = "lost"
    BY Windows DEF ReplyType
  <1>4. /\ window' \in WindowType /\ window'.pc = window.pc /\ window'.at = window.at
        /\ window'.req = window.req /\ window'.reply.says = "lost"
    BY <1>1, <1>3 DEF WindowType
  <1>5. WorkInv'
    BY <1>1, <1>4 DEF WorkInv, Working, Known, Request
  <1>6. late' \subseteq sent
    BY <1>1 DEF LoseReply, WorkInv
  <1> QED  BY <1>1, <1>2, <1>4, <1>5, <1>6, QueueStays

LEMMA RefuseStep ==
  ASSUME SessionInv, Refuse
  PROVE  SessionInv' /\ LedgerStep
  <1> USE DEF SessionInv, TypesOK
  <1>1. /\ window.pc = "sent" /\ UNCHANGED <<item, file, doc, late, sent, lost>>
        /\ window' = [window EXCEPT !.reply = Conflict]
    BY DEF Refuse
  <1>2. DocsStep
    BY <1>1, DocsSame
  <1>3. Conflict \in ReplyType /\ Conflict.says = "conflict"
    BY Windows DEF ReplyType, Conflict
  <1>4. /\ window' \in WindowType /\ window'.pc = window.pc /\ window'.at = window.at
        /\ window'.req = window.req /\ window'.reply.says = "conflict"
    BY <1>1, <1>3 DEF WindowType
  <1>5. WorkInv'
    BY <1>1, <1>4 DEF WorkInv, Working, Known, Request
  <1> QED  BY <1>1, <1>2, <1>4, <1>5, QueueStays

LEMMA OtherAddsStep ==
  ASSUME SessionInv, OtherAdds
  PROVE  SessionInv' /\ LedgerStep
  <1>1. DocsStep
    BY OthersAdd DEF OtherAdds, SessionInv, TypesOK
  <1>2. WorkInv'
    BY <1>1, WindowStays DEF OtherAdds
  <1> QED  BY <1>1, <1>2, QueueStays DEF OtherAdds, SessionInv, TypesOK

LEMMA OtherDeletesStep ==
  ASSUME SessionInv, OtherDeletes
  PROVE  SessionInv' /\ LedgerStep
  <1>1. DocsStep
    BY OthersDelete DEF OtherDeletes, SessionInv, TypesOK
  <1>2. WorkInv'
    BY <1>1, WindowStays DEF OtherDeletes
  <1> QED  BY <1>1, <1>2, QueueStays DEF OtherDeletes, SessionInv, TypesOK

LEMMA FileChangesStep ==
  ASSUME SessionInv, FileChanges
  PROVE  SessionInv' /\ LedgerStep
  <1>1. DocsStep
    BY DocsSame DEF FileChanges, SessionInv, TypesOK
  <1>2. WorkInv'
    BY <1>1, WindowStays DEF FileChanges
  <1>3. file' \in [Item -> 0..2]
    BY DEF FileChanges, SessionInv, TypesOK, Content
  <1> QED  BY <1>1, <1>2, <1>3, QueueStays DEF FileChanges, SessionInv, TypesOK

LEMMA StutterStep ==
  ASSUME SessionInv, UNCHANGED vars
  PROVE  SessionInv' /\ LedgerStep
  <1> USE DEF vars
  <1>1. DocsStep
    BY DocsSame DEF SessionInv, TypesOK
  <1>2. WorkInv'
    BY <1>1, WindowStays
  <1> QED  BY <1>1, <1>2, QueueStays DEF SessionInv, TypesOK

-----------------------------------------------------------------------------
(* The theorems *)

LEMMA SessionInit ==
  ASSUME Init
  PROVE  SessionInv /\ Ledger!Init
  <1>1. Absent \in ItemType /\ Absent.target = 0 /\ Absent.resolved = FALSE
        /\ Absent.status = "absent"
    <2>1. Absent.status = "absent"
      BY DEF Absent, NewItem
    <2> QED  BY <2>1, AbsentItem
  <1>2. ItemsTyped
    BY <1>1 DEF Init, ItemsTyped
  <1>3. /\ NoDoc \in DocType /\ NoDoc.state = "none" /\ NoDoc.item = Other
        /\ NoDoc.target = 0 /\ NoDoc.post = "done"
    BY Numbers DEF NoDoc, DocType, Other
  <1>4. PICK t \in Type : doc \in {[d \in DocId |-> NoDoc],
          [d \in DocId |-> IF d = 1 THEN [NoDoc EXCEPT !.state = "active", !.type = t]
                                    ELSE NoDoc]}
    BY DEF Init
  <1> DEFINE first == [NoDoc EXCEPT !.state = "active", !.type = t]
  <1>5. /\ first \in DocType /\ first.state = "active" /\ first.item = Other
        /\ first.target = 0 /\ first.post = "done"
    BY <1>3 DEF DocType
  <1> HIDE DEF first
  <1>6. DocsTyped /\ \A d \in DocId : doc[d] = NoDoc \/ doc[d] = first
    <2>1. doc \in {[d \in DocId |-> NoDoc], [d \in DocId |-> IF d = 1 THEN first ELSE NoDoc]}
      BY <1>4 DEF first
    <2>2. CASE doc = [d \in DocId |-> NoDoc]
      BY <1>3, <2>2 DEF Init, DocsTyped
    <2>3. CASE doc = [d \in DocId |-> IF d = 1 THEN first ELSE NoDoc]
      BY <1>3, <1>5, <2>3 DEF Init, DocsTyped
    <2> QED  BY <2>1, <2>2, <2>3
  <1>7. \A d \in DocId : /\ doc[d].item = Other /\ doc[d].target = 0 /\ doc[d].post = "done"
    BY <1>3, <1>5, <1>6
  <1>8. DocsInv
    BY <1>7 DEF DocsInv
  <1>9. window \in WindowType /\ WorkInv
    BY Windows DEF Init, IdleWindow, WindowType, WorkInv, Working
  <1>10. SentInv
    BY DEF Init, SentInv, OnePayload
  <1>11. SavedInv
    BY <1>1 DEF Init, SavedInv
  <1>12. SessionInv
    BY <1>2, <1>6, <1>8, <1>9, <1>10, <1>11 DEF Init, SessionInv, TypesOK
  <1>13. \A i \in Item : RowsOf(i) = {}
    BY <1>7, Numbers DEF RowsOf, Other
  <1>14. \A i \in Item : Stage(i) = "absent"
    BY <1>8, <1>13, StageIs
  <1> QED  BY <1>12, <1>14 DEF Ledger!Init

LEMMA SessionNext ==
  ASSUME SessionInv, [Next]_vars
  PROVE  SessionInv' /\ LedgerStep
  <1>1. ASSUME NEW i \in Item, AddFile(i) PROVE SessionInv' /\ LedgerStep
    BY <1>1, AddFileStep
  <1>2. ASSUME NEW i \in Item, Remove(i) PROVE SessionInv' /\ LedgerStep
    BY <1>2, RemoveStep
  <1>3. ASSUME NEW i \in Item, NEW t \in Type, SetType(i, t) PROVE SessionInv' /\ LedgerStep
    BY <1>3, SetTypeStep
  <1>4. ASSUME NEW i \in Item, NEW a \in {"keep", "replace", "skip"}, SetAction(i, a)
        PROVE  SessionInv' /\ LedgerStep
    BY <1>4, SetActionStep
  <1>5. CASE Close
    BY <1>5, CloseStep
  <1>6. CASE SaveAll
    BY <1>6, SaveAllStep
  <1>7. CASE NextItem
    BY <1>7, NextItemStep
  <1>8. CASE Resolve
    BY <1>8, ResolveStep
  <1>9. CASE Reconcile
    BY <1>9, ReconcileStep
  <1>10. CASE Send
    BY <1>10, SendStep
  <1>11. CASE GotReply
    BY <1>11, GotReplyStep
  <1>12. CASE AfterLoss
    BY <1>12, AfterLossStep
  <1>13. CASE FollowUp
    BY <1>13, FollowUpStep
  <1>14. CASE ServeCurrent
    BY <1>14, ServeCurrentStep
  <1>15. CASE ServeLate
    BY <1>15, ServeLateStep
  <1>16. CASE LoseReply
    BY <1>16, LoseReplyStep
  <1>17. CASE OtherAdds
    BY <1>17, OtherAddsStep
  <1>18. CASE OtherDeletes
    BY <1>18, OtherDeletesStep
  <1>19. CASE FileChanges
    BY <1>19, FileChangesStep
  <1>20. CASE Refuse
    BY <1>20, RefuseStep
  <1>21. CASE UNCHANGED vars
    BY <1>21, StutterStep
  <1> QED  BY <1>1, <1>2, <1>3, <1>4, <1>5, <1>6, <1>7, <1>8, <1>9, <1>10, <1>11, <1>12,
              <1>13, <1>14, <1>15, <1>16, <1>17, <1>18, <1>19, <1>20, <1>21 DEF Next, Worker

\* The invariant of the window and the documents.
THEOREM SessionInvariant == Spec => []SessionInv
  <1>1. Init => SessionInv
    BY SessionInit
  <1>2. SessionInv /\ [Next]_vars => SessionInv'
    BY SessionNext
  <1> QED  BY <1>1, <1>2, PTL DEF Spec

\* The window and the documents are typed: edits are counted up to their bound,
\* and only an item that replaces a document has a target.
THEOREM SessionTyped == Spec => []SessionTypeOK
  <1>1. SessionInv => SessionTypeOK
    BY DEF SessionInv, TypesOK, ItemsTyped, ItemType, DocsTyped, DocType, WindowType,
           SessionTypeOK
  <1> QED  BY <1>1, SessionInvariant, PTL

\* A file that is sent again, after any losses, is sent as what it was the first
\* time: the retries of an upload cannot save two different documents.
THEOREM RetriesRepeatThePayload == Spec => []OnePayload
  <1>1. SessionInv => OnePayload
    BY DEF SessionInv, SentInv
  <1> QED  BY <1>1, SessionInvariant, PTL

\* What the window shows as saved is stored on the server, whichever of the answer,
\* the lookup and a late request told it so, unless another client deleted it: the
\* IDs of deleted documents are given out again, and no file takes one for its own.
THEOREM SavedMeansStored == Spec => []SavedIsStored
  <1>1. SessionInv => SavedIsStored
    BY DEF SessionInv, TypesOK, DocsTyped, DocType, SavedInv, Stored, SavedIsStored,
           RowsOf, Live
  <1> QED  BY <1>1, SessionInvariant, PTL

\* Every step of the window, of its requests and of the other clients is a step of
\* the ledger, or leaves it alone.
THEOREM SessionImplementsLedger == Spec => SessionKeepsLedger
  <1>1. Init => Ledger!Init
    BY SessionInit
  <1>2. SessionInv /\ [Next]_vars => LedgerStep
    BY SessionNext
  <1>3. LedgerStep <=> [Ledger!Next]_Uploads
    BY DEF LedgerStep
  <1> QED  BY <1>1, <1>2, <1>3, SessionInvariant, PTL
       DEF Spec, SessionKeepsLedger, Ledger!Spec, Uploads
=============================================================================
