------------------------------ MODULE Workflow ------------------------------
(***************************************************************************)
(* The stages of one missionary: the rows of workflow_stages, and the      *)
(* missionary's current_stage, status and tracking_profile.  Requests of   *)
(* several clients advance a stage, set a stage's status, derive WAITING   *)
(* from the uploaded papers, repair current_stage while they list the      *)
(* missionaries, or import a roster that changes the profile.  Each reads  *)
(* first and commits later; sessions do not flush before the commit, and   *)
(* the commit writes the columns whose value differs from the one read.    *)
(***************************************************************************)
EXTENDS Integers, Sequences, FiniteSetsExt, Functions

CONSTANTS
  Handler,     \* requests the server works on at a time
  LastStage,   \* the number of stages; the code has four
  MaxRequest,  \* bound: requests other than the repairs of current_stage
  MaxFault     \* bound: transactions that fail, requests that are cut short

ASSUME WorkflowAssumption == LastStage \in Nat \ {0} /\ {MaxRequest, MaxFault} \subseteq Nat

Stage   == 1 .. LastStage        \* WORKFLOW_STAGES in order
New     == 0                     \* current_stage "NEW": nothing is left to do
Dni     == LastStage + 1         \* current_stage "DNI"
Status  == {"NOT STARTED", "IN PROGRESS", "WAITING", "COMPLETED"}
Profile == {"LEGAL", "PERUVIAN_DNI"}

VARIABLES
  row,         \* workflow_stages in the order of their IDs
  mis,         \* the missionary's row
  papers,      \* stages whose required documents are all uploaded
  req,         \* what each handler is about to write
  spent        \* how much of each bound is used up

vars == <<row, mis, papers, req, spent>>

Fresh == [s \in Stage |-> [stage |-> s, status |-> "NOT STARTED"]]

(* What a request is about to commit: the statuses of rows, the columns of *)
(* the missionary, and what it does next; seen only observes, it is the    *)
(* set of the rows that were COMPLETED when the request read them.         *)
Nothing == [r \in {} |-> ""]
Idle    == [op |-> "idle", rows |-> Nothing, mis |-> Nothing, seen |-> {}]
Filling == [Idle EXCEPT !.op = "initialize"]

Init ==
  /\ row = <<>>
  /\ papers = {}
  /\ spent = [request |-> 0, fault |-> 0]
  /\ \E profile \in Profile, h \in Handler :
       /\ mis = [status  |-> "ACTIVE",
                 profile |-> profile,
                 current |-> IF profile = "LEGAL" THEN 1 ELSE Dni]
       /\ req = [g \in Handler |-> IF g = h /\ profile = "LEGAL" THEN Filling ELSE Idle]

-----------------------------------------------------------------------------
(* Reading the rows.                                                       *)

RowsOf(s) == {i \in DOMAIN row : row[i].stage = s}

(* A dictionary by stage name keeps the last row of each.                  *)
RowOf(s)    == Max(RowsOf(s))
Has(s)      == RowsOf(s) # {}

(* _earliest_incomplete_from_rows, as if the rows in set had that status.  *)
StatusIn(i, set) == IF i \in DOMAIN set THEN set[i] ELSE row[i].status
Open(set)        == {s \in Stage : ~ Has(s) \/ StatusIn(RowOf(s), set) # "COMPLETED"}
Earliest(set)    == IF Open(set) = {} THEN New ELSE Min(Open(set))

(* Was the stage COMPLETED for a request that has seen these rows so?      *)
Done(s, seen) == Has(s) /\ RowOf(s) \in seen

(* _complete_workflow_statuses                                             *)
Whole == \A s \in Stage : Cardinality(RowsOf(s)) = 1

(* required_documents_for_missionary: none of these stages asks anything   *)
(* of a missionary on the DNI track.                                       *)
Uploaded(s) == mis.profile = "PERUVIAN_DNI" \/ s \in papers

(* A request that has read everything and now wants these values.          *)
Reads(h, op, set, columns) ==
  LET rows == Restrict(set, {i \in DOMAIN set : set[i] # row[i].status})
      news == Restrict(columns, {c \in DOMAIN columns : columns[c] # mis[c]})
  IN  /\ req[h] = Idle
      /\ rows # Nothing \/ news # Nothing
      /\ req' = [req EXCEPT ![h] = [op |-> op, rows |-> rows, mis |-> news,
                                   seen |-> {i \in DOMAIN row : row[i].status = "COMPLETED"}]]
      /\ UNCHANGED <<row, mis, papers>>

Counted == /\ spent.request < MaxRequest
           /\ spent' = [spent EXCEPT !.request = @ + 1]

-----------------------------------------------------------------------------
(* The requests, up to their commit.                                       *)

(* Mutant of Ready: every stage that does not wait yet is made to wait.    *)
ReadyUnlessWaiting == {s \in Stage : Has(s) /\ Uploaded(s) /\ row[RowOf(s)].status # "WAITING"}

(* validate_workflows: the stages it moves to WAITING                      *)
Ready == {s \in Stage : /\ Has(s) /\ Uploaded(s)
                        /\ row[RowOf(s)].status \in {"NOT STARTED", "IN PROGRESS"}}

Validate(h) ==
  /\ Counted
  /\ Ready # {}
  /\ Reads(h, "validate", [i \in {RowOf(s) : s \in Ready} |-> "WAITING"],
                          [current |-> Max(Ready)])

(* update_workflow_status                                                  *)
Update(h) ==
  /\ Counted
  /\ \E i \in DOMAIN row, status \in Status :
       LET set == [j \in {i} |-> status]
           archives == row[i].stage = LastStage /\ status = "COMPLETED" /\ mis.status = "ACTIVE"
       IN  Reads(h, "update", set,
                 [current |-> Earliest(set),
                  status  |-> IF archives THEN "ARCHIVED" ELSE mis.status])

(* advance_missionary                                                      *)
Advance(h) ==
  LET stage == IF Earliest(Nothing) # New THEN Earliest(Nothing) ELSE mis.current
      set == [i \in {RowOf(s) : s \in {t \in {stage, stage + 1} \cap Stage : Has(t)}} |->
                IF row[i].stage = stage THEN "COMPLETED" ELSE "IN PROGRESS"]
  IN  /\ Counted
      /\ mis.profile # "PERUVIAN_DNI"
      /\ stage \in Stage
      /\ Reads(h, "advance", set,
               [current |-> IF stage < LastStage THEN stage + 1 ELSE mis.current,
                status  |-> IF stage < LastStage THEN mis.status ELSE "ARCHIVED"])

(* Mutant of Reconcile: only a stage that lags behind is repaired.         *)
ReconcileLagging(h) ==
  /\ mis.status = "ACTIVE" /\ mis.profile = "LEGAL"
  /\ Whole
  /\ mis.current < Earliest(Nothing)
  /\ Reads(h, "reconcile", Nothing, [current |-> Earliest(Nothing)])
  /\ UNCHANGED spent

(* reconcile_missionary_stages, at the head of every list of missionaries  *)
Reconcile(h) ==
  /\ mis.status = "ACTIVE" /\ mis.profile = "LEGAL"
  /\ Whole
  /\ Reads(h, "reconcile", Nothing, [current |-> Earliest(Nothing)])
  /\ UNCHANGED spent

(* DynamicsRosterService.apply for a missionary it knows; one who is not   *)
(* active is restored                                                      *)
Import(h) ==
  /\ Counted
  /\ \E profile \in Profile :
       LET legal == profile = "LEGAL" /\ mis.profile = "PERUVIAN_DNI"
       IN  Reads(h, IF legal THEN "legalize" ELSE "import", Nothing,
                 [status  |-> "ACTIVE",
                  profile |-> profile,
                  current |-> IF profile = "PERUVIAN_DNI" THEN Dni
                              ELSE IF legal THEN 1 ELSE mis.current])

(* archive_missionary, delete and restore by hand                          *)
Shelve(h) ==
  /\ Counted
  /\ Reads(h, "shelve", Nothing,
           [status |-> IF mis.status = "ACTIVE" THEN "ARCHIVED" ELSE "ACTIVE"])

(* check_for_archive: whatever the missionary's status is                  *)
Archive(h) ==
  /\ Counted
  /\ Has(LastStage) /\ row[Min(RowsOf(LastStage))].status = "COMPLETED"
  /\ Reads(h, "archive", Nothing, [status |-> "ARCHIVED"])

(* Uploads and deletes of documents, committed before they validate        *)
Paper ==
  /\ Counted
  /\ \E s \in Stage : papers' = (papers \ {s}) \cup ({s} \ papers)
  /\ UNCHANGED <<row, mis, req>>

-----------------------------------------------------------------------------
(* The commits.                                                            *)

Commit(h) ==
  /\ req[h].op \notin {"idle", "initialize"}
  /\ row' = [i \in DOMAIN row |-> [row[i] EXCEPT !.status = StatusIn(i, req[h].rows)]]
  /\ mis' = [c \in DOMAIN mis |-> IF c \in DOMAIN req[h].mis THEN req[h].mis[c] ELSE mis[c]]
  /\ req' = [req EXCEPT ![h] = IF req[h].op = "legalize" THEN Filling ELSE Idle]
  /\ UNCHANGED <<papers, spent>>

(* initialize_workflows, in a transaction of its own                       *)
Initialize(h) ==
  /\ req[h].op = "initialize"
  /\ row' = row \o Fresh
  /\ req' = [req EXCEPT ![h] = Idle]
  /\ UNCHANGED <<mis, papers, spent>>

(* The transaction is rolled back, or never begun.                         *)
Fail(h) ==
  /\ spent.fault < MaxFault
  /\ req[h] # Idle
  /\ req' = [req EXCEPT ![h] = Idle]
  /\ spent' = [spent EXCEPT !.fault = @ + 1]
  /\ UNCHANGED <<row, mis, papers>>

Serve(h) == Commit(h) \/ Initialize(h)

Next ==
  \/ Paper
  \/ \E h \in Handler :
       \/ Validate(h) \/ Update(h) \/ Advance(h) \/ Reconcile(h)
       \/ Import(h) \/ Shelve(h) \/ Archive(h)
       \/ Serve(h) \/ Fail(h)

Fairness ==
  /\ \A h \in Handler : WF_vars(Serve(h))
  /\ WF_vars(\E h \in Handler : Reconcile(h))

Spec == Init /\ [][Next]_vars /\ Fairness

-----------------------------------------------------------------------------
(* Properties.                                                             *)

(* Types: a request in progress writes existing rows and known columns.    *)
WorkflowTypeOK ==
  /\ row \in Seq([stage : Stage, status : Status])
  /\ mis \in [status : {"ACTIVE", "ARCHIVED"}, profile : Profile, current : 0 .. LastStage + 1]
  /\ papers \subseteq Stage
  /\ \A h \in Handler :
       /\ DOMAIN req[h] = {"op", "rows", "mis", "seen"}
       /\ \A i \in DOMAIN req[h].rows : i \in DOMAIN row /\ req[h].rows[i] \in Status

(* A stage that is COMPLETED stays so, whoever works on the missionary at  *)
(* the same time.  What takes it back is a request to set its status; an   *)
(* advance onto it, past a stage that was open (or with none open) when    *)
(* the advance read it; or a request that read it before it was completed. *)
(* In particular the papers, which are read after every upload and delete, *)
(* never take back a stage that was done before.                           *)
CompletedStays ==
  [][\A i \in DOMAIN row :
       row[i].status = "COMPLETED" /\ row'[i].status # "COMPLETED" =>
         \E h \in Handler :
           /\ req'[h] # req[h]
           /\ i \in DOMAIN req[h].rows
           /\ \/ req[h].op = "update"
              \/ /\ req[h].op = "advance"
                 /\ \/ ~ Done(row[i].stage - 1, req[h].seen)
                    \/ \A s \in Stage : Done(s, req[h].seen)
              \/ i \notin req[h].seen]_vars

(* Requests that overlap leave a current_stage that contradicts the rows.  *)
(* Once they are over, the next lists repair it, for every active legal    *)
(* missionary with one row per stage.                                      *)
StagesHeal ==
  []<>(mis.status = "ACTIVE" /\ mis.profile = "LEGAL" /\ Whole
         => mis.current = Earliest(Nothing))

(* A missionary on the DNI track is at the stage DNI and at no other.      *)
(* create_missionary says: "A Peruvian record follows the DNI-only track." *)
PeruvianIsOnDni == mis.profile = "PERUVIAN_DNI" => mis.current = Dni
=============================================================================
