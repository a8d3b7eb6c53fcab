# Verification of Mission Legal

TLA+ models of Mission Legal, the desktop system (PySide clients, a FastAPI
server on the LAN, one SQLite database and a folder of document files) with
which a mission office tracks the legal papers of its missionaries. The models
are read from the code under `src/`, are checked with TLC on small instances
and proved about with TLAPS. They follow one rule: model
what is hard to test, that is, what happens between two transactions, two
requests, two processes, or a step and a crash.

## The system

| Component | State it keeps | Hard behaviour | Module |
|---|---|---|---|
| Document upload, server side (`services/document_service.py`) | rows of `documents`, files under the storage root | attempts with one upload ID at once, COMMIT of unknown outcome, clean-up of files, crash between commit and follow-up | `DocumentUpload` |
| Post-processing (`services/upload_pipeline.py`) | status of a row, missionary fields and their sources | racing retries, replacement during a retry | `DocumentUpload` |
| Residency (`services/residency_service.py`) | `residency_events` | two prorroga slots, references to deleted documents | `DocumentUpload` |
| Upload session (`ui/dialogs/upload_session/`), `api_client.upload` | queue of files with upload ID, content identity, pinned target | reply lost, outcome unknown, repetition must be identical | `UploadSession` |
| Pairing (`server/security.py`, `services/client_pairing_service.py`) | code file, device file, the client's journal, settings, certificate, pointer, credential | lost replies, expiry, crash between five local writes | `PairingServer`, `Pairing` |
| Appointments (`services/appointment_service.py`) | `appointments`, dates of the missionary | status checked and written in different transactions, follow-up task after the commit | `OfficeTables`, `OfficeWork` |
| Secretary work, automation (`services/secretary_work_service.py`, `services/process_automation_service.py`) | tasks, links, temporary groups | every client runs the automation; a run must not double what is there, closed tasks stay closed | `ProcessAutomation`, `OfficeTables`, `OfficeWork` |
| Database and migrations (`database/`) | schema version, ledger | failure between migrations, two processes initialising | `Migrations`, `Server` |
| Backups, restore, set-up, installer (`services/database_backup_service.py`, `server_setup.py`, `deployment/installer/`) | snapshots, databases moved aside, receipt of an upgrade | replacement that stops half way, roll-back of a release | `Server` |
| Windows service (`windows_service.py`, `server_main.py`) | stop and restart flags, the uvicorn server | stop racing a start | `Server` |
| Missionaries, trash, archive (`services/missionary_service.py`), folders (`services/document_storage_service.py`, `onedrive_service.py`) | missionary rows, paths of documents, folders on disk | rename before commit, roll-back of a rename, moves racing uploads and repairs | `FolderTree`, `MissionaryFolders` |
| Workflow (`services/workflow_service.py`, `workflow_validator.py`), roster import (`services/dynamics_roster_service.py`) | stage rows, current stage, profile, status | decisions from a snapshot, column-wise writes | `Workflow` |

How they interact. A client's upload session sends an upload with an ID of its
own; the server streams the file to disk and calls `upload_document` in a
thread, which writes the file, then the row (retiring a replaced row in the same
transaction), then runs the post-processing, then validates the workflow. If the
reply is lost the client looks the upload up by its ID, and may post it again.
A missed appointment makes documents STALE and creates a task; the automation
derives tasks from documents and dates, each time a client refreshes its
dashboard. Trash, archive and restore move the folder that all documents of a
missionary point into; opening a document repairs its path. The last stage of
the workflow archives the missionary. A roster import creates, updates and
restores missionaries in bulk. The service migrates and backs up the one
database under all of it, and the installer replaces the service. A client gets
its credential by pairing.

The hazards of the code are listed line by line in `PROJECT.json`, each with the
properties that would catch it.

## Modules

| Module | Contents |
|---|---|
| `UploadLedger` | abstract specification: what may happen to an upload ID, without threads, network or failures |
| `DocumentUpload`, `MCDocumentUpload` | the server side of uploads; implements `UploadLedger` |
| `UploadSession`, `MCUploadSession` | the client's window and its requests, over a server that saves in one step; implements `UploadLedger` |
| `PairingServer`, `Pairing`, `MCPairing` | the server's stores and endpoints; the client's journaled transaction over them |
| `ProcessAutomation`, `OfficeTables`, `OfficeWork`, `MCOffice` | the rules as operators; the tables and their transactions; the requests that run on them |
| `Migrations`, `Server`, `MCServer` | the database as migrations see it; the server's life around it |
| `FolderTree`, `MissionaryFolders`, `MCMissionaryFolders` | folders and paths as operators; missionaries and their documents moving through them |
| `Workflow` | stages, current stage, profile and status of one missionary |
| `DocumentUploadProofs`, `DocumentFileProofs`, `SessionProofs`, `PairingProofs`, `OfficeProofs`, `ServerProofs`, `FoldersProofs`, `WorkflowProofs` | TLAPS |

A definition named "Mutant of ..." is the definition with a plausible bug. No
specification uses it: it is there to show that a property would notice.

### DocumentUpload and the code

State. `row` is the table `documents` indexed by row ID (`status`, `uid` =
`upload_id`, `payload`, `post` = `post_processing_status`, `file` =
`file_path`, `sup` = `supersedes_document_id`); `file` says of every
destination name whether it is unused, installed, damaged or removed; `slot` is
the two APPROVED prorroga events of `residency_events` with their
`document_id`; `field` is the appointment date of the missionary with the
document named in `field_sources`; `req[h]` is what thread `h` of the server is
doing, with the local variables of `upload_document` (`installed_by_this_attempt`
is `file # Nothing`, `commit_started` is `committing`). Two components of a row
only observe: `runs`, how often its data was applied, and `asked`, the
replacement target it was uploaded with.

| Action | Code |
|---|---|
| `BeginUpload` | first half of `upload_document`: lookup by upload ID, comparison, answer for a row that exists |
| `BeginRetry` | `GET /v1/document-uploads/{id}` and `POST .../retry-post-processing`, which verify the file and go on alike |
| `BeginDelete`, `DeleteRow`, `Unlink` | `delete_document_by_id` and `_delete_document_record`; `delete_document_by_type` is the same with the one active row of the type |
| `Store` | staging copy, checksum, fsync, `os.replace`, flush |
| `Commit` | the write transaction: the two UPDATEs of a replacement, the INSERT, COMMIT |
| `Recover` | the `except` branch: reconciliation, clean-up, answer |
| `Load`, `Apply`, `Record`, `Cancel` | `retry_document_post_processing`, `apply_missionary_updates`, `_record_post_processing_failure`, `_cancel_inactive_post_processing` |
| `Invalidate` | `AppointmentService._invalidate_documents` |
| `Crash`, `Damage` | the process dies; a stored file becomes unreadable |

Every step of a handler is one database transaction or one file operation, and
any step may fail where the code has an exception path. What a handler read
before a step may be stale in it: that is where the model finds what the tests
do not.

Abstractions.

- One missionary. Filters on `missionary_id` hold.
- A payload is all that `_assert_upload_matches` compares, bytes included. Three
  kinds matter: prorroga approvals (a slot), appointment papers with confirmed
  data (a field; they go STALE), and papers without post-processing.
- A write transaction is one step: SQLite has one writer, the first UPDATE or
  INSERT takes the lock, and reads outside of it see committed states only
  (WAL; `busy_timeout` 30 s, after which the transaction fails, as every
  transaction here may).
- SQLite's row IDs: the largest in use plus one. `documents.id` is not
  AUTOINCREMENT, so an ID can be given out again.
- Destination names contain a UUID: a name is never used twice.
- The arrival of a request is merged with its first read. A client reads its
  replacement target from the server now, or has sent it before with the same ID.
- Answers that no property tells apart are `"none"`.
- `validate_workflows`, a transaction of its own on other tables, is in `Workflow`;
  the legacy endpoint `apply-updates`, which clients call only against servers
  without durable status, is left out.

### UploadSession and the code

State. `item` is the queue (status, type, the user's decision, the pinned
replacement target `target` / `resolved`, the captured `content`, the document
the window names); `file` is what is on the client's disk by now; `window` is the
worker of Save All with the request it has sent and its reply; `doc` is the
server's table; `late` holds requests given up after a time-out that may still be
served. `sent` and `lost` (files whose document another client has deleted) only
observe.

| Action | Code |
|---|---|
| `AddFile`, `SetType`, `SetAction`, `Remove`, `Close` | the window's edits, with the conditions under which it allows them |
| `SaveAll`, `NextItem` | `_preflight_save_all`, `_save_all_next` |
| `Resolve`, `Reconcile`, `Send`, `FollowUp` | `save_item`: target, lookup, upload, repeated follow-up |
| `GotReply`, `AfterLoss` | `MissionLegalApiClient.upload` with its lookup after a lost reply |
| `ServeCurrent`, `ServeLate`, `LoseReply`, `Refuse` | the server and the network; a request refused with 401 |
| `OtherAdds`, `OtherDeletes`, `FileChanges` | other clients and programs |

The server saves an upload in one step: what its steps do among themselves is
`DocumentUpload`. Both are shown to implement `UploadLedger`, the one with
handlers and files, the other with a client and a network.

- Document IDs are given out as SQLite does it, the largest in use plus one: the ID
  of a deleted last document goes to the next upload, while the window may still
  have it pinned as a target or as the document it saved. `SavedIsStored` therefore
  leaves out the files whose document another client has deleted.
- A lookup finds the upload, does not, finds another payload, does not reach the
  server, or is refused with 401, which fails the file as the code does.

### Pairing and the code

`PairingServer` has the device store and the code file of every server; a store
operation holds the interprocess lock from read to write and is one step, an
endpoint authenticates in one step and acts in another. Codes lapse, pending
devices expire and are pruned by other requests, devices are revoked. `Pairing`
is `_pair_client_locked`: settings, certificate (saved, staged, backup), device
pointer, Credential Manager and journal, one action per durable write, forward
(`StartPair` ... `RecordConfirmed`, `Clean`, `Close`) and back (`SendCancel`,
`Forget`, `RestoreSettings`, `RestoreCa`, `RestorePointer`), and
`_recover_interrupted_pairing_locked` (`Recover`), which picks up wherever a
crash has left the journal. A certificate is the server it belongs to; the two
settings are one value. `KeyringFails` says whether Credential Manager may be
out of order; the run takes `FALSE`, the finding about it needs `TRUE`.

### The office's tables and the code

`ProcessAutomation` translates the rules: which payloads a snapshot of documents
and dates calls for, with the weekly clusters of prorrogas and the temporary
groups of a cluster. `OfficeTables` has one action per write transaction on
tasks, groups and appointments, whose arguments are what the session has read
before; foreign keys refuse what they would refuse. `OfficeWork` is requests made
of them: `Run` to `ArchiveObsolete` (one `create_or_update_automatic_task` per
payload, with its sessions), `ChangeTask`, `DeleteTask`, `UpdateDate` with
`SyncAppointments`, `MarkAppointment` with `FollowUp`.

- The payloads of a run are a set and `First` says which may be next, in the order
  of the code; where that depends on the order of windows and clusters, any order
  is allowed. `Starts` is the greedy scan of `_cluster_weekly_items`, day by day.

- READY, WAITING and OPEN are one status: the code treats them alike here.
- The two SELECTs of a run are one snapshot. The residency's expiration is a
  constant.
- One GVM rule and one after-event rule stand for several of one shape; the
  transfer, cancelation and biometric rules are left out. So are manual groups,
  projects, boards and texts.
- Nothing in a database of the current code keeps a second task from having the
  key of the first (finding 10), so overlapping runs may double a key here too;
  what looks a key up takes the first of its tasks, as the query does.

### Server, Migrations and the code

`Migrations` says of a database file which tables, version, ledger and parts of
the schema it has, and what `_validate_ledger`, adoption, `validate` and
`upgrade` make of it. Two migrations are about data: `BackFill` (migration 5) and
`Tidy` (migration 6), 2 and 3 in the instance. `Server` runs them: the loop of
`SvcDoRun` (`Loop`, `Build`, `Ran`), `SvcStop` in the control thread (`Stop`,
`EndServer`), the start of the application (`Check`, `Backup`, then `InitDb` to
`Migrate`, shared with the digest process), saves by the users, scheduled and
shutdown backups, and the tools (`Restore`, `Replace`, `Upgrade`, `Accept`,
`RollBack`).

- The tools run while the service is off, as they ask for; nothing starts the
  service under them.
- The OneDrive mirror, checksums, metadata and WAL side files of snapshots, and
  `create_all` on an existing database, are left out.
- `Keep` is 48 in the code; the run takes 1, the strictest pruning.

### MissionaryFolders and the code

State. `row` and `doc` are the two tables with `folder_path` and `file_path`; a
folder is an area (active, archive, trash) with a name; `dirs` and `disk` are what
is really there; `req[h]` is a request with the paths it has read; `seek` is the
repair that `resolve_document_path` is about to commit. A move is `BeginMove`,
`Choose` (a free destination), `Move` (the rename), `Commit` or `CommitFails` with
the roll-back, which looks (`Undo`) and then moves (`MoveBack`). `upset`
(missionaries whose requests overlapped or were cut short) and `purged` only
observe.

- One storage root; year and group subfolders are part of a name, stage
  subfolders are implicit; file names are unique and have a checksum.
- An upload that fails before its COMMIT takes its file away (`Unlink`). Once the
  COMMIT has begun the code keeps the file, as it cannot know whether the row is
  there: a COMMIT that fails leaves a file without a row (`KeepFile`, `"left"`),
  which then moves with the missionary's folder.
- After a failed commit, delete, archive, restore and the last stage call the
  roll-back twice (`commit_with_folder_rollback`, then their own `except`). The
  second call finds the source in place or the destination gone, unless another
  request of the same missionary came in between, and is left out.
- A copy with removal that succeeds is one rename. Sessions do not flush before
  the commit, so all updates happen in it.
- One repair at a time; requests go to the first free worker; IDs in order.

### Workflow and the code

State. `row` is `workflow_stages` in the order of IDs, `mis` the missionary's
status, profile and `current_stage`, `papers` the stages whose required documents
are all active, `req[h]` what a request is about to write. A request is two
steps: it reads everything (`Validate`, `Update`, `Advance`, `Reconcile`,
`Import`, `Shelve`, `Archive`) and writes the columns whose value differs from
the one it read (`Commit`), which is how the ORM builds its UPDATEs.
`Initialize` is a transaction of its own after the one that called for it.
`seen` only observes.

- One missionary, who is created or imported.
- Validation may run at any time; the code runs it after every upload and
  delete, and clients call it once more after a save.
- Trash and archive are one status, `"ARCHIVED"`. The log of stage changes and
  expiration dates are left out; the folder's move is in `MissionaryFolders`.

## Runs

| Run | Instance | Checks |
|---|---|---|
| `upload_retries` | 2 handlers, 1 upload ID, 2 files, 2 payloads, 1 row, 1 crash, 1 damage | `UploadTypeOK`, `RowKeepsItsFile`, `AppliedOnce`, `AnswerIsHonest`, `EveryRequestAnswered` |
| `upload_replace` | 2 handlers, 3 upload IDs, 3 files, 3 rows, prorrogas | `OneRowPerUpload`, `ReplacedIsFinal`, `ReplacedBySuccessor`, `SlotsAreEarned` |
| `upload_ledger` | 2 handlers, 2 upload IDs, appointment papers, 2 rows | `KeepsLedger`: refinement of `UploadLedger` |
| `upload_session` | 2 files of one type, 1 edit, 1 lost or refused request, 1 change from outside, 4 document IDs | `SessionTypeOK`, `OnePayload`, `SavedIsStored`, `UnknownSettles`, `SessionKeepsLedger`: refinement of `UploadLedger` |
| `pairing` | 2 servers, 2 devices, 1 code, 2 faults | `PairingTypeOK`, `ConnectionIsWhole`, `AgreesWithServer`, `OneDevicePerCode`, `ConnectionSwitches`, `PairingSettles` |
| `office_work` | 2 requests, 2 missionaries in one cluster, 2 runs, 2 edits, 1 document or day, 1 fault | `OfficeTypeOK`, `OneScheduled`, `FollowUpPromised`, `ClosedStaysClosed`, `RunsAddNoDouble`, `RunSettles`, `SyncSettles` |
| `server_life` | 3 versions, 3 starts, 1 save (a scan or an arrival date), 2 tools or digests, 1 fault | `ServerTypeOK`, `LedgerIsHonest`, `ChangeIsBackedUp`, `NothingIsDropped`, `RefusalIsJustified`, `StopSettles` |
| `folders` | 2 missionaries of one name or two, 1 document, 2 workers, 2 requests, 2 faults | `FoldersTypeOK`, `NothingIsLost`, `RowsAgree`, `Heals` |
| `workflow` | 2 handlers, 2 stages, 5 requests besides repairs, 1 fault | `CompletedStays`, `StagesHeal` |
| `upload_repeat`, `upload_row_reuse`, `server_roster` | as small as the scenario | findings: `RepeatIsNoConflict`, `AppliesOwnData`, `StartsAgain` are violated |

What the properties say, in words:

- Uploads on the server. `RowKeepsItsFile`: nobody but the deletion of a row
  removes its file, and no two rows share one. `AppliedOnce`: data is applied once
  if the document is COMPLETE and never otherwise. `AnswerIsHonest`: "failed"
  leaves no row with the attempt's file, "saved" has a row with its payload.
  `OneRowPerUpload`, `ReplacedBySuccessor`, `ReplacedIsFinal`: one row per upload
  ID, one successor per replaced row, in one step, and no retry of a replaced row.
  `SlotsAreEarned`: an approved prorroga names a COMPLETE document of its type,
  each at most once, in order, and no dangling ID that a later document inherits.
  `EveryRequestAnswered`: no handler retries or waits forever.
- Uploads seen from the client. `OnePayload`: all attempts with a file that was
  not edited in between send the same. `SavedIsStored`: "saved" means stored,
  with this content, in the place of no document but the chosen one, until another
  client deletes it.
  `UnknownSettles`: an upload in doubt does not stay so.
- Pairing. `ConnectionIsWhole`: between pairings the local stores belong
  together. `AgreesWithServer`: the computer holds the credential of each device
  that the server has confirmed. `OneDevicePerCode`. `ConnectionSwitches`: the
  connection changes in one step, to a confirmed device. `PairingSettles`: every
  interrupted pairing is finished or undone.
- Office. `OneScheduled`: one scheduled appointment. `RunsAddNoDouble`: a run that
  nothing disturbs adds no task for a key that has one, open or closed.
  `ClosedStaysClosed`: a run does not reopen what somebody closed.
  `FollowUpPromised`: a missed appointment has its task, or will. `RunSettles`,
  `SyncSettles`: a run or a date that nothing disturbs puts everything in order,
  whatever was left half done before.
- Server. `LedgerIsHonest`: version and ledger are true of the database and of
  every copy, and only a database of the running release is served.
  `ChangeIsBackedUp`: a start changes an existing database only with a backup of
  it. `NothingIsDropped`: no step takes saved work away that no copy has.
  `RefusalIsJustified`: a start is refused only for a newer database, a first
  creation cut short, another process, a failure, or what users have left that no
  later start repairs (`Stuck`, the case of finding 3). `StopSettles`: a stop that
  finds the server, or comes before the loop looks, ends the service.
- Folders. `NothingIsLost`: a stored document's file is on the disk.
  `RowsAgree`: rows, folders and files agree for every missionary whose requests
  came one after the other, failures included; no file is left of what was deleted
  or failed before its COMMIT. `Heals`: a file that is in one
  place is found again by opening the document.
- Workflow. `CompletedStays`: a completed stage is taken back by a request to do
  so, or by one that had not seen it completed, but not by the papers.
  `StagesHeal`: overlapping requests leave a `current_stage` that contradicts the
  rows; the lists repair it.

Bounds. Every bound is a constant named `Max...`. Two handlers, requests or
workers are enough for every race between a step and one other actor. Two rows
are enough for a replacement or the reuse of an ID, three for two replacements
of one document. One fault with what follows shows recovery; two show a
recovery that is interrupted (`pairing`, `folders`). Three schema versions have a
start between two migrations and one that both need. Two stages have a first, a
last and an advance between them. Two missionaries are enough for a cluster and
for namesakes. A limit that is reached ends the work of the model (deadlock is
not checked where it may: the users may always stop asking), or, in
`DocumentUpload`, takes a failure branch the code has anyway.

Fairness. Threads and processes that are in the middle of something go on:
`Serve(h)`, `ClientStep` and `ServeCurrent`, `Worker`, `ServiceSteps` and
`EndServer`, `Continue(h)`. Beyond that:

- `pairing`: after a crash the user opens the program again (`Recover`).
- `upload_session`: a window cannot be closed over an upload in doubt, so its user
  clicks Save All again (weak) and removes what it refuses (strong, since the
  file is only removable between two attempts).
- `folders`: documents are opened again and again, which is what repairs paths,
  and the repair commits.
- `workflow`: missionaries are listed again and again, which repairs
  `current_stage`.

Nothing is assumed of faults, other clients, or the clock. Liveness is checked
without symmetry; in `office_work` the properties are of single steps.

## Findings

Where code and promise differ. Three have runs that end in the violation:

1. `upload_repeat`: document A replaces T; T is deleted; the foreign key clears A's
   reference to T; the same upload of A, repeated or reconciled, is now
   "different" and is refused as a conflict (`document_service.py:927`).
2. `upload_row_reuse`: a retry reads the data of row 1; row 1 is deleted; another
   upload becomes row 1; the retry claims it and applies the old data
   (`document_service.py:662`).
3. `server_roster`: a roster import sets an arrival date without last entry date;
   every later start validates migration 5 again and refuses (`runner.py:224`).

Two can be seen by adding a property that the module states to a cfg:

4. `DoubtNeedsAnswer` as a PROPERTY of `upload_session.cfg`: the preflight of Save
   All turns an upload in doubt into a failed one (`upload_session_dialog.py:2332`).
5. `PeruvianIsOnDni` as an INVARIANT of `workflow.cfg`: a legal missionary becomes
   Peruvian by import; the next validation moves them off the stage DNI, because
   no stage asks anything of them (`constants.py:357`).

The others are cases that a property has to except or a definition shows:

6. `runner.py:191`: a first creation that is cut short leaves tables without a
   version, which every start refuses (`Interrupted` in `RefusalIsJustified`).
7. `server_main.py:44`: the digest migrates without the backup that `app.py:382`
   calls mandatory (`alone` in `ChangeIsBackedUp`).
8. `windows_service.py:374`: a stop between the test of the flag and the new server
   is lost (`"missed"`, left out of `StopSettles`).
9. `secretary_work_service.py:837`: a key whose task the automation itself archived
   never gets a task again (`RunSettles` speaks of open tasks).
   `secretary_work_service.py:2190`: the ID of a removed group is given out again,
   and a closed task that was linked to it by an overtaken run keeps every later
   run from archiving anything (`CanArchive` in `RunSettles`; see Proofs).
10. `db.py:282`: the unique index on `automation_key` is made by code nobody calls, so
    that two runs at once can double a task (`RunsAddNoDouble` is of one run).
11. `secretary_work_service.py:631`: deleting a task always fails on its history
    (`DeleteTask` ends with the clean-up of the group).
12. `api_client.py:603`: a credential that could not be deleted keeps every later
    recovery from finishing (`KeyringFails`).
13. `missionary_service.py:826`: permanent deletion removes the folder before a
    delete of rows that may be refused (`purged` in `NothingIsLost`).
14. `onedrive_service.py:66`: missionaries of one name share a folder
    (`Namesakes`).
15. `dynamics_roster_service.py:407`: legal, Peruvian and legal again is two sets of
    stage rows, which the repair then skips (`Whole` in `StagesHeal`).
16. `dynamics_roster_service.py:463`: the warning that stages are missing can never be
    set, as `initialize_workflows` swallows its exceptions (`Fail`).
17. `workflow_validator.py:88`: WAITING is written over a completion that came in
    between (`seen` in `CompletedStays`).

## Proofs

The theorems hold for all values of the constants that satisfy the modules'
assumptions (bounds are naturals; "nothing" is no ID, file or payload; kinds of
payload are disjoint; there are finitely many requests). One has a premise of its
own: `ServerAgrees`, below. A
theorem that repeats the name of a property in other words is listed with it in
`PROJECT.json`.

Each proof has one lemma per action or group of actions. The work is in the
inductive invariant, which says what a request, process or thread still knows
for certain of what it read some steps ago.

### Uploads on the server

- `TypeCorrect` (`UploadTypeOK`). The invariant is `TypeInv`: types alone are not
  inductive, since a commit must know that its request has an upload ID, a
  payload and a file (`UploadKnown`).
- The table. `StepsOfTheTable` reduces every step to what it does to rows and
  slots (insert, apply, mark, delete, invalidate or nothing), whoever takes it.
  From there: `DataAppliedOnce` and `ReplacementIsFinal` (`TableInv`),
  `UploadIsUnique` (`LinkInv`, which adds that references name existing rows:
  without it a row ID given out again would have successors at birth),
  `ProrrogasAreEarned`, and the step property `ReplacementIsAtomic`.
- `DocumentsImplementLedger` (`KeepsLedger`): every step of the server is a step of
  `UploadLedger` or leaves it alone. The cases are those of `StepsOfTheTable`; the
  stage of an ID is that of its one row (`LinkInv`), so a step that changes one row
  changes the stage of one ID.
- The files. `RowsKeepTheirFiles` needs that every file has one owner: the attempt
  that installed it until its row is committed, then the row, and at last the
  deletions of the row. `FileInv` says so from the handlers' side: a file
  mentioned by a handler and by a row means that the handler's COMMIT was issued
  or that it deletes this row (`OwnFile`), a writer shares its file with
  deletions of its row only (`SoleOwner`), and names in use are not unused
  (`FilesInUse`). The removal after a reconciliation is harmless because, by
  `LinkInv`, the row that was found is the only one of the upload ID.
  `AnswersAreHonest` is proved from the same invariant.

### Uploads seen from the client

`SessionInvariant`, with `SessionTyped`, `RetriesRepeatThePayload` (`OnePayload`)
and `SavedMeansStored` (`SavedIsStored`). `OnePayload` speaks of two requests and is
not inductive; `SentInv` ties every request ever sent to the queue instead: one of
the present edit is what would be sent again, and its target is resolved (`Known`),
so that no later resolution can change it. `DocsInv` has at most one live document
for an upload ID, which makes the document that a lookup finds the one that was
stored. What the window knows by ID it knows only of files that are not `lost`: the
ID of a deleted document may be that of another one by then, and the comparison of
the target still holds, since the deletion clears it. `SessionImplementsLedger`
(`SessionKeepsLedger`) is the second refinement of `UploadLedger`.

### Pairing

`PairingInvariant`, with `PairingTyped`, `ConnectionStaysWhole`
(`ConnectionIsWhole`), `CodeMakesOneDevice` (`OneDevicePerCode`) and the step
property `ConfirmationSwitches`. The invariant has four parts: what journal and
process agree on, which may differ by the one write in between
(`TransactionInv`); which stores are old or new at each step (`StepInv`); what a
reply on its way may say (`CallInv`); and that the code of each device the client
was ever told of is used up (`HandedInv`), without which a request that arrives
late could register a second device. `ServerAgrees` (`AgreesWithServer`) is proved
under `~KeyringFails`, for a Credential Manager that does not refuse a deletion;
finding 12 is what happens otherwise, and the run has the same premise.

### The office

`OfficeInvariant` and all seven properties of the run. A request writes what it
decided from rows that it read in an earlier session, so nothing it holds is fresh.

- `Refers` is what it does know: its task still exists and has the key of its
  payload, its appointment still exists, and a group named by a task exists (the
  foreign keys). That gives `OfficeTyped`.
- `TasksStep` is what any step may do to tasks: rows stay, keys and links change
  as described, and only the request to reopen opens a closed one. That gives
  `ClosedIsFinal` (`ClosedStaysClosed`).
- `RunsDoNotDouble` (`RunsAddNoDouble`): what a run that is alone has looked up is
  still so when it inserts, whatever earlier runs, failures and stops have left.
  For overlapping runs it would be false (finding 10).
- `OneAppointment` (`OneScheduled`) needs only the one transaction of the
  synchronisation. `FollowUpsAreKept` (`FollowUpPromised`) counts, for each
  missionary, missed appointments against tasks and the requests that owe one.
- `DatesAreScheduled` (`SyncSettles`) and `RunsSettle` (`RunSettles`) are about a
  request that is alone. For a run, `Settles` says at each of its steps that the
  payloads it has done are done (`AllDone`), what it knows of the one in hand, and
  that what it still has to do is the rest of what the documents call for. That a
  payload stays done while the next are worked on rests on `KeysDistinct`: two
  payloads with one key are one payload. For clusters that is an argument of its
  own: two of one window with the same first day are the same cluster, whatever
  the recursion in `Starts` computes.

The proof of `RunSettles` failed in an earlier form, without `CanArchive`, and for a
good reason. A run is about to write a group into a task; a second run writes the
same; the task is completed, and its group goes with it; the windows of the
cluster change, and a third run creates another group, to which SQLite gives the
free ID; the first run now writes the ID into the closed task. As soon as the
third run's task is obsolete, its group cannot be deleted, and the transaction
that archives is refused for ever. TLC confirms the scenario when it is led
through these steps (70 of them, with five runs); the bounds of `office_work` do
not reach it, and `RunSettles` excepts it.

### Server

`ServerInv` is `StoresOK` (the database, all backups and copies, the database a
tool is about to put in place and the one in the receipt are honest: each may be
the database of tomorrow), `JobsOK` (`Fits`: what a start knows at each of its
steps, although it has read the version some steps ago and the other process may
have raised it since; and only one process is in a first creation) and `ToolAlone`
(a tool at work means that both processes are off, which is what makes a replaced
database harmless to a start). `LedgersAreHonest` (`LedgerIsHonest`) follows, for
any number of versions, backups, starts, tools and faults, with the digest beside
the service. On top of it:

- `ServerTyped` (`ServerTypeOK`), which counts the backups: pruning keeps at most
  the number allowed, but for those that tools have added since.
- `ChangesAreBackedUp` (`ChangeIsBackedUp`): `AloneOK` carries from the gate of
  `app.py` to the migration that the database begun with is among the backups and
  that nobody else has touched the one in place.
- `RefusalsAreJustified` (`RefusalIsJustified`): a start that is alone is refused for
  a newer database, an interrupted creation, a failure, or data of users that an
  earlier migration put in order and a later one does not (`Stuck`), for whatever
  users save. The last reason is no formality: without it TLC refutes the property
  in `server_life`, and `server_roster` is what it means (finding 3).
- `WorkIsKept` (`NothingIsDropped`): `WorkOK` says where the work of users is while a
  tool holds the database in its hands or a release is on trial.

### Folders

`FoldersInvariant`, with `FoldersTyped` and `FilesAreKept` (`NothingIsLost`). The
argument follows the names: whatever is renamed to what, the second part of a
path begins with the name of the missionary it belongs to, in the rows, on the
disk and in what the requests remember (`RowsOK`, `DocsOK`, `TreeOK`, `MoveOK`,
`FileOK`). So a permanent delete, which removes all below one folder, only takes
what belongs to that name, and renames move every file along. `FreeFolderIs` is
the pigeonhole argument that a free folder exists and is found: the disk is
finite, the numbered names are not.

`RowsAndFilesAgree` (`RowsAgree`) looks at one missionary at a time. While its
requests come one after the other there is at most one about it (`Serves`), and
`Fit` says of each step of that request where rows, folders and files are; requests
about others are shown to leave all of it alone, since no other has this name. The
file of an upload whose COMMIT failed has no row to agree with; the theorem says that
it is nowhere but in the missionary's folder, wherever that has been moved to.

### Workflow

`TableIsTyped` (`WorkflowTypeOK`) and `CompletedIsKept` (`CompletedStays`). A commit
is judged by what its request has read, so the invariant carries it along: `Sound`
says of every request in progress which rows it may write, given what it has seen,
and that rows do not go away.

### Only model-checked

Every invariant and action property and both refinements of the passing runs are
proved. Left to TLC are the liveness properties, which are out of the prover's
reach (fairness and ENABLED): `EveryRequestAnswered`, `UnknownSettles`,
`PairingSettles`, `StopSettles`, `Heals` and `StagesHeal`. So is what recursive
functions compute for every input, an induction over data: that `Starts` puts the
right days together is only checked, by way of `RunSettles` on the clusters of the
run. The findings are counterexamples of TLC or cases of the code described above.

## Plan

1. Proofs: that the stages which `Heals`, `StagesHeal` and `PairingSettles` pass
   through never move away from their goal, as step properties, which is the part
   of the liveness arguments that can be proved.
2. The remaining rules of the automation; manual groups and boards.
3. `UploadSession` composed with the detailed server instead of the abstract one.

## Not modelled

OCR and parsing, rendering, printing, exports, thumbnails, Qt pages and widgets,
i18n and settings: data and presentation. TLS, ACLs, the management pipe, lock
files, LAN discovery and the download and staging of updates: calls of the
platform with little protocol of their own, or stateless. Feeds, digests,
dashboards and reports: read-only queries. `PROJECT.json` says for each component
what is left out of it.
