------------------------------- MODULE Server ------------------------------
(***************************************************************************)
(* The life of the server around its database: the Windows service and its *)
(* loop (windows_service.py), the start of the application with the backup *)
(* gate and the migrations (server/app.py, database/), backups, the tools  *)
(* that put another database in place (restore_database.py,                *)
(* server_setup.py) and the installer of a new release with its roll-back  *)
(* (deployment/installer/server_maintenance.py).  A second process, the    *)
(* daily digest, initialises the database on its own.  Everything may stop *)
(* between any two steps.                                                  *)
(***************************************************************************)
EXTENDS Migrations, SequencesExt

CONSTANTS
  FirstRelease,  \* the release installed at first; a release is its schema version
  Kind,          \* how users save: "form", "scan" of a document, "arrival" date alone
  Keep,          \* local backups that are kept: 48 in the code
  MaxStart, MaxWrite, MaxTool, MaxFault    \* bounds: starts and restarts; saves; tools
                                           \* and digests; failures and crashes

ASSUME ServerAssumption ==
  /\ FirstRelease \in Version
  /\ Kind \subseteq {"form", "scan", "arrival"}
  /\ Keep \in Nat \ {0}
  /\ {MaxStart, MaxWrite, MaxTool, MaxFault} \subseteq Nat

VARIABLES
  db,            \* the database file
  snaps,         \* the local backups, oldest first
  aside,         \* databases moved aside or kept by the installer
  release,       \* the installed release
  job,           \* the main thread of the service, and the digest
  svc,           \* what the control thread of the service shares with it
  tool,          \* the tool that is replacing the database
  receipt,       \* the installer's receipt while a new release is on trial
  spent          \* how much of each bound is used up

vars == <<db, snaps, aside, release, job, svc, tool, receipt, spent>>

Process == {"service", "digest"}

Off       == [at |-> "off"]
Idle      == [at |-> "idle"]
NoReceipt == [held |-> FALSE]
Unset     == [stopping |-> FALSE, restart |-> FALSE, server |-> FALSE, exit |-> FALSE, stop |-> "no"]

Init ==
  /\ db \in {Absent} \cup {Released(v) : v \in 1 .. FirstRelease}
  /\ snaps = <<>> /\ aside = {} /\ release = FirstRelease
  /\ job = [p \in Process |-> Off]
  /\ svc = Unset /\ tool = Idle /\ receipt = NoReceipt
  /\ spent = [start |-> 0, write |-> 0, tool |-> 0, fault |-> 0]

(***************************************************************************)
(* Bookkeeping.                                                            *)
(***************************************************************************)
Spend(what, max) == spent[what] < max /\ spent' = [spent EXCEPT ![what] = @ + 1]
At(p, at)        == job[p].at = at
Goes(p, next)    == job' = [job EXCEPT ![p] = next]
Stays            == UNCHANGED <<aside, release, svc, tool, receipt, spent>>

(* A job that failed: the digest ends, and so does uvicorn, to whose        *)
(* caller it returns.  A job knows the database it began with, and whether *)
(* another process was there meanwhile.                                    *)
Ended(p) == IF p = "digest" THEN Off ELSE [at |-> "ran"]
Going(p, at) == [at |-> at, base |-> job[p].base, alone |-> job[p].alone]
Begun(p, at) == [at |-> at, base |-> db, alone |-> \A q \in Process \ {p} : job[q] = Off]
Fresh        == {"create", "finish", "stamp", "record"}

Snapshot      == Append(snaps, db)
Prune(s)      == IF Len(s) > Keep THEN SubSeq(s, Len(s) - Keep + 1, Len(s)) ELSE s

(***************************************************************************)
(* The loop of the service, SvcDoRun.                                      *)
(***************************************************************************)
StartService ==
  /\ At("service", "off") /\ tool = Idle
  /\ Spend("start", MaxStart)
  /\ Goes("service", [at |-> "loop"]) /\ svc' = Unset
  /\ UNCHANGED <<db, snaps, aside, release, tool, receipt>>

LoopAgain ==
  /\ At("service", "loop")
  /\ Goes("service", [at |-> "build"])
  /\ UNCHANGED <<db, snaps>> /\ Stays
Loop ==
  /\ At("service", "loop")
  /\ Goes("service", IF svc.stopping THEN Off ELSE [at |-> "build"])
  /\ UNCHANGED <<db, snaps>> /\ Stays

(* A new uvicorn server, which then runs the start of the application. *)
Build ==
  /\ At("service", "build")
  /\ svc' = [svc EXCEPT !.restart = FALSE, !.server = TRUE, !.exit = FALSE]
  /\ Goes("service", Begun("service", "check"))
  /\ UNCHANGED <<db, snaps, aside, release, tool, receipt, spent>>

(* uvicorn has returned. *)
Ran ==
  /\ At("service", "ran")
  /\ svc' = [svc EXCEPT !.server = FALSE]
  /\ Goes("service", IF svc.stopping \/ ~ svc.restart THEN Off ELSE [at |-> "loop"])
  /\ UNCHANGED <<db, snaps, aside, release, tool, receipt, spent>>

(* SvcStop, in the control thread: first it sets stopping, then it looks   *)
(* for a server to end.                                                    *)
Stop ==
  /\ ~ At("service", "off") /\ svc.stop = "no"
  /\ svc' = [svc EXCEPT !.stopping = TRUE, !.stop = "asked"]
  /\ UNCHANGED <<db, snaps, aside, release, job, tool, receipt, spent>>
EndServer ==
  /\ ~ At("service", "off") /\ svc.stop = "asked"
  /\ svc' = [svc EXCEPT !.exit = @ \/ svc.server, !.stop = IF svc.server THEN "found" ELSE "missed"]
  /\ UNCHANGED <<db, snaps, aside, release, job, tool, receipt, spent>>

(* The manager, or a change of the network, asks a running server to restart. *)
RequestRestart ==
  /\ At("service", "up") /\ ~ svc.stopping /\ ~ svc.restart /\ ~ svc.exit
  /\ Spend("start", MaxStart)
  /\ svc' = [svc EXCEPT !.restart = TRUE, !.exit = TRUE]
  /\ UNCHANGED <<db, snaps, aside, release, job, tool, receipt>>

(***************************************************************************)
(* The start of the application: the backup gate, init_db.                 *)
(***************************************************************************)
Check ==
  /\ At("service", "check")
  /\ Goes("service", IF ~ Exists(db) THEN Going("service", "init")
                     ELSE IF db.version > release THEN Ended("service")
                     ELSE Going("service", IF Needs(db, release) THEN "backup" ELSE "init"))
  /\ UNCHANGED <<db, snaps>> /\ Stays

Backup ==
  /\ At("service", "backup")
  /\ snaps' = Prune(Snapshot)
  /\ Goes("service", Going("service", "init"))
  /\ UNCHANGED db /\ Stays

StartDigest ==
  /\ At("digest", "off") /\ tool = Idle
  /\ Spend("tool", MaxTool)
  /\ job' = [job EXCEPT !["digest"] = Begun("digest", "init"),
                        !["service"] = IF "alone" \in DOMAIN @ THEN [@ EXCEPT !.alone = FALSE] ELSE @]
  /\ UNCHANGED <<db, snaps, aside, release, svc, tool, receipt>>

InitDb(p) ==
  /\ At(p, "init")
  /\ Goes(p, IF ~ HasData(db) THEN Going(p, "create")
             ELSE IF db.version \in 1 .. release
                  THEN [at |-> "adopt", base |-> job[p].base, alone |-> job[p].alone, version |-> db.version]
                  ELSE Ended(p))
  /\ db' = IF Exists(db) THEN db ELSE [Absent EXCEPT !.tables = "none"]
  /\ UNCHANGED snaps /\ Stays

(* A table that another process has created meanwhile ends it. *)
Create(p) ==
  /\ At(p, "create")
  /\ IF db.tables = "none" THEN db' = [db EXCEPT !.tables = "some"] /\ Goes(p, Going(p, "finish"))
                           ELSE UNCHANGED db /\ Goes(p, Ended(p))
  /\ UNCHANGED snaps /\ Stays

Finish(p) ==
  /\ At(p, "finish")
  /\ db' = WithTables(db, release)
  /\ Goes(p, Going(p, "stamp"))
  /\ UNCHANGED snaps /\ Stays

Stamp(p) ==
  /\ At(p, "stamp")
  /\ db' = [db EXCEPT !.tracked = TRUE]
  /\ Goes(p, Going(p, "record"))
  /\ UNCHANGED snaps /\ Stays

(* What a process does when init_db returns. *)
Done(p) == IF p = "digest" THEN Off ELSE Going(p, "up")

Record(p) ==
  /\ At(p, "record")
  /\ IF CanStamp(db, release) THEN db' = Stamped(db, release) /\ Goes(p, Done(p))
                              ELSE UNCHANGED db /\ Goes(p, Ended(p))
  /\ UNCHANGED snaps /\ Stays

(* The step after version v has been reached. *)
After(p, v) ==
  IF v = release THEN Done(p)
  ELSE [at |-> "migrate", base |-> job[p].base, alone |-> job[p].alone, version |-> v + 1]

Adopt(p) ==
  /\ At(p, "adopt")
  /\ LET v == job[p].version
     IN  IF CanAdopt(db, v) THEN db' = Adopted(db, v) /\ Goes(p, After(p, v))
                            ELSE UNCHANGED db /\ Goes(p, Ended(p))
  /\ UNCHANGED snaps /\ Stays

Migrate(p) ==
  /\ At(p, "migrate")
  /\ LET k == job[p].version
     IN  IF CanMigrate(db, k) THEN db' = Migrated(db, k) /\ Goes(p, After(p, k))
                              ELSE UNCHANGED db /\ Goes(p, Ended(p))
  /\ UNCHANGED snaps /\ Stays

Initialises(p) ==
  \/ InitDb(p) \/ Create(p) \/ Finish(p) \/ Stamp(p) \/ Record(p) \/ Adopt(p) \/ Migrate(p)

(***************************************************************************)
(* The server runs, and ends.                                              *)
(***************************************************************************)
Save(kind) ==
  /\ At("service", "up") /\ ~ svc.exit
  /\ Spend("write", MaxWrite)
  /\ db' = [db EXCEPT !.work = @ \cup {spent.write + 1},
                      !.unfilled = @ \/ kind = "arrival" \/ release < BackFill,
                      !.untidy = @ \/ kind = "scan" \/ release < Tidy]
  /\ UNCHANGED <<snaps, aside, release, job, svc, tool, receipt>>

ScheduledBackup ==
  /\ At("service", "up") /\ ~ svc.exit
  /\ Last(<<Absent>> \o snaps) # db
  /\ snaps' = Prune(Snapshot)
  /\ UNCHANGED <<db, job>> /\ Stays

Shutdown ==
  /\ At("service", "up") /\ svc.exit
  /\ Goes("service", Going("service", "close"))
  /\ UNCHANGED <<db, snaps>> /\ Stays

ShutdownBackup ==
  /\ At("service", "close")
  /\ snaps' = Prune(Snapshot)
  /\ Goes("service", [at |-> "ran"])
  /\ UNCHANGED db /\ Stays

ServiceSteps ==
  \/ Loop \/ Build \/ Check \/ Backup \/ Initialises("service")
  \/ Shutdown \/ ShutdownBackup \/ Ran

(***************************************************************************)
(* Other databases in place of this one, while the service is off.         *)
(***************************************************************************)
Quiet == tool = Idle /\ \A p \in Process : job[p] = Off

RestoreAtOnce(s) ==
  /\ Quiet /\ Spend("tool", MaxTool)
  /\ tool' = [at |-> "put", with |-> s, then |-> "put"]
  /\ UNCHANGED <<db, snaps, aside, release, job, svc, receipt>>

(* restore_snapshot and _replace_database_safely: both keep a backup first. *)
Restore(s) ==
  /\ Quiet /\ Spend("tool", MaxTool)
  /\ tool' = [at |-> IF Exists(db) THEN "keep" ELSE "put", with |-> s, then |-> "put"]
  /\ UNCHANGED <<db, snaps, aside, release, job, svc, receipt>>

Replace(v) ==
  /\ Quiet /\ Spend("tool", MaxTool)
  /\ tool' = [at |-> IF Exists(db) THEN "keep" ELSE "put", with |-> Released(v), then |-> "away"]
  /\ UNCHANGED <<db, snaps, aside, release, job, svc, receipt>>

KeepOld ==
  /\ tool.at = "keep"
  /\ snaps' = Snapshot
  /\ tool' = [tool EXCEPT !.at = tool.then]
  /\ UNCHANGED <<db, aside, release, job, svc, receipt, spent>>

MoveAway ==
  /\ tool.at = "away"
  /\ db' = Absent /\ aside' = aside \cup {db}
  /\ tool' = [at |-> "install", with |-> tool.with, old |-> db]
  /\ UNCHANGED <<snaps, release, job, svc, receipt, spent>>

Put ==
  /\ tool.at \in {"put", "install"}
  /\ db' = tool.with
  /\ aside' = IF tool.at = "install" THEN aside \ {tool.old} ELSE aside
  /\ tool' = Idle
  /\ UNCHANGED <<snaps, release, job, svc, receipt, spent>>

(* The installer: a verified backup, then the next release on trial.  It is *)
(* accepted once it serves, or everything is put back.                      *)
Upgrade ==
  /\ Quiet /\ ~ receipt.held /\ release < MaxVersion
  /\ Spend("tool", MaxTool)
  /\ receipt' = [held |-> TRUE, db |-> db, release |-> release]
  /\ aside' = aside \cup {db}
  /\ release' = release + 1
  /\ UNCHANGED <<db, snaps, job, svc, tool>>

Accept ==
  /\ receipt.held /\ At("service", "up")
  /\ receipt' = NoReceipt
  /\ UNCHANGED <<db, snaps, aside, release, job, svc, tool, spent>>

RollBack ==
  /\ receipt.held /\ Quiet
  /\ db' = receipt.db /\ release' = receipt.release /\ receipt' = NoReceipt
  /\ UNCHANGED <<snaps, aside, job, svc, tool, spent>>

Tools ==
  \/ \E i \in DOMAIN snaps : Restore(snaps[i])
  \/ \E v \in 1 .. release : Replace(v)
  \/ KeepOld \/ MoveAway \/ Put \/ Upgrade \/ Accept \/ RollBack

(***************************************************************************)
(* Failures.                                                               *)
(***************************************************************************)
(* A step of a start fails and changes nothing; the backup at the end may  *)
(* fail without any effect; a tool gives up, and puts back what it moved.  *)
Starting == {"check", "backup", "init", "adopt", "migrate"} \cup Fresh

Fails(p) ==
  /\ job[p].at \in Starting \cup {"close"}
  /\ Goes(p, Ended(p))
  /\ Spend("fault", MaxFault)
  /\ UNCHANGED <<db, snaps, aside, release, svc, tool, receipt>>

ToolFails ==
  /\ tool # Idle /\ tool' = Idle
  /\ IF tool.at = "install" THEN db' = tool.old /\ aside' = aside \ {tool.old}
                            ELSE UNCHANGED <<db, aside>>
  /\ Spend("fault", MaxFault)
  /\ UNCHANGED <<snaps, release, job, svc, receipt>>

Crash ==
  /\ ~ Quiet \/ receipt.held
  /\ job' = [p \in Process |-> Off] /\ svc' = Unset /\ tool' = Idle /\ receipt' = NoReceipt
  /\ Spend("fault", MaxFault)
  /\ UNCHANGED <<db, snaps, aside, release>>

Next ==
  \/ StartService \/ Stop \/ EndServer \/ RequestRestart
  \/ ServiceSteps \/ StartDigest \/ Initialises("digest")
  \/ (\E kind \in Kind : Save(kind)) \/ ScheduledBackup
  \/ Tools \/ (\E p \in Process : Fails(p)) \/ ToolFails \/ Crash

Spec == Init /\ [][Next]_vars /\ WF_vars(ServiceSteps) /\ WF_vars(EndServer)

(***************************************************************************)
(* Properties.                                                             *)
(***************************************************************************)
Copies == Range(snaps) \cup aside

ServerTypeOK ==
  /\ db \in Database /\ Copies \subseteq Database
  /\ release \in FirstRelease .. MaxVersion
  /\ svc \in [stopping : BOOLEAN, restart : BOOLEAN, server : BOOLEAN, exit : BOOLEAN,
             stop : {"no", "asked", "found", "missed"}]
  /\ svc.stop # "no" => svc.stopping
  /\ Len(snaps) <= Keep + MaxTool

(* Whatever crashes, fails, races or is restored: a stored version means    *)
(* that the schema of all migrations up to it is there, a ledger has        *)
(* exactly the migrations up to the version (or none yet), and the server   *)
(* only serves a database of its own version, with its ledger complete.     *)
Honest(d) ==
  /\ d.version > 0 => d.tables = "all" /\ 1 .. d.version \subseteq d.parts
  /\ d.ledger \in {{}, 1 .. d.version}
  /\ d.tracked /\ d.version > 0 => d.ledger = 1 .. d.version
LedgerIsHonest ==
  /\ \A d \in Copies \cup {db} : Honest(d)
  /\ At("service", "up") => db.version = release /\ db.tracked

(* The service changes an existing database in its start only when the      *)
(* database, as it was when the start began, is in a local backup.          *)
ChangeIsBackedUp ==
  [][job["service"].at \in Starting /\ job'["service"] # job["service"] /\ db' # db
       => ~ HasData(job["service"].base) \/ ~ job["service"].alone
          \/ job["service"].base \in Range(snaps)]_vars

(* No step takes work away that is not in a copy afterwards; only the       *)
(* roll-back of a release on trial may lose what its shutdown backup,       *)
(* which may fail, was to keep.                                             *)
NothingIsDropped ==
  [][\A w \in db.work \ db'.work : \/ \E d \in Copies' : w \in d.work
                                   \/ receipt.held /\ ~ receipt'.held /\ spent.fault > 0]_vars

(* A start is refused only when the database is newer than the release, its *)
(* first creation was cut short, another process was initialising it, a     *)
(* step failed, or users left what no later start repairs: arrival dates    *)
(* without entry dates, which a roster import writes and the migration that *)
(* fills them finds again once it is not the last one (see StartsAgain),    *)
(* or untidy names after a later migration than the one that tidies them.   *)
Refused == job["service"].at \in Starting /\ job'["service"].at = "ran"
Interrupted(d) == HasData(d) /\ d.version = 0
Stuck(d) == \/ d.unfilled /\ d.version > BackFill
            \/ d.untidy /\ d.version > Tidy
RefusalIsJustified ==
  [][Refused => \/ db.version > release \/ Interrupted(db) \/ Stuck(db)
                \/ ~ job["service"].alone \/ spent'.fault > spent.fault]_vars

(* A stop ends the service, wherever it is in its loop, its start or its    *)
(* restart, if it finds a server or comes before the loop looks for it (one *)
(* that falls between that look and the new server is lost).                *)
StopSettles ==
  (svc.stop = "found" \/ (At("service", "loop") /\ svc.stopping)) ~> At("service", "off")

(* What this release has saved it can start with again, whatever its users  *)
(* have entered, as long as nothing fails or stops in between.              *)
StartsAgain ==
  [][Refused => \/ db.version > release \/ ~ job["service"].alone
                \/ spent'.fault > 0]_vars
=============================================================================
