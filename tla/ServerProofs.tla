---------------------------- MODULE ServerProofs ----------------------------
(***************************************************************************)
(* Proofs about Server, for every number of migrations and releases, every *)
(* number of backups kept and any bounds.                                  *)
(*                                                                         *)
(* What is stored about a database is true, in the database and in every   *)
(* copy of it, whatever crashes, fails, races or is put in its place, and  *)
(* a server serves no other database than one of its own version.  The     *)
(* invariant (ServerInv) says so of the copies as well, since each of them *)
(* may be the database of tomorrow, and adds what a start knows at each of *)
(* its steps (Fits): it has read the version some steps ago, and the other *)
(* process may have raised it since, but never past the release.           *)
(*                                                                         *)
(* On top of it: what a start relies on that is alone with the database    *)
(* (AloneOK), for the backup before a change and the reasons of a refusal; *)
(* and where the work of users is while a tool or a release on trial may   *)
(* take it away (WorkOK).                                                  *)
(***************************************************************************)
EXTENDS Server, SequenceTheorems, TLAPS

\* A database nobody has worked with.
Blank(d) == d.work = {} /\ ~ d.unfilled /\ ~ d.untidy

\* A database of which nothing false is stored, and unused until it is complete.
Whole == {d \in Database : Honest(d) /\ (d.tables # "all" => Blank(d))}

Based   == {"check", "backup", "init", "up", "close"} \cup Fresh
Filling == {"finish", "stamp", "record"}

JobType ==
  [at : {"off", "loop", "build", "ran"}]
    \cup [at : Based, base : Whole, alone : BOOLEAN]
    \cup [at : {"adopt", "migrate"}, base : Whole, alone : BOOLEAN, version : Version]

ToolType ==
  [at : {"idle"}]
    \cup [at : {"keep", "put", "away"}, with : Whole, then : {"put", "away"}]
    \cup [at : {"install"}, with : Whole, old : Whole]

ReceiptType == [held : {FALSE}] \cup [held : {TRUE}, db : Whole, release : Version]

\* What a process at a step knows of the database d and the release v.
Fits(r, d, v) ==
  /\ r.at \in Filling => /\ d.version = 0 /\ d.ledger = {} /\ d.tables \in {"some", "all"}
                         /\ Blank(d)
  /\ r.at \in {"stamp", "record"} => d.tables = "all" /\ 1 .. v \subseteq d.parts
  /\ r.at = "record" => d.tracked
  /\ r.at = "adopt" => /\ r.version <= d.version /\ d.version <= v
                       /\ r.version < d.version => d.tracked
  /\ r.at = "migrate" => /\ 2 <= r.version /\ r.version <= v
                         /\ r.version - 1 <= d.version /\ d.version <= v /\ d.tracked
  /\ r.at \in {"up", "close"} => d.version = v /\ d.tracked

StoresOK ==
  /\ db \in Whole /\ snaps \in Seq(Whole) /\ aside \subseteq Whole
  /\ release \in Version /\ tool \in ToolType /\ receipt \in ReceiptType
  /\ spent \in [{"start", "write", "tool", "fault"} -> Nat]

JobsOK ==
  /\ job \in [Process -> JobType]
  /\ \A p \in Process : Fits(job[p], db, release)
  /\ \A p, q \in Process : job[p].at \in Filling /\ job[q].at \in Filling => p = q

ToolAlone == tool.at # "idle" => \A p \in Process : job[p].at = "off"

ServerInv == StoresOK /\ JobsOK /\ ToolAlone

-----------------------------------------------------------------------------
(* Databases *)

LEMMA AbsentWhole ==
  /\ Absent \in Whole
  /\ [Absent EXCEPT !.tables = "none"] \in Whole
  /\ Absent.version = 0 /\ Absent.tables = "absent"
  <1>1. Absent \in Database /\ [Absent EXCEPT !.tables = "none"] \in Database
    BY DEF Absent, Database
  <1>2. Honest(Absent) /\ Honest([Absent EXCEPT !.tables = "none"])
    BY DEF Absent, Honest
  <1>4. Blank(Absent) /\ Blank([Absent EXCEPT !.tables = "none"])
    BY DEF Absent, Blank
  <1>3. Absent.version = 0 /\ Absent.tables = "absent"
    BY DEF Absent
  <1> QED  BY <1>1, <1>2, <1>3, <1>4 DEF Whole

LEMMA UpTo ==
  ASSUME NEW v \in Version
  PROVE  1 .. v \subseteq Version /\ v > 0
  BY MigrationsAssumption DEF Version

LEMMA ReleasedWhole ==
  ASSUME NEW v \in Version
  PROVE  Released(v) \in Whole
  <1>1. /\ Released(v).tables = "all" /\ Released(v).version = v
        /\ Released(v).parts = 1 .. v /\ Released(v).ledger = {}
    BY DEF Released, Absent
  <1>2. ~ Released(v).tracked
    BY DEF Released, Absent
  <1>3. ASSUME NEW u \in BOOLEAN, NEW t \in BOOLEAN
        PROVE  [Absent EXCEPT !.tables = "all", !.version = v, !.parts = 1 .. v,
                              !.unfilled = u, !.untidy = t] \in Database
    BY UpTo DEF Absent, Database
  <1>4. (v < BackFill) \in BOOLEAN /\ (v < Tidy) \in BOOLEAN
    OBVIOUS
  <1>5. Released(v) \in Database
    BY <1>3, <1>4, Zenon DEF Released
  <1> QED  BY <1>1, <1>2, <1>5 DEF Whole, Honest

\* The steps of a first creation.
LEMMA NoVersion ==
  ASSUME NEW d \in Whole, d.tables # "all"
  PROVE  d.version = 0 /\ d.ledger = {} /\ Blank(d)
  <1>1. d.version = 0
    BY MigrationsAssumption DEF Whole, Database, Honest, Version
  <1>2. 1 .. 0 = {}
    OBVIOUS
  <1> QED  BY <1>1, <1>2 DEF Whole, Honest

\* A database without a version promises nothing.
LEMMA UnversionedWhole ==
  ASSUME NEW d \in Database, d.version = 0, d.ledger = {}, Blank(d)
  PROVE  d \in Whole
  BY DEF Whole, Honest

LEMMA CreatedWhole ==
  ASSUME NEW d \in Whole, d.tables = "none",
         NEW e, e = [d EXCEPT !.tables = "some"]
  PROVE  /\ e \in Whole /\ e.tables = "some" /\ e.version = 0 /\ e.ledger = {}
         /\ Blank(e)
  <1>1. d \in Database /\ Blank(d)
    BY NoVersion DEF Whole
  <1>2. e \in Database /\ e.tables = "some" /\ e.version = 0 /\ e.ledger = {}
    BY <1>1, NoVersion DEF Database
  <1>3. Blank(e)
    BY <1>1 DEF Database, Blank
  <1> QED  BY <1>2, <1>3, UnversionedWhole

LEMMA FilledWhole ==
  ASSUME NEW d \in Whole, NEW v \in Version, d.version = 0, d.ledger = {}, Blank(d),
         NEW e, e = WithTables(d, v)
  PROVE  /\ e \in Whole /\ e.version = 0 /\ e.ledger = {} /\ Blank(e)
         /\ e.tables = "all" /\ e.parts = 1 .. v
  <1>1. d \in Database
    BY DEF Whole
  <1>2. /\ e \in Database /\ e.version = 0 /\ e.ledger = {}
        /\ e.tables = "all" /\ e.parts = 1 .. v
    BY <1>1, UpTo DEF Database, WithTables
  <1>3. Blank(e)
    BY <1>1 DEF Database, WithTables, Blank
  <1> QED  BY <1>2, <1>3, UnversionedWhole

LEMMA TrackedWhole ==
  ASSUME NEW d \in Whole, d.version = 0, d.ledger = {}, Blank(d),
         NEW e, e = [d EXCEPT !.tracked = TRUE]
  PROVE  /\ e \in Whole /\ e.tracked /\ e.version = 0 /\ e.ledger = {} /\ Blank(e)
         /\ e.tables = d.tables /\ e.parts = d.parts
  <1>1. d \in Database
    BY DEF Whole
  <1>2. /\ e \in Database /\ e.version = 0 /\ e.ledger = {}
        /\ e.tables = d.tables /\ e.parts = d.parts
    BY <1>1 DEF Database
  <1>3. e.tracked
    BY <1>1 DEF Database
  <1>4. Blank(e)
    BY <1>1 DEF Database, Blank
  <1> QED  BY <1>2, <1>3, <1>4, UnversionedWhole

LEMMA StampedWhole ==
  ASSUME NEW d \in Whole, NEW v \in Version, d.tables = "all", 1 .. v \subseteq d.parts,
         d.tracked,
         NEW e, e = Stamped(d, v)
  PROVE  e \in Whole /\ e.version = v /\ e.tracked
  <1>1. d \in Database
    BY DEF Whole
  <1>2. /\ e \in Database /\ e.version = v /\ e.ledger = 1 .. v
        /\ e.tables = "all" /\ e.parts = d.parts
    BY <1>1, UpTo DEF Database, Stamped
  <1>3. e.tracked
    BY <1>1 DEF Database, Stamped
  <1> QED  BY <1>2, <1>3 DEF Whole, Honest

\* The steps of a migration, and the work of users.
LEMMA UpgradedDatabase ==
  ASSUME NEW d \in Database, NEW k \in Version, NEW e, e = Upgraded(d, k)
  PROVE  /\ e \in Database
         /\ e.tables = d.tables /\ e.version = d.version /\ e.ledger = d.ledger
         /\ e.parts = d.parts \cup {k}
         /\ e.tracked = d.tracked
  <1>1. e \in Database
    BY DEF Database, Upgraded
  <1>2. /\ e.tables = d.tables /\ e.version = d.version /\ e.ledger = d.ledger
        /\ e.parts = d.parts \cup {k}
    BY DEF Database, Upgraded
  <1>3. e.tracked = d.tracked
    BY DEF Database, Upgraded
  <1> QED  BY <1>1, <1>2, <1>3

LEMMA AdoptedWhole ==
  ASSUME NEW d \in Whole, NEW v \in Version, v <= d.version, v < d.version => d.tracked,
         CanAdopt(d, v),
         NEW e, e = Adopted(d, v)
  PROVE  /\ v = d.version
         /\ e \in Whole /\ e.version = v /\ e.tracked
  <1>1. d \in Database /\ Honest(d) /\ d.version \in Nat /\ d.version > 0
    BY UpTo DEF Whole, Database, Version
  <1>2. v = d.version
    <2>1. SUFFICES ASSUME v < d.version PROVE FALSE
      BY <1>1 DEF Version
    <2>2. d.ledger = 1 .. d.version
      BY <2>1, <1>1 DEF Honest
    <2>3. PICK n \in 0 .. v : d.ledger = 1 .. n
      BY DEF CanAdopt, LedgerFits
    <2>4. d.version \in 1 .. d.version /\ d.version \notin 1 .. n
      BY <2>1, <1>1 DEF Version
    <2> QED  BY <2>2, <2>3, <2>4
  <1>3. PICK m : m = Amended(d, v)
    OBVIOUS
  <1>4. /\ m \in Database /\ m.tables = d.tables /\ m.version = d.version
        /\ m.ledger = d.ledger /\ d.parts \subseteq m.parts
    BY <1>1, <1>3, UpgradedDatabase DEF Amended
  <1>5. /\ e \in Database /\ e.tables = m.tables /\ e.version = m.version
        /\ e.ledger = m.ledger \cup 1 .. v /\ e.parts = m.parts
    BY <1>3, <1>4, UpTo DEF Adopted, Database
  <1>6. e.tracked
    BY <1>3, <1>4 DEF Adopted, Database
  <1>7. e.ledger = 1 .. v
    BY <1>1, <1>2, <1>4, <1>5 DEF Honest
  <1>8. e.tables = "all" /\ 1 .. v \subseteq e.parts
    BY <1>1, <1>2, <1>4, <1>5 DEF Honest
  <1> QED  BY <1>2, <1>4, <1>5, <1>6, <1>7, <1>8 DEF Whole, Honest

LEMMA MigratedWhole ==
  ASSUME NEW d \in Whole, NEW k \in Version, 2 <= k, k - 1 <= d.version, d.tracked,
         CanMigrate(d, k),
         NEW e, e = Migrated(d, k)
  PROVE  /\ d.version = k - 1
         /\ e \in Whole /\ e.version = k /\ e.tracked
  <1>1. d \in Database /\ Honest(d) /\ d.version \in Nat /\ d.version > 0 /\ k \in Nat
    BY MigrationsAssumption DEF Whole, Database, Version
  <1>2. d.ledger = 1 .. d.version /\ d.tables = "all" /\ 1 .. d.version \subseteq d.parts
    BY <1>1 DEF Honest
  <1>3. d.version = k - 1
    BY <1>1, <1>2 DEF CanMigrate
  <1>4. PICK m : m = Upgraded(d, k)
    OBVIOUS
  <1>5. /\ m \in Database /\ m.tables = d.tables /\ m.version = d.version
        /\ m.ledger = d.ledger /\ m.parts = d.parts \cup {k} /\ m.tracked = d.tracked
    BY <1>1, <1>4, UpgradedDatabase
  <1>6. /\ e \in Database /\ e.tables = m.tables /\ e.version = k
        /\ e.ledger = m.ledger \cup {k} /\ e.parts = m.parts
    BY <1>4, <1>5 DEF Migrated, Database
  <1>7. e.tracked
    BY <1>4, <1>5 DEF Migrated, Database
  <1>8. 1 .. k = 1 .. (k - 1) \cup {k}
    BY <1>1
  <1> QED  BY <1>2, <1>3, <1>5, <1>6, <1>7, <1>8 DEF Whole, Honest

-----------------------------------------------------------------------------
(* Starts: what a process knows outlives the steps of the other *)

\* In these steps nothing is known of the database.
LEMMA FreeFits ==
  ASSUME NEW r, NEW d, NEW v,
         r.at \in {"off", "loop", "build", "ran", "check", "backup", "init", "create"}
  PROVE  Fits(r, d, v)
  BY DEF Fits, Filling

\* Users' work, an adopted ledger and a migration leave true what the other
\* process knows; while a database is created for the first time there is no
\* other process that knows anything.
LEMMA KeptFits ==
  ASSUME NEW r \in JobType, NEW d \in Whole, NEW e \in Whole, NEW v \in Version,
         Fits(r, d, v), d.version > 0, d.tracked => e.tracked,
         d.version <= e.version, e.version <= v, d.version < e.version => e.tracked
  PROVE  Fits(r, e, v)
  <1>1. /\ d.version \in Nat /\ e.version \in Nat /\ v \in Nat
    BY DEF Whole, Database, Version
  <1>2. CASE r.at \in Filling
    BY <1>1, <1>2 DEF Fits
  <1>3. CASE r.at = "adopt"
    <2>1. r.version \in Nat /\ r.version <= d.version /\ (r.version < d.version => d.tracked)
      BY <1>3 DEF Fits, JobType, Based, Fresh, Version
    <2>2. r.version <= e.version /\ (r.version < e.version => e.tracked)
      BY <1>1, <2>1
    <2> QED  BY <1>3, <2>2 DEF Fits, Filling
  <1>4. CASE r.at = "migrate"
    <2>1. /\ r.version \in Nat /\ 2 <= r.version /\ r.version <= v
          /\ r.version - 1 <= d.version /\ d.tracked
      BY <1>4 DEF Fits, JobType, Based, Fresh, Version
    <2> QED  BY <1>1, <1>4, <2>1 DEF Fits, Filling
  <1>5. CASE r.at \in {"up", "close"}
    <2>1. d.version = v /\ d.tracked
      BY <1>5 DEF Fits
    <2> QED  BY <1>1, <1>5, <2>1 DEF Fits, Filling
  <1>6. CASE r.at \notin Filling \cup {"adopt", "migrate", "up", "close"}
    BY <1>6 DEF Fits, Filling
  <1> QED  BY <1>2, <1>3, <1>4, <1>5, <1>6

\* As long as the database has no version, only its creator knows anything.
LEMMA UnversionedFits ==
  ASSUME NEW r \in JobType, NEW d \in Whole, NEW e, NEW v \in Version,
         Fits(r, d, v), d.version = 0, r.at \notin Filling
  PROVE  Fits(r, e, v)
  <1>1. v > 0
    BY UpTo
  <1>2. r.at \in {"adopt", "migrate"} => r.version > 0
    BY UpTo DEF JobType, Based, Fresh
  <1>3. r.at \notin {"adopt", "migrate"}
    <2>1. CASE r.at = "adopt"
      BY <1>2, <2>1 DEF Fits, JobType, Based, Fresh, Version
    <2>2. CASE r.at = "migrate"
      BY <1>2, <2>2 DEF Fits, JobType, Based, Fresh, Version
    <2> QED  BY <2>1, <2>2
  <1>4. r.at \notin {"up", "close"}
    BY <1>1 DEF Fits, Version
  <1> QED  BY <1>3, <1>4 DEF Fits, Filling

LEMMA OffFits ==
  ASSUME NEW r, r.at = "off", NEW d, NEW v
  PROVE  Fits(r, d, v)
  BY FreeFits

-----------------------------------------------------------------------------
(* The invariant *)

\* A step of one process: the other keeps what it knows.
LEMMA OneJob ==
  ASSUME JobsOK, NEW p \in Process, NEW r \in JobType, job' = [job EXCEPT ![p] = r],
         Fits(r, db', release'),
         \A q \in Process \ {p} : Fits(job[q], db', release'),
         r.at \in Filling => \A q \in Process \ {p} : job[q].at \notin Filling
  PROVE  JobsOK'
  <1>1. job' \in [Process -> JobType]
    BY DEF JobsOK
  <1>2. \A q \in Process : job'[q] = IF q = p THEN r ELSE job[q]
    BY DEF JobsOK
  <1>3. \A q \in Process : Fits(job'[q], db', release')
    BY <1>2
  <1>4. \A q, s \in Process : job'[q].at \in Filling /\ job'[s].at \in Filling => q = s
    BY <1>2 DEF JobsOK
  <1> QED  BY <1>1, <1>3, <1>4 DEF JobsOK

\* A step that leaves the database alone and fills nothing.
LEMMA QuietJob ==
  ASSUME JobsOK, NEW p \in Process, NEW r \in JobType, job' = [job EXCEPT ![p] = r],
         Fits(r, db, release), r.at \notin Filling, UNCHANGED <<db, release>>
  PROVE  JobsOK'
  <1>1. \A q \in Process : Fits(job[q], db', release')
    BY DEF JobsOK
  <1>2. Fits(r, db', release')
    OBVIOUS
  <1> QED  BY <1>1, <1>2, OneJob

LEMMA EndedOK ==
  ASSUME NEW p
  PROVE  Ended(p) \in JobType /\ Ended(p).at \in {"off", "ran"}
  <1>1. CASE p = "digest"
    BY <1>1 DEF Ended, Off, JobType
  <1>2. CASE p # "digest"
    BY <1>2 DEF Ended, JobType
  <1> QED  BY <1>1, <1>2

\* A process may always give up.
LEMMA GivesUp ==
  ASSUME JobsOK, NEW p \in Process, job' = [job EXCEPT ![p] = Ended(p)],
         UNCHANGED <<db, release>>
  PROVE  JobsOK'
  <1>1. Ended(p) \in JobType /\ Ended(p).at \in {"off", "ran"}
    BY EndedOK
  <1>2. Fits(Ended(p), db, release)
    BY <1>1, FreeFits
  <1>3. Ended(p).at \notin Filling
    BY <1>1 DEF Filling
  <1> QED  BY <1>1, <1>2, <1>3, QuietJob

LEMMA GoingOK ==
  ASSUME JobsOK, NEW p \in Process, job[p].at \in Based \cup {"adopt", "migrate"},
         NEW at \in Based
  PROVE  Going(p, at) \in JobType /\ Going(p, at).at = at
  <1>1. job[p] \in JobType
    BY DEF JobsOK
  <1>2. job[p].base \in Whole /\ job[p].alone \in BOOLEAN
    BY <1>1 DEF JobType, Based, Fresh
  <1> QED  BY <1>2 DEF Going, JobType

LEMMA StepToOK ==
  ASSUME JobsOK, NEW p \in Process, job[p].at \in Based \cup {"adopt", "migrate"},
         NEW at \in {"adopt", "migrate"}, NEW v \in Version,
         NEW r, r = [at |-> at, base |-> job[p].base, alone |-> job[p].alone, version |-> v]
  PROVE  r \in JobType /\ r.at = at /\ r.version = v
  <1>1. job[p] \in JobType
    BY DEF JobsOK
  <1>2. job[p].base \in Whole /\ job[p].alone \in BOOLEAN
    BY <1>1 DEF JobType, Based, Fresh
  <1> QED  BY <1>2 DEF JobType

\* Tools work while nothing else does.
LEMMA ToolStops ==
  ASSUME NEW q \in Process, ToolAlone, job[q].at # "off"
  PROVE  tool.at = "idle"
  BY DEF ToolAlone

LEMMA AllOff ==
  ASSUME \A p \in Process : job[p].at = "off", job \in [Process -> JobType], UNCHANGED job
  PROVE  JobsOK'
  <1>1. \A p \in Process : job'[p].at = "off"
    OBVIOUS
  <1> QED  BY <1>1, OffFits DEF JobsOK, Filling

LEMMA NewDatabase ==
  ASSUME StoresOK, db' \in Whole,
         UNCHANGED <<snaps, aside, release, tool, receipt, spent>>
  PROVE  StoresOK'
  BY DEF StoresOK

LEMMA ToolRests ==
  ASSUME tool.at = "idle", UNCHANGED tool
  PROVE  ToolAlone'
  BY DEF ToolAlone

\* Where a process is when the database has reached version v.
LEMMA AfterOK ==
  ASSUME JobsOK, NEW p \in Process, job[p].at \in Based \cup {"adopt", "migrate"},
         NEW v \in Version, release \in Version, v <= release,
         NEW e \in Whole, e.version = v, e.tracked
  PROVE  /\ After(p, v) \in JobType /\ After(p, v).at \notin Filling
         /\ Fits(After(p, v), e, release)
  <1>1. CASE v = release /\ p = "digest"
    <2>1. After(p, v) = Off
      BY <1>1 DEF After, Done
    <2> QED  BY <2>1, FreeFits DEF Off, JobType, Filling
  <1>2. CASE v = release /\ p # "digest"
    <2>1. After(p, v) = Going(p, "up")
      BY <1>2 DEF After, Done
    <2>2. Going(p, "up") \in JobType /\ Going(p, "up").at = "up"
      BY GoingOK DEF Based
    <2> QED  BY <1>2, <2>1, <2>2 DEF Fits, Filling
  <1>3. CASE v # release
    <2>1. /\ v \in Nat /\ release \in Nat /\ 1 <= v /\ v + 1 <= release
          /\ v + 1 \in Version
      BY <1>3, MigrationsAssumption DEF Version
    <2>2. PICK r : r = After(p, v)
      OBVIOUS
    <2>3. r = [at |-> "migrate", base |-> job[p].base, alone |-> job[p].alone,
               version |-> v + 1]
      BY <1>3, <2>2 DEF After
    <2>4. r \in JobType /\ r.at = "migrate" /\ r.version = v + 1
      BY <2>1, <2>3, StepToOK
    <2>5. Fits(r, e, release)
      BY <2>1, <2>4 DEF Fits, Filling
    <2> QED  BY <2>2, <2>4, <2>5 DEF Filling
  <1> QED  BY <1>1, <1>2, <1>3

-----------------------------------------------------------------------------
(* The steps that initialise the database *)

LEMMA InitDbInv ==
  ASSUME ServerInv, NEW p \in Process, InitDb(p)
  PROVE  StoresOK' /\ JobsOK'
  <1>1. /\ job[p].at = "init" /\ db \in Whole /\ JobsOK /\ StoresOK
        /\ job[p].at \in Based \cup {"adopt", "migrate"}
    BY DEF InitDb, At, ServerInv, StoresOK, Based
  <1>2. CASE ~ HasData(db)
    <2>1. job' = [job EXCEPT ![p] = Going(p, "create")]
      BY <1>2 DEF InitDb, Goes
    <2>2. Going(p, "create") \in JobType /\ Going(p, "create").at = "create"
      BY <1>1, GoingOK DEF Based, Fresh
    <2>3. db' \in Whole
      BY <1>1, AbsentWhole DEF InitDb
    <2>4. db.version = 0 /\ db.tables \notin {"some", "all"}
      BY <1>1, <1>2, NoVersion DEF HasData
    <2>5. \A q \in Process : job[q].at \notin Filling
      BY <1>1, <2>4 DEF JobsOK, Fits
    <2>6. \A q \in Process : Fits(job[q], db', release')
      BY <1>1, <2>4, <2>5, UnversionedFits DEF JobsOK, StoresOK, InitDb, Stays
    <2>7. Fits(Going(p, "create"), db', release')
      BY <2>2, FreeFits
    <2>8. JobsOK'
      BY <1>1, <2>1, <2>2, <2>6, <2>7, OneJob DEF Filling
    <2> QED  BY <1>1, <2>3, <2>8, NewDatabase DEF InitDb, Stays
  <1>3. CASE HasData(db)
    <2>1. UNCHANGED db
      BY <1>3 DEF InitDb, HasData, Exists
    <2>2. StoresOK'
      BY <1>1, <2>1, NewDatabase DEF InitDb, Stays
    <2>3. CASE db.version \in 1 .. release
      <3>1. PICK r : r = [at |-> "adopt", base |-> job[p].base, alone |-> job[p].alone,
                          version |-> db.version]
        OBVIOUS
      <3>2. job' = [job EXCEPT ![p] = r]
        BY <1>3, <2>3, <3>1 DEF InitDb, Goes
      <3>3. db.version \in Version
        BY <1>1, <2>3, MigrationsAssumption DEF StoresOK, Version
      <3>4. r \in JobType /\ r.at = "adopt" /\ r.version = db.version
        BY <1>1, <3>1, <3>3, StepToOK
      <3>5. Fits(r, db, release)
        BY <1>1, <2>3, <3>3, <3>4 DEF Fits, Filling, Version
      <3>6. JobsOK'
        BY <1>1, <2>1, <3>2, <3>4, <3>5, QuietJob DEF Filling, InitDb, Stays
      <3> QED  BY <2>2, <3>6
    <2>4. CASE db.version \notin 1 .. release
      <3>1. job' = [job EXCEPT ![p] = Ended(p)]
        BY <1>3, <2>4 DEF InitDb, Goes
      <3> QED  BY <1>1, <2>1, <2>2, <3>1, GivesUp DEF InitDb, Stays
    <2> QED  BY <2>3, <2>4
  <1> QED  BY <1>2, <1>3

LEMMA CreateInv ==
  ASSUME ServerInv, NEW p \in Process, Create(p)
  PROVE  StoresOK' /\ JobsOK'
  <1>1. /\ job[p].at = "create" /\ db \in Whole /\ JobsOK /\ StoresOK
        /\ job[p].at \in Based \cup {"adopt", "migrate"}
    BY DEF Create, At, ServerInv, StoresOK, Based, Fresh
  <1>2. CASE db.tables = "none"
    <2>1. /\ db' = [db EXCEPT !.tables = "some"]
          /\ job' = [job EXCEPT ![p] = Going(p, "finish")]
      BY <1>2 DEF Create, Goes
    <2>2. Going(p, "finish") \in JobType /\ Going(p, "finish").at = "finish"
      BY <1>1, GoingOK DEF Based, Fresh
    <2>3. /\ db' \in Whole /\ db'.tables = "some" /\ db'.version = 0 /\ db'.ledger = {}
          /\ Blank(db')
      BY <1>1, <1>2, <2>1, CreatedWhole
    <2>4. db.version = 0
      BY <1>1, <1>2, NoVersion
    <2>5. \A q \in Process : job[q].at \notin Filling
      BY <1>1, <1>2 DEF JobsOK, Fits
    <2>6. \A q \in Process : Fits(job[q], db', release')
      BY <1>1, <2>4, <2>5, UnversionedFits DEF JobsOK, StoresOK, Create, Stays
    <2>7. Fits(Going(p, "finish"), db', release')
      BY <2>2, <2>3 DEF Fits, Filling
    <2>8. JobsOK'
      BY <1>1, <2>1, <2>2, <2>5, <2>6, <2>7, OneJob
    <2> QED  BY <1>1, <2>3, <2>8, NewDatabase DEF Create, Stays
  <1>3. CASE db.tables # "none"
    <2>1. UNCHANGED db /\ job' = [job EXCEPT ![p] = Ended(p)]
      BY <1>3 DEF Create, Goes
    <2> QED  BY <1>1, <2>1, GivesUp, NewDatabase DEF Create, Stays
  <1> QED  BY <1>2, <1>3

\* A process that fills the database for the first time is alone in it.
LEMMA Filler ==
  ASSUME ServerInv, NEW p \in Process, job[p].at \in Filling, NEW e, UNCHANGED release
  PROVE  /\ db \in Whole /\ db.version = 0 /\ db.ledger = {} /\ release \in Version
         /\ Blank(db)
         /\ \A q \in Process \ {p} : job[q].at \notin Filling
         /\ \A q \in Process \ {p} : Fits(job[q], e, release')
  <1>1. JobsOK /\ db \in Whole /\ release \in Version
    BY DEF ServerInv, StoresOK
  <1>2. db.version = 0 /\ db.ledger = {} /\ Blank(db)
    BY <1>1 DEF JobsOK, Fits
  <1>3. \A q \in Process \ {p} : job[q].at \notin Filling
    BY <1>1 DEF JobsOK
  <1>4. \A q \in Process \ {p} : Fits(job[q], e, release)
    BY <1>1, <1>2, <1>3, UnversionedFits DEF JobsOK
  <1> QED  BY <1>1, <1>2, <1>3, <1>4

LEMMA FinishInv ==
  ASSUME ServerInv, NEW p \in Process, Finish(p)
  PROVE  StoresOK' /\ JobsOK'
  <1>1. /\ job[p].at \in Filling /\ JobsOK /\ StoresOK /\ UNCHANGED release
        /\ job[p].at \in Based \cup {"adopt", "migrate"}
        /\ db' = WithTables(db, release)
        /\ job' = [job EXCEPT ![p] = Going(p, "stamp")]
    BY DEF Finish, At, Goes, ServerInv, Based, Fresh, Filling, Stays
  <1>2. Going(p, "stamp") \in JobType /\ Going(p, "stamp").at = "stamp"
    BY <1>1, GoingOK DEF Based, Fresh
  <1>3. /\ db' \in Whole /\ db'.version = 0 /\ db'.ledger = {} /\ Blank(db')
        /\ db'.tables = "all" /\ db'.parts = 1 .. release
    BY <1>1, Filler, FilledWhole
  <1>4. Fits(Going(p, "stamp"), db', release')
    BY <1>1, <1>2, <1>3 DEF Fits, Filling
  <1>5. JobsOK'
    BY <1>1, <1>2, <1>4, Filler, OneJob
  <1> QED  BY <1>1, <1>3, <1>5, NewDatabase DEF Finish, Stays

LEMMA StampInv ==
  ASSUME ServerInv, NEW p \in Process, Stamp(p)
  PROVE  StoresOK' /\ JobsOK'
  <1>1. /\ job[p].at = "stamp" /\ job[p].at \in Filling
        /\ JobsOK /\ StoresOK /\ UNCHANGED release
        /\ job[p].at \in Based \cup {"adopt", "migrate"}
        /\ db' = [db EXCEPT !.tracked = TRUE]
        /\ job' = [job EXCEPT ![p] = Going(p, "record")]
    BY DEF Stamp, At, Goes, ServerInv, Based, Fresh, Filling, Stays
  <1>2. Going(p, "record") \in JobType /\ Going(p, "record").at = "record"
    BY <1>1, GoingOK DEF Based, Fresh
  <1>3. /\ db' \in Whole /\ db'.tracked /\ db'.version = 0 /\ db'.ledger = {} /\ Blank(db')
        /\ db'.tables = db.tables /\ db'.parts = db.parts
    BY <1>1, Filler, TrackedWhole
  <1>4. db.tables = "all" /\ 1 .. release \subseteq db.parts
    BY <1>1 DEF JobsOK, Fits
  <1>5. Fits(Going(p, "record"), db', release')
    BY <1>1, <1>2, <1>3, <1>4 DEF Fits, Filling
  <1>6. JobsOK'
    BY <1>1, <1>2, <1>5, Filler, OneJob
  <1> QED  BY <1>1, <1>3, <1>6, NewDatabase DEF Stamp, Stays

LEMMA RecordInv ==
  ASSUME ServerInv, NEW p \in Process, Record(p)
  PROVE  StoresOK' /\ JobsOK'
  <1>1. /\ job[p].at = "record" /\ job[p].at \in Filling
        /\ JobsOK /\ StoresOK /\ release \in Version
        /\ job[p].at \in Based \cup {"adopt", "migrate"}
        /\ UNCHANGED <<snaps, aside, release, tool, receipt, spent>>
    BY DEF Record, At, ServerInv, Based, Fresh, Filling, Stays, StoresOK
  <1>2. CASE CanStamp(db, release)
    <2>1. db' = Stamped(db, release) /\ job' = [job EXCEPT ![p] = After(p, release)]
      BY <1>2 DEF Record, Goes, After
    <2>2. db.tables = "all" /\ 1 .. release \subseteq db.parts /\ db.tracked
      BY <1>1 DEF JobsOK, Fits
    <2>3. db' \in Whole /\ db'.version = release /\ db'.tracked
      BY <1>1, <2>1, <2>2, Filler, StampedWhole
    <2>4. /\ After(p, release) \in JobType /\ After(p, release).at \notin Filling
          /\ Fits(After(p, release), db', release)
      BY <1>1, <2>3, AfterOK DEF Version
    <2>5. JobsOK'
      BY <1>1, <2>1, <2>4, Filler, OneJob
    <2> QED  BY <1>1, <2>3, <2>5, NewDatabase
  <1>3. CASE ~ CanStamp(db, release)
    <2>1. UNCHANGED db /\ job' = [job EXCEPT ![p] = Ended(p)]
      BY <1>3 DEF Record, Goes
    <2> QED  BY <1>1, <2>1, GivesUp, NewDatabase DEF StoresOK
  <1> QED  BY <1>2, <1>3

LEMMA AdoptInv ==
  ASSUME ServerInv, NEW p \in Process, Adopt(p)
  PROVE  StoresOK' /\ JobsOK'
  <1>1. /\ job[p].at = "adopt" /\ job[p] \in JobType
        /\ db \in Whole /\ JobsOK /\ StoresOK /\ release \in Version
        /\ job[p].at \in Based \cup {"adopt", "migrate"}
        /\ UNCHANGED <<snaps, aside, release, tool, receipt, spent>>
    BY DEF Adopt, At, ServerInv, JobsOK, StoresOK, Stays
  <1>2. PICK v : v = job[p].version
    OBVIOUS
  <1>3. /\ v \in Version /\ v <= db.version /\ db.version <= release
        /\ v < db.version => db.tracked
    <2>1. v \in Version
      BY <1>1, <1>2 DEF JobType, Based, Fresh
    <2>2. Fits(job[p], db, release)
      BY <1>1 DEF JobsOK
    <2> QED  BY <1>1, <1>2, <2>1, <2>2 DEF Fits
  <1>4. CASE CanAdopt(db, v)
    <2>1. db' = Adopted(db, v) /\ job' = [job EXCEPT ![p] = After(p, v)]
      BY <1>2, <1>4 DEF Adopt, Goes
    <2>2. v = db.version /\ db' \in Whole /\ db'.version = v /\ db'.tracked
      BY <1>1, <1>3, <1>4, <2>1, AdoptedWhole
    <2>3. /\ After(p, v) \in JobType /\ After(p, v).at \notin Filling
          /\ Fits(After(p, v), db', release)
      BY <1>1, <1>3, <2>2, AfterOK
    <2>4. db.version > 0 /\ db.version <= db'.version /\ ~ db.version < db'.version
      BY <1>3, <2>2, UpTo DEF Version
    <2>5. \A q \in Process : Fits(job[q], db', release)
      BY <1>1, <1>3, <2>2, <2>4, KeptFits DEF JobsOK
    <2>6. JobsOK'
      BY <1>1, <2>1, <2>3, <2>5, OneJob
    <2> QED  BY <1>1, <2>2, <2>6, NewDatabase
  <1>5. CASE ~ CanAdopt(db, v)
    <2>1. UNCHANGED db /\ job' = [job EXCEPT ![p] = Ended(p)]
      BY <1>2, <1>5 DEF Adopt, Goes
    <2> QED  BY <1>1, <2>1, GivesUp, NewDatabase DEF StoresOK
  <1> QED  BY <1>4, <1>5

LEMMA MigrateInv ==
  ASSUME ServerInv, NEW p \in Process, Migrate(p)
  PROVE  StoresOK' /\ JobsOK'
  <1>1. /\ job[p].at = "migrate" /\ job[p] \in JobType
        /\ db \in Whole /\ JobsOK /\ StoresOK /\ release \in Version
        /\ job[p].at \in Based \cup {"adopt", "migrate"}
        /\ UNCHANGED <<snaps, aside, release, tool, receipt, spent>>
    BY DEF Migrate, At, ServerInv, JobsOK, StoresOK, Stays
  <1>2. PICK k : k = job[p].version
    OBVIOUS
  <1>3. /\ k \in Version /\ 2 <= k /\ k <= release /\ k - 1 <= db.version /\ db.tracked
    <2>1. k \in Version
      BY <1>1, <1>2 DEF JobType, Based, Fresh
    <2>2. Fits(job[p], db, release)
      BY <1>1 DEF JobsOK
    <2> QED  BY <1>1, <1>2, <2>1, <2>2 DEF Fits
  <1>4. CASE CanMigrate(db, k)
    <2>1. db' = Migrated(db, k) /\ job' = [job EXCEPT ![p] = After(p, k)]
      BY <1>2, <1>4 DEF Migrate, Goes
    <2>2. db.version = k - 1 /\ db' \in Whole /\ db'.version = k /\ db'.tracked
      BY <1>1, <1>3, <1>4, <2>1, MigratedWhole
    <2>3. /\ After(p, k) \in JobType /\ After(p, k).at \notin Filling
          /\ Fits(After(p, k), db', release)
      BY <1>1, <1>3, <2>2, AfterOK
    <2>4. db.version > 0 /\ db.version <= db'.version
      BY <1>3, <2>2, MigrationsAssumption DEF Version
    <2>5. \A q \in Process : Fits(job[q], db', release)
      BY <1>1, <1>3, <2>2, <2>4, KeptFits DEF JobsOK
    <2>6. JobsOK'
      BY <1>1, <2>1, <2>3, <2>5, OneJob
    <2> QED  BY <1>1, <2>2, <2>6, NewDatabase
  <1>5. CASE ~ CanMigrate(db, k)
    <2>1. UNCHANGED db /\ job' = [job EXCEPT ![p] = Ended(p)]
      BY <1>2, <1>5 DEF Migrate, Goes
    <2> QED  BY <1>1, <2>1, GivesUp, NewDatabase DEF StoresOK
  <1> QED  BY <1>4, <1>5

\* Initialising is a process's business: no tool is at work.
LEMMA InitialisesInv ==
  ASSUME ServerInv, NEW p \in Process, Initialises(p)
  PROVE  ServerInv'
  <1>1. job[p].at # "off" /\ UNCHANGED tool
    BY DEF Initialises, InitDb, Create, Finish, Stamp, Record, Adopt, Migrate, At, Stays
  <1>2. ToolAlone'
    BY <1>1, ToolStops, ToolRests DEF ServerInv
  <1>3. StoresOK' /\ JobsOK'
    BY InitDbInv, CreateInv, FinishInv, StampInv, RecordInv, AdoptInv, MigrateInv
       DEF Initialises
  <1> QED  BY <1>2, <1>3 DEF ServerInv

-----------------------------------------------------------------------------
(* The loop, the server at work, and the digest *)

\* A step of one process that stores nothing but a backup.
LEMMA JobOnly ==
  ASSUME ServerInv, NEW p \in Process, NEW r \in JobType, job' = [job EXCEPT ![p] = r],
         Fits(r, db, release), r.at \notin Filling, tool.at = "idle",
         spent' \in [{"start", "write", "tool", "fault"} -> Nat],
         snaps' \in Seq(Whole), UNCHANGED <<db, aside, release, tool, receipt>>
  PROVE  ServerInv'
  <1>1. JobsOK'
    BY QuietJob DEF ServerInv
  <1>2. StoresOK'
    BY DEF ServerInv, StoresOK
  <1> QED  BY <1>1, <1>2, ToolRests DEF ServerInv

LEMMA SpendOK ==
  ASSUME StoresOK, NEW what \in {"start", "write", "tool", "fault"}, NEW max, Spend(what, max)
  PROVE  spent' \in [{"start", "write", "tool", "fault"} -> Nat]
  BY DEF StoresOK, Spend

LEMMA PruneOK ==
  ASSUME NEW S, NEW s \in Seq(S)
  PROVE  Prune(s) \in Seq(S)
  <1>1. CASE Len(s) > Keep
    <2>1. /\ Len(s) - Keep + 1 \in 1 .. Len(s) + 1 /\ Len(s) \in 0 .. Len(s)
      BY <1>1, ServerAssumption
    <2>2. SubSeq(s, Len(s) - Keep + 1, Len(s)) \in Seq(S)
      BY <2>1, SubSeqProperties
    <2> QED  BY <1>1, <2>2 DEF Prune
  <1>2. CASE ~ Len(s) > Keep
    BY <1>2 DEF Prune
  <1> QED  BY <1>1, <1>2

LEMMA SnapshotOK ==
  ASSUME StoresOK
  PROVE  Snapshot \in Seq(Whole) /\ Prune(Snapshot) \in Seq(Whole)
  <1>1. Snapshot \in Seq(Whole)
    BY AppendProperties DEF StoresOK, Snapshot
  <1> QED  BY <1>1, PruneOK

LEMMA Same ==
  ASSUME ServerInv
  PROVE  /\ JobsOK /\ StoresOK /\ ToolAlone /\ db \in Whole /\ snaps \in Seq(Whole)
         /\ spent \in [{"start", "write", "tool", "fault"} -> Nat]
  BY DEF ServerInv, StoresOK

LEMMA PlainJob ==
  ASSUME NEW at \in {"off", "loop", "build", "ran"}, NEW d, NEW v
  PROVE  [at |-> at] \in JobType /\ [at |-> at].at \notin Filling /\ Fits([at |-> at], d, v)
  BY FreeFits DEF JobType, Filling

LEMMA BegunOK ==
  ASSUME db \in Whole, NEW p, NEW at \in {"check", "init"}, NEW d, NEW v
  PROVE  /\ Begun(p, at) \in JobType /\ Begun(p, at).at \notin Filling
         /\ Fits(Begun(p, at), d, v)
  <1>1. ASSUME NEW b \in BOOLEAN
        PROVE  [at |-> at, base |-> db, alone |-> b] \in JobType
    BY DEF JobType, Based
  <1>2. (\A q \in Process \ {p} : job[q] = Off) \in BOOLEAN
    OBVIOUS
  <1>3. Begun(p, at) \in JobType
    BY <1>1, <1>2, Zenon DEF Begun
  <1>4. Begun(p, at).at = at
    BY DEF Begun
  <1> QED  BY <1>3, <1>4, FreeFits DEF Filling

\* From one step of a start to one that knows nothing yet.
LEMMA GoingFree ==
  ASSUME JobsOK, NEW p \in Process, job[p].at \in Based \cup {"adopt", "migrate"},
         NEW at \in {"backup", "init"}, NEW d, NEW v
  PROVE  /\ Going(p, at) \in JobType /\ Going(p, at).at \notin Filling
         /\ Fits(Going(p, at), d, v)
  <1>1. Going(p, at) \in JobType /\ Going(p, at).at = at
    BY GoingOK DEF Based
  <1> QED  BY <1>1, FreeFits DEF Filling

LEMMA EndedFree ==
  ASSUME NEW p, NEW d, NEW v
  PROVE  /\ Ended(p) \in JobType /\ Ended(p).at \notin Filling /\ Fits(Ended(p), d, v)
  BY EndedOK, FreeFits DEF Filling

LEMMA ServiceInv ==
  ASSUME ServerInv, ServiceSteps
  PROVE  ServerInv'
  <1> DEFINE p == "service"
  <1>0. p \in Process
    BY DEF Process
  <1>1. CASE Loop
    <2>1. PICK at \in {"off", "build"} : job' = [job EXCEPT ![p] = [at |-> at]]
      BY <1>1 DEF Loop, Goes, Off
    <2> QED  BY <1>0, <1>1, <2>1, Same, PlainJob, ToolStops, JobOnly DEF Loop, At, Stays
  <1>2. CASE Build
    BY <1>0, <1>2, Same, BegunOK, ToolStops, JobOnly DEF Build, At, Goes
  <1>3. CASE Check
    <2>1. job[p].at = "check" /\ job[p].at \in Based \cup {"adopt", "migrate"}
      BY <1>3 DEF Check, At, Based
    <2>2. \/ job' = [job EXCEPT ![p] = Ended(p)]
          \/ \E at \in {"backup", "init"} : job' = [job EXCEPT ![p] = Going(p, at)]
      BY <1>3 DEF Check, Goes
    <2>3. PICK r : /\ job' = [job EXCEPT ![p] = r] /\ r \in JobType /\ r.at \notin Filling
                   /\ Fits(r, db, release)
      BY <1>0, <2>1, <2>2, Same, GoingFree, EndedFree
    <2> QED  BY <1>0, <1>3, <2>1, <2>3, Same, ToolStops, JobOnly DEF Check, Stays
  <1>4. CASE Backup
    <2>1. job[p].at = "backup" /\ job[p].at \in Based \cup {"adopt", "migrate"}
      BY <1>4 DEF Backup, At, Based
    <2>2. /\ Going(p, "init") \in JobType /\ Going(p, "init").at \notin Filling
          /\ Fits(Going(p, "init"), db, release)
      BY <1>0, <2>1, Same, GoingFree
    <2> QED  BY <1>0, <1>4, <2>1, <2>2, Same, SnapshotOK, ToolStops, JobOnly
             DEF Backup, Goes, Stays
  <1>5. CASE Initialises("service")
    BY <1>0, <1>5, InitialisesInv
  <1>6. CASE Shutdown
    <2>1. job[p].at = "up" /\ job[p].at \in Based \cup {"adopt", "migrate"}
      BY <1>6 DEF Shutdown, At, Based
    <2>2. Going(p, "close") \in JobType /\ Going(p, "close").at = "close"
      BY <1>0, <2>1, Same, GoingOK DEF Based
    <2>3. Fits(Going(p, "close"), db, release)
      BY <1>0, <2>1, <2>2, Same DEF JobsOK, Fits, Filling
    <2> QED  BY <1>0, <1>6, <2>1, <2>2, <2>3, Same, ToolStops, JobOnly
             DEF Shutdown, Goes, Stays, Filling
  <1>7. CASE ShutdownBackup
    BY <1>0, <1>7, Same, PlainJob, SnapshotOK, ToolStops, JobOnly
       DEF ShutdownBackup, At, Goes, Stays
  <1>8. CASE Ran
    <2>1. PICK at \in {"off", "loop"} : job' = [job EXCEPT ![p] = [at |-> at]]
      BY <1>8 DEF Ran, Goes, Off
    <2> QED  BY <1>0, <1>8, <2>1, Same, PlainJob, ToolStops, JobOnly DEF Ran, At
  <1> QED  BY <1>1, <1>2, <1>3, <1>4, <1>5, <1>6, <1>7, <1>8 DEF ServiceSteps

LEMMA JobsStay ==
  ASSUME JobsOK, UNCHANGED job, \A q \in Process : Fits(job[q], db', release')
  PROVE  JobsOK'
  BY DEF JobsOK

\* The service starts, is asked to stop or restart, saves work, keeps a backup.
LEMMA StartServiceInv ==
  ASSUME ServerInv, StartService
  PROVE  ServerInv'
  BY Same, PlainJob, SpendOK, JobOnly DEF StartService, Process, Goes, Idle

LEMMA AskInv ==
  ASSUME ServerInv, Stop \/ EndServer \/ RequestRestart \/ ScheduledBackup
  PROVE  ServerInv'
  <1>1. UNCHANGED <<db, aside, release, job, tool, receipt>>
    BY DEF Stop, EndServer, RequestRestart, ScheduledBackup, Stays
  <1>2. snaps' \in Seq(Whole)
    BY Same, SnapshotOK DEF Stop, EndServer, RequestRestart, ScheduledBackup
  <1>3. spent' \in [{"start", "write", "tool", "fault"} -> Nat]
    BY Same, SpendOK DEF Stop, EndServer, RequestRestart, ScheduledBackup, Stays
  <1>4. StoresOK'
    BY <1>1, <1>2, <1>3 DEF ServerInv, StoresOK
  <1>5. JobsOK' /\ ToolAlone'
    BY <1>1 DEF ServerInv, JobsOK, ToolAlone
  <1> QED  BY <1>4, <1>5 DEF ServerInv

LEMMA SaveInv ==
  ASSUME ServerInv, NEW kind \in Kind, Save(kind)
  PROVE  ServerInv'
  <1> DEFINE w == spent.write + 1
             u == db.unfilled \/ kind = "arrival" \/ release < BackFill
             t == db.untidy \/ kind = "scan" \/ release < Tidy
  <1>1. /\ db' = [db EXCEPT !.work = @ \cup {w}, !.unfilled = u, !.untidy = t]
        /\ UNCHANGED <<snaps, aside, release, job, tool, receipt>>
        /\ job["service"].at = "up"
    BY DEF Save, At
  <1>2. w \in Nat /\ spent' \in [{"start", "write", "tool", "fault"} -> Nat]
    BY Same, SpendOK DEF Save
  <1>3. db' \in Whole /\ db'.version = db.version /\ (db.tracked => db'.tracked)
    <2>1. u \in BOOLEAN /\ t \in BOOLEAN
      OBVIOUS
    <2> HIDE DEF u, t, w
    <2>2. ASSUME NEW uu \in BOOLEAN, NEW tt \in BOOLEAN,
                 db' = [db EXCEPT !.work = @ \cup {w}, !.unfilled = uu, !.untidy = tt]
          PROVE  db' \in Whole /\ db'.version = db.version /\ (db.tracked => db'.tracked)
      <3>1. db \in Database /\ Honest(db) /\ w \in Nat
        BY <1>2, Same DEF Whole
      <3>2. /\ db' \in Database /\ db'.version = db.version /\ db'.ledger = db.ledger
            /\ db'.tables = db.tables /\ db'.parts = db.parts
        BY <2>2, <3>1 DEF Database
      <3>3. db'.tracked = db.tracked
        BY <2>2, <3>1 DEF Database
      <3>4. db.version = release /\ release \in Version
        BY <1>1, Same DEF Process, JobsOK, Fits, StoresOK
      <3>5. db.version > 0
        BY <3>4, UpTo
      <3> QED  BY <3>1, <3>2, <3>3, <3>5 DEF Whole, Honest
    <2> QED  BY <1>1, <2>1, <2>2, Zenon
  <1>4. db.version = release /\ release \in Version
    BY <1>1, Same DEF Process, JobsOK, Fits, StoresOK
  <1>5. db.version > 0 /\ db.version <= db'.version /\ db'.version <= release
        /\ ~ db.version < db'.version
    BY <1>3, <1>4, UpTo DEF Version
  <1>6. \A q \in Process : Fits(job[q], db', release')
    BY <1>1, <1>3, <1>4, <1>5, Same, KeptFits DEF JobsOK
  <1>7. JobsOK'
    BY <1>1, <1>6, Same, JobsStay
  <1>8. StoresOK'
    BY <1>1, <1>2, <1>3 DEF ServerInv, StoresOK
  <1>9. ToolAlone'
    BY <1>1 DEF ServerInv, ToolAlone
  <1> QED  BY <1>7, <1>8, <1>9 DEF ServerInv

LEMMA StartDigestInv ==
  ASSUME ServerInv, StartDigest
  PROVE  ServerInv'
  <1> DEFINE o == job["service"]
             r == IF "alone" \in DOMAIN o THEN [o EXCEPT !.alone = FALSE] ELSE o
  <1>1. job["digest"].at = "off" /\ tool.at = "idle" /\ o \in JobType
    BY Same DEF StartDigest, At, Idle, JobsOK, Process
  <1>2. r \in JobType /\ r.at = o.at /\ (o.at \in {"adopt", "migrate"} => r.version = o.version)
    <2>1. CASE o \in [at : {"off", "loop", "build", "ran"}]
      <3>1. DOMAIN o = {"at"} /\ o.at \in {"off", "loop", "build", "ran"}
        BY <2>1
      <3>2. r = o
        BY <3>1
      <3> QED  BY <1>1, <3>1, <3>2
    <2>2. CASE o \in [at : Based, base : Whole, alone : BOOLEAN]
      BY <2>2 DEF JobType, Based, Fresh
    <2>3. CASE o \in [at : {"adopt", "migrate"}, base : Whole, alone : BOOLEAN, version : Version]
      BY <2>3 DEF JobType
    <2> QED  BY <1>1, <2>1, <2>2, <2>3 DEF JobType
  <1>3. Fits(r, db, release)
    <2>1. Fits(o, db, release)
      BY Same DEF JobsOK, Process
    <2> QED  BY <1>2, <2>1 DEF Fits, Filling
  <1>4. PICK b : b = Begun("digest", "init")
    OBVIOUS
  <1>5. b \in JobType /\ b.at \notin Filling /\ Fits(b, db, release)
    BY <1>4, Same, BegunOK
  <1>6. /\ job' = [q \in Process |-> IF q = "digest" THEN b ELSE r]
        /\ UNCHANGED <<db, snaps, aside, release, tool, receipt>>
    BY <1>4, Same DEF StartDigest, JobsOK, Process
  <1>7. JobsOK'
    <2> HIDE DEF r
    <2>1. job' \in [Process -> JobType]
      BY <1>2, <1>5, <1>6
    <2>2. \A q \in Process : Fits(job'[q], db', release')
      BY <1>3, <1>5, <1>6
    <2>3. \A q, s \in Process : job'[q].at \in Filling /\ job'[s].at \in Filling => q = s
      <3>1. \A q \in Process : job'[q].at \in Filling => q = "service"
        BY <1>5, <1>6 DEF Process
      <3> QED  BY <3>1
    <2> QED  BY <2>1, <2>2, <2>3 DEF JobsOK
  <1>8. spent' \in [{"start", "write", "tool", "fault"} -> Nat]
    BY Same, SpendOK DEF StartDigest
  <1>9. StoresOK' /\ ToolAlone'
    BY <1>1, <1>6, <1>8, ToolRests DEF ServerInv, StoresOK
  <1> QED  BY <1>7, <1>9 DEF ServerInv

-----------------------------------------------------------------------------
(* Tools, the installer and failures *)

\* Nothing runs: any whole database may be put in place, of any release.
LEMMA ToolStep ==
  ASSUME ServerInv, \A p \in Process : job[p].at = "off", UNCHANGED job,
         db' \in Whole, snaps' \in Seq(Whole), aside' \subseteq Whole, release' \in Version,
         tool' \in ToolType, receipt' \in ReceiptType,
         spent' \in [{"start", "write", "tool", "fault"} -> Nat]
  PROVE  ServerInv'
  <1>1. JobsOK'
    BY Same, AllOff DEF JobsOK
  <1>2. StoresOK'
    BY DEF StoresOK
  <1>3. ToolAlone'
    BY DEF ToolAlone
  <1> QED  BY <1>1, <1>2, <1>3 DEF ServerInv

LEMMA QuietOff ==
  ASSUME Quiet
  PROVE  tool.at = "idle" /\ \A p \in Process : job[p].at = "off"
  BY DEF Quiet, Idle, Off

LEMMA StoresTyped ==
  ASSUME ServerInv
  PROVE  /\ aside \subseteq Whole /\ release \in Version /\ tool \in ToolType
         /\ receipt \in ReceiptType
  BY DEF ServerInv, StoresOK

LEMMA BeginToolInv ==
  ASSUME ServerInv, NEW s \in Whole, NEW then \in {"put", "away"},
         Quiet, Spend("tool", MaxTool),
         tool' = [at |-> IF Exists(db) THEN "keep" ELSE "put", with |-> s, then |-> then],
         UNCHANGED <<db, snaps, aside, release, job, svc, receipt>>
  PROVE  ServerInv'
  <1>1. tool' \in ToolType
    <2>1. PICK at \in {"keep", "put"} : tool' = [at |-> at, with |-> s, then |-> then]
      OBVIOUS
    <2> QED  BY <2>1 DEF ToolType
  <1> QED  BY <1>1, Same, StoresTyped, QuietOff, SpendOK, ToolStep

LEMMA ToolWorksAlone ==
  ASSUME ServerInv, tool.at # "idle"
  PROVE  \A p \in Process : job[p].at = "off"
  BY DEF ServerInv, ToolAlone

LEMMA IdleTool == Idle \in ToolType /\ NoReceipt \in ReceiptType
  BY DEF Idle, ToolType, NoReceipt, ReceiptType

LEMMA KeepOldInv ==
  ASSUME ServerInv, KeepOld
  PROVE  ServerInv'
  <1>1. tool.at = "keep" /\ tool' = [tool EXCEPT !.at = tool.then]
    BY DEF KeepOld
  <1>2. tool \in [at : {"keep", "put", "away"}, with : Whole, then : {"put", "away"}]
    BY <1>1, StoresTyped DEF ToolType
  <1>3. tool' \in ToolType
    BY <1>1, <1>2 DEF ToolType
  <1>4. snaps' \in Seq(Whole)
    BY Same, SnapshotOK DEF KeepOld
  <1> QED  BY <1>1, <1>3, <1>4, Same, StoresTyped, ToolWorksAlone, ToolStep DEF KeepOld

LEMMA MoveAwayInv ==
  ASSUME ServerInv, MoveAway
  PROVE  ServerInv'
  <1>1. tool.at = "away" /\ tool' = [at |-> "install", with |-> tool.with, old |-> db]
    BY DEF MoveAway
  <1>2. tool.with \in Whole
    BY <1>1, StoresTyped DEF ToolType
  <1>3. tool' \in ToolType
    BY <1>1, <1>2, Same DEF ToolType
  <1>4. db' \in Whole /\ aside' \subseteq Whole
    BY Same, StoresTyped, AbsentWhole DEF MoveAway
  <1> QED  BY <1>1, <1>3, <1>4, Same, StoresTyped, ToolWorksAlone, ToolStep DEF MoveAway

LEMMA PutInv ==
  ASSUME ServerInv, Put
  PROVE  ServerInv'
  <1>1. tool.at \in {"put", "install"}
    BY DEF Put
  <1>2. tool.with \in Whole
    BY <1>1, StoresTyped DEF ToolType
  <1>3. aside' \subseteq Whole
    BY StoresTyped DEF Put
  <1> QED  BY <1>1, <1>2, <1>3, Same, StoresTyped, IdleTool, ToolWorksAlone,
       ToolStep DEF Put

LEMMA UpgradeInv ==
  ASSUME ServerInv, Upgrade
  PROVE  ServerInv'
  <1>1. release' \in Version
    BY StoresTyped, MigrationsAssumption DEF Upgrade, Version
  <1>2. aside' \subseteq Whole
    BY Same, StoresTyped DEF Upgrade
  <1>3. receipt' \in ReceiptType
    BY Same, StoresTyped DEF Upgrade, ReceiptType
  <1> QED  BY <1>1, <1>2, <1>3, Same, StoresTyped, QuietOff, SpendOK, ToolStep
       DEF Upgrade

LEMMA AcceptInv ==
  ASSUME ServerInv, Accept
  PROVE  ServerInv'
  <1>1. StoresOK'
    BY IdleTool DEF ServerInv, StoresOK, Accept
  <1> QED  BY <1>1 DEF ServerInv, JobsOK, ToolAlone, Accept

LEMMA RollBackInv ==
  ASSUME ServerInv, RollBack
  PROVE  ServerInv'
  <1>1. receipt.db \in Whole /\ receipt.release \in Version
    BY StoresTyped DEF RollBack, ReceiptType
  <1> QED  BY <1>1, Same, StoresTyped, IdleTool, QuietOff, ToolStep DEF RollBack

LEMMA ToolsInv ==
  ASSUME ServerInv, Tools
  PROVE  ServerInv'
  <1>1. ASSUME NEW i \in DOMAIN snaps, Restore(snaps[i]) PROVE ServerInv'
    <2>1. snaps[i] \in Whole
      BY Same
    <2> QED  BY <1>1, <2>1, BeginToolInv DEF Restore
  <1>2. ASSUME NEW v \in 1 .. release, Replace(v) PROVE ServerInv'
    <2>1. Released(v) \in Whole
      <3>1. v \in Version
        BY StoresTyped, MigrationsAssumption DEF Version
      <3> QED  BY <3>1, ReleasedWhole
    <2> QED  BY <1>2, <2>1, BeginToolInv DEF Replace
  <1> QED  BY <1>1, <1>2, KeepOldInv, MoveAwayInv, PutInv, UpgradeInv, AcceptInv,
       RollBackInv
           DEF Tools

LEMMA FailsInv ==
  ASSUME ServerInv, NEW p \in Process, Fails(p)
  PROVE  ServerInv'
  <1>1. job[p].at # "off"
    BY DEF Fails, Starting, Fresh
  <1> QED  BY <1>1, Same, EndedFree, SpendOK, ToolStops, JobOnly DEF Fails, Goes

LEMMA ToolFailsInv ==
  ASSUME ServerInv, ToolFails
  PROVE  ServerInv'
  <1>1. tool.at # "idle"
    BY StoresTyped DEF ToolFails, ToolType, Idle
  <1>2. db' \in Whole /\ aside' \subseteq Whole
    <2>1. CASE tool.at = "install"
      BY <2>1, StoresTyped DEF ToolFails, ToolType
    <2>2. CASE tool.at # "install"
      BY <2>2, Same, StoresTyped DEF ToolFails
    <2> QED  BY <2>1, <2>2
  <1> QED  BY <1>1, <1>2, Same, StoresTyped, IdleTool, SpendOK, ToolWorksAlone, ToolStep
           DEF ToolFails

LEMMA CrashInv ==
  ASSUME ServerInv, Crash
  PROVE  ServerInv'
  <1>1. \A p \in Process : job'[p].at = "off" /\ job'[p] \in JobType
    BY DEF Crash, Off, JobType
  <1>2. job' \in [Process -> JobType]
    BY <1>1 DEF Crash
  <1>3. JobsOK'
    BY <1>1, <1>2, OffFits DEF JobsOK, Filling
  <1>4. spent' \in [{"start", "write", "tool", "fault"} -> Nat]
    BY Same, SpendOK DEF Crash
  <1>5. StoresOK' /\ ToolAlone'
    BY <1>4, IdleTool DEF ServerInv, StoresOK, ToolAlone, Crash, Idle
  <1> QED  BY <1>3, <1>5 DEF ServerInv

-----------------------------------------------------------------------------
(* The theorem *)

LEMMA InitInv ==
  ASSUME Init
  PROVE  ServerInv
  <1>1. db \in Whole
    <2>1. \A v \in 1 .. FirstRelease : v \in Version
      BY ServerAssumption, MigrationsAssumption DEF Version
    <2> QED  BY <2>1, AbsentWhole, ReleasedWhole DEF Init
  <1>2. StoresOK
    BY <1>1, IdleTool, ServerAssumption DEF Init, StoresOK
  <1>3. \A p \in Process : job[p].at = "off" /\ job[p] \in JobType
    BY DEF Init, Off, JobType
  <1>4. JobsOK
    BY <1>3, OffFits DEF Init, JobsOK, Filling
  <1>5. ToolAlone
    BY DEF Init, Idle, ToolAlone
  <1> QED  BY <1>2, <1>4, <1>5 DEF ServerInv

LEMMA NextInv ==
  ASSUME ServerInv, [Next]_vars
  PROVE  ServerInv'
  <1>1. CASE Next
    <2>1. CASE Initialises("digest")
      BY <2>1, InitialisesInv DEF Process
    <2> QED  BY <1>1, <2>1, ServiceInv, StartServiceInv, AskInv, SaveInv,
         StartDigestInv,
                ToolsInv, FailsInv, ToolFailsInv, CrashInv DEF Next
  <1>2. CASE UNCHANGED vars
    BY <1>2 DEF vars, ServerInv, StoresOK, JobsOK, ToolAlone
  <1> QED  BY <1>1, <1>2

\* The schema version and the ledger are true of the database and of every
\* copy of it, and a server serves its own version only: migrations that are
\* resumed, repeated by a digest that starts in between, cut short by a crash,
\* or run on a database that a tool has put in place (database/migrations/).
THEOREM LedgersAreHonest == Spec => []LedgerIsHonest
  <1>1. ServerInv => LedgerIsHonest
    <2> SUFFICES ASSUME ServerInv PROVE LedgerIsHonest
      OBVIOUS
    <2>1. \A d \in Copies \cup {db} : d \in Whole
      BY Same, StoresTyped DEF Copies, Range
    <2>2. At("service", "up") => db.version = release /\ db.tracked
      BY Same DEF At, JobsOK, Fits, Process
    <2> QED  BY <2>1, <2>2 DEF LedgerIsHonest, Whole
  <1> QED  BY <1>1, InitInv, NextInv, PTL DEF Spec

-----------------------------------------------------------------------------
(* The installed release, the flags of the service and the backups kept *)

SvcType == [stopping : BOOLEAN, restart : BOOLEAN, server : BOOLEAN, exit : BOOLEAN,
            stop : {"no", "asked", "found", "missed"}]

\* A tool that keeps a backup first has been paid for.
Owed == IF tool.at = "keep" THEN 1 ELSE 0

ReleasesOK == /\ release \in FirstRelease .. MaxVersion
              /\ receipt.held => receipt.release \in FirstRelease .. MaxVersion
SvcOK == svc \in SvcType /\ (svc.stop # "no" => svc.stopping)
BackupsOK == spent.tool <= MaxTool /\ Len(snaps) + Owed <= Keep + spent.tool

Counted == ReleasesOK /\ SvcOK /\ BackupsOK

\* Backups are pruned to the number that is kept, the newest among them.
LEMMA PruneKeeps ==
  ASSUME NEW s \in Seq(Whole), s # <<>>
  PROVE  /\ Len(Prune(s)) \in 0 .. Keep
         /\ s[Len(s)] \in Range(Prune(s))
  <1>1. Keep \in Nat \ {0} /\ Len(s) \in Nat /\ Len(s) > 0
    BY ServerAssumption, EmptySeq
  <1>2. CASE Len(s) > Keep
    <2>1. PICK a : a = Len(s) - Keep + 1
      OBVIOUS
    <2> DEFINE z == SubSeq(s, a, Len(s))
    <2>2. /\ a \in 1 .. Len(s) + 1 /\ Len(s) \in a - 1 .. Len(s)
          /\ Len(s) - a + 1 = Keep /\ a <= Len(s) /\ Keep + a - 1 = Len(s)
      BY <1>1, <1>2, <2>1
    <2>3. /\ z \in Seq(Whole) /\ Len(z) = Keep
          /\ \A i \in 1 .. Keep : z[i] = s[a + i - 1]
      BY <2>2, SubSeqProperties
    <2> HIDE DEF z
    <2>4. Keep \in 1 .. Keep /\ DOMAIN z = 1 .. Keep /\ a + Keep - 1 = Len(s)
      BY <1>1, <2>2, <2>3
    <2>5. z[Keep] = s[Len(s)]
      BY <2>3, <2>4
    <2>6. Prune(s) = z
      BY <1>2, <2>1 DEF Prune, z
    <2>7. s[Len(s)] \in Range(z) /\ Len(z) \in 0 .. Keep
      BY <1>1, <2>3, <2>4, <2>5 DEF Range
    <2> QED  BY <2>6, <2>7
  <1>3. CASE ~ Len(s) > Keep
    <2>1. Prune(s) = s /\ Len(s) \in DOMAIN s
      BY <1>1, <1>3 DEF Prune
    <2>2. s[Len(s)] \in Range(s) /\ Len(s) \in 0 .. Keep
      BY <1>1, <1>3, <2>1 DEF Range
    <2> QED  BY <2>1, <2>2
  <1> QED  BY <1>2, <1>3

LEMMA SnapshotKeeps ==
  ASSUME StoresOK
  PROVE  /\ Len(Snapshot) = Len(snaps) + 1
         /\ db \in Range(Snapshot) /\ Range(snaps) \subseteq Range(Snapshot)
         /\ Len(Prune(Snapshot)) \in 0 .. Keep /\ db \in Range(Prune(Snapshot))
  <1>1. /\ Snapshot \in Seq(Whole) /\ Len(Snapshot) = Len(snaps) + 1 /\ Len(snaps) \in Nat
        /\ \A i \in 1 .. Len(snaps) : Snapshot[i] = snaps[i]
        /\ Snapshot[Len(snaps) + 1] = db
    BY AppendProperties DEF StoresOK, Snapshot
  <1>2. Snapshot # <<>>
    BY <1>1, EmptySeq
  <1>3. DOMAIN snaps = 1 .. Len(snaps) /\ DOMAIN Snapshot = 1 .. Len(snaps) + 1
    BY <1>1 DEF StoresOK
  <1>4. db \in Range(Snapshot)
    BY <1>1, <1>3 DEF Range
  <1>5. Range(snaps) \subseteq Range(Snapshot)
    BY <1>1, <1>3 DEF Range
  <1>6. Len(Prune(Snapshot)) \in 0 .. Keep /\ db \in Range(Prune(Snapshot))
    BY <1>1, <1>2, PruneKeeps
  <1> QED  BY <1>1, <1>4, <1>5, <1>6

LEMMA Spent ==
  ASSUME StoresOK, NEW what \in {"start", "write", "tool", "fault"}, NEW max, Spend(what, max)
  PROVE  /\ spent' = [spent EXCEPT ![what] = spent[what] + 1]
         /\ spent[what] < max
         /\ \A o \in {"start", "write", "tool", "fault"} :
              spent[o] \in Nat /\ spent'[o] = IF o = what THEN spent[o] + 1 ELSE spent[o]
  BY DEF StoresOK, Spend

LEMMA ReleasesNext ==
  ASSUME ServerInv, ReleasesOK, [Next]_vars
  PROVE  ReleasesOK'
  <1>1. CASE UNCHANGED <<release, receipt>>
    BY <1>1 DEF ReleasesOK
  <1>2. CASE Upgrade
    <2>1. /\ receipt' = [held |-> TRUE, db |-> db, release |-> release] /\ release' = release + 1
          /\ release < MaxVersion
      BY <1>2 DEF Upgrade
    <2>2. release' \in FirstRelease .. MaxVersion
      BY <2>1, ServerAssumption, MigrationsAssumption DEF ReleasesOK, Version
    <2> QED  BY <2>1, <2>2 DEF ReleasesOK
  <1>3. CASE Accept \/ RollBack
    BY <1>3 DEF Accept, RollBack, ReleasesOK, NoReceipt
  <1>4. CASE Crash
    BY <1>4 DEF Crash, ReleasesOK, NoReceipt
  <1>5. CASE Initialises("service") \/ Initialises("digest")
    BY <1>1, <1>5 DEF Initialises, InitDb, Create, Finish, Stamp, Record, Adopt,
       Migrate, Stays
  <1>6. CASE ServiceSteps /\ ~ Initialises("service")
    BY <1>1, <1>6 DEF ServiceSteps, Loop, Build, Check, Backup, Shutdown,
       ShutdownBackup, Ran, Stays
  <1>7. CASE StartService \/ Stop \/ EndServer \/ RequestRestart \/ StartDigest
    BY <1>1, <1>7 DEF StartService, Stop, EndServer, RequestRestart, StartDigest
  <1>8. CASE (\E kind \in Kind : Save(kind)) \/ ScheduledBackup
    BY <1>1, <1>8 DEF Save, ScheduledBackup, Stays
  <1>9. CASE (\E p \in Process : Fails(p)) \/ ToolFails
    BY <1>1, <1>9 DEF Fails, ToolFails
  <1>10. CASE Tools /\ ~ (Upgrade \/ Accept \/ RollBack)
    BY <1>1, <1>10 DEF Tools, Restore, Replace, KeepOld, MoveAway, Put
  <1>11. CASE UNCHANGED vars
    BY <1>1, <1>11 DEF vars
  <1> QED  BY <1>2, <1>3, <1>4, <1>5, <1>6, <1>7, <1>8, <1>9, <1>10, <1>11
       DEF Next, Tools

LEMMA SvcNext ==
  ASSUME ServerInv, SvcOK, [Next]_vars
  PROVE  SvcOK'
  <1>1. CASE UNCHANGED svc
    BY <1>1 DEF SvcOK
  <1>2. Unset \in SvcType /\ Unset.stop = "no"
    BY DEF Unset, SvcType
  <1>3. CASE StartService \/ Crash
    BY <1>2, <1>3 DEF StartService, Crash, SvcOK
  <1>4. CASE Stop \/ EndServer
    <2>1. CASE Stop
      BY <2>1 DEF Stop, SvcOK, SvcType
    <2>2. CASE EndServer
      <3>1. PICK e \in BOOLEAN, s \in {"found", "missed"} :
              svc' = [svc EXCEPT !.exit = e, !.stop = s]
        <4>1. (svc.exit \/ svc.server) \in BOOLEAN
          OBVIOUS
        <4>2. (IF svc.server THEN "found" ELSE "missed") \in {"found", "missed"}
          OBVIOUS
        <4>3. svc' = [svc EXCEPT !.exit = svc.exit \/ svc.server,
                                 !.stop = IF svc.server THEN "found" ELSE "missed"]
          BY <2>2 DEF EndServer
        <4> QED  BY <4>1, <4>2, <4>3, Zenon
      <3>2. svc.stopping
        BY <2>2 DEF EndServer, SvcOK
      <3> QED  BY <3>1, <3>2 DEF SvcOK, SvcType
    <2> QED  BY <1>4, <2>1, <2>2
  <1>5. CASE RequestRestart
    BY <1>5 DEF RequestRestart, SvcOK, SvcType
  <1>6. CASE Build
    BY <1>6 DEF Build, SvcOK, SvcType
  <1>7. CASE Ran
    BY <1>7 DEF Ran, SvcOK, SvcType
  <1>8. CASE Initialises("service") \/ Initialises("digest")
    BY <1>1, <1>8 DEF Initialises, InitDb, Create, Finish, Stamp, Record, Adopt,
       Migrate, Stays
  <1>9. CASE Loop \/ Check \/ Backup \/ Shutdown \/ ShutdownBackup
    BY <1>1, <1>9 DEF Loop, Check, Backup, Shutdown, ShutdownBackup, Stays
  <1>10. CASE (\E kind \in Kind : Save(kind)) \/ ScheduledBackup \/ StartDigest
    BY <1>1, <1>10 DEF Save, ScheduledBackup, StartDigest, Stays
  <1>11. CASE (\E p \in Process : Fails(p)) \/ ToolFails
    BY <1>1, <1>11 DEF Fails, ToolFails
  <1>12. CASE Tools
    BY <1>1, <1>12 DEF Tools, Restore, Replace, KeepOld, MoveAway, Put, Upgrade,
       Accept, RollBack
  <1>13. CASE UNCHANGED vars
    BY <1>1, <1>13 DEF vars
  <1> QED  BY <1>3, <1>4, <1>5, <1>6, <1>7, <1>8, <1>9, <1>10, <1>11, <1>12, <1>13
           DEF Next, ServiceSteps

LEMMA BackupsNext ==
  ASSUME ServerInv, BackupsOK, [Next]_vars
  PROVE  BackupsOK'
  <1>1. /\ StoresOK /\ Keep \in Nat \ {0} /\ MaxTool \in Nat
        /\ Len(snaps) \in Nat /\ spent.tool \in Nat /\ Owed \in {0, 1}
    BY ServerAssumption DEF ServerInv, StoresOK, Owed
  <1>2. CASE UNCHANGED <<snaps, tool>> /\ spent'.tool = spent.tool
    BY <1>2 DEF BackupsOK, Owed
  <1>3. CASE snaps' = Prune(Snapshot) /\ tool.at = "idle" /\ tool' = tool
             /\ spent'.tool = spent.tool
    <2>1. Len(snaps') \in 0 .. Keep /\ Owed' = 0
      BY <1>1, <1>3, SnapshotKeeps DEF Owed
    <2> QED  BY <1>1, <1>3, <2>1 DEF BackupsOK
  <1>4. CASE Backup \/ ScheduledBackup \/ ShutdownBackup
    BY <1>3, <1>4, ToolStops DEF ServerInv, Backup, ScheduledBackup, ShutdownBackup,
       At, Stays, Process
  <1>5. CASE Loop \/ Build \/ Check \/ Shutdown \/ Ran
    BY <1>2, <1>5 DEF Loop, Build, Check, Shutdown, Ran, Stays
  <1>6. CASE Initialises("service") \/ Initialises("digest")
    BY <1>2, <1>6 DEF Initialises, InitDb, Create, Finish, Stamp, Record, Adopt,
       Migrate, Stays
  <1>7. CASE Stop \/ EndServer
    BY <1>2, <1>7 DEF Stop, EndServer
  <1>8. CASE StartService \/ RequestRestart
    BY <1>1, <1>2, <1>8, Spent DEF StartService, RequestRestart
  <1>9. CASE \E kind \in Kind : Save(kind)
    BY <1>1, <1>2, <1>9, Spent DEF Save
  <1>10. CASE \E p \in Process : Fails(p)
    BY <1>1, <1>2, <1>10, Spent DEF Fails
  <1>11. CASE ToolFails \/ Crash
    <2>1. UNCHANGED snaps /\ spent'.tool = spent.tool /\ Owed' = 0
      BY <1>1, <1>11, Spent DEF ToolFails, Crash, Idle, Owed
    <2> QED  BY <1>1, <2>1 DEF BackupsOK
  <1>12. CASE StartDigest \/ Upgrade
    <2>1. UNCHANGED <<snaps,
                      tool>> /\ spent'.tool = spent.tool + 1 /\ spent.tool < MaxTool
      BY <1>1, <1>12, Spent DEF StartDigest, Upgrade
    <2> QED  BY <1>1, <2>1 DEF BackupsOK, Owed
  <1>13. CASE (\E i \in DOMAIN snaps : Restore(snaps[i])) \/ (\E v \in 1 .. release : Replace(v))
    <2>1. UNCHANGED snaps /\ spent'.tool = spent.tool + 1 /\ spent.tool < MaxTool /\ Quiet
      BY <1>1, <1>13, Spent DEF Restore, Replace
    <2>2. Owed = 0 /\ Owed' \in {0, 1}
      BY <2>1 DEF Owed, Quiet, Idle
    <2> QED  BY <1>1, <2>1, <2>2 DEF BackupsOK
  <1>14. CASE KeepOld
    <2>1. tool.at = "keep" /\ tool.then \in {"put", "away"} /\ tool'.at = tool.then
      BY <1>1, <1>14 DEF KeepOld, StoresOK, ToolType
    <2>2. Owed = 1 /\ Owed' = 0 /\ Len(snaps') = Len(snaps) + 1 /\ spent' = spent
      BY <1>1, <1>14, <2>1, SnapshotKeeps DEF KeepOld, Owed
    <2> QED  BY <1>1, <2>2 DEF BackupsOK
  <1>15. CASE MoveAway \/ Put
    <2>1. Owed' = 0 /\ UNCHANGED <<snaps, spent>>
      BY <1>15 DEF MoveAway, Put, Owed, Idle
    <2> QED  BY <1>1, <2>1 DEF BackupsOK
  <1>16. CASE Accept \/ RollBack
    BY <1>2, <1>16 DEF Accept, RollBack
  <1>17. CASE UNCHANGED vars
    BY <1>2, <1>17 DEF vars
  <1> QED  BY <1>4, <1>5, <1>6, <1>7, <1>8, <1>9, <1>10, <1>11, <1>12, <1>13, <1>14,
       <1>15,
              <1>16, <1>17 DEF Next, ServiceSteps, Tools

LEMMA CountedInit ==
  ASSUME Init
  PROVE  Counted
  <1>1. ReleasesOK
    BY ServerAssumption, MigrationsAssumption DEF Init, ReleasesOK, NoReceipt, Version
  <1>2. SvcOK
    BY DEF Init, Unset, SvcOK, SvcType
  <1>3. BackupsOK
    <2>1. Len(snaps) = 0 /\ Owed = 0 /\ spent.tool = 0
      BY DEF Init, Owed, Idle
    <2> QED  BY <2>1, ServerAssumption DEF BackupsOK
  <1> QED  BY <1>1, <1>2, <1>3 DEF Counted

\* The service, the installed release and the backups are typed; a stop is only
\* ever looked for after it has been asked; and backups are pruned to their number,
\* but for those that a tool has kept before it replaced the database.
THEOREM ServerTyped == Spec => []ServerTypeOK
  <1>1. Init => ServerInv /\ Counted
    BY InitInv, CountedInit
  <1>2. ServerInv /\ Counted /\ [Next]_vars => ServerInv' /\ Counted'
    BY NextInv, ReleasesNext, SvcNext, BackupsNext DEF Counted
  <1>3. ServerInv /\ Counted => ServerTypeOK
    <2> SUFFICES ASSUME ServerInv, Counted PROVE ServerTypeOK
      OBVIOUS
    <2>1. db \in Database /\ Copies \subseteq Database
      BY Same, StoresTyped DEF Copies, Range, Whole
    <2>2. Len(snaps) <= Keep + MaxTool
      <3>1. Len(snaps) \in Nat /\ spent.tool \in Nat /\ Owed \in {0, 1}
        BY Same DEF Owed
      <3> QED  BY <3>1, ServerAssumption DEF Counted, BackupsOK
    <2> QED  BY <2>1, <2>2 DEF Counted, ReleasesOK, SvcOK, SvcType, ServerTypeOK
  <1> QED  BY <1>1, <1>2, <1>3, PTL DEF Spec

-----------------------------------------------------------------------------
(* A start that is alone with the database *)

Alone == job["service"].at \in Starting /\ job["service"].alone

\* The database r began with is among the backups s, or has all that release v needs.
BackedUp(r, s, v) == r.base \in Range(s) \/ ~ Needs(r.base, v)

\* What a start that is alone knows, beyond Fits.
Knows(r, d, s, v) ==
  /\ r.at \in {"check", "backup", "init", "adopt"} => d = r.base
  /\ r.at = "init" => ~ Exists(d) \/ BackedUp(r, s, v)
  /\ r.at \in Fresh => ~ HasData(r.base)
  /\ r.at = "create" => d.tables = "none"
  /\ r.at = "adopt" => BackedUp(r, s, v) /\ r.version = d.version
  /\ r.at = "migrate" => r.base \in Range(s) /\ d.version = r.version - 1

AloneOK ==
  Alone => job["digest"] = Off /\ Knows(job["service"], db, snaps, release)

LEMMA UpgradedData ==
  ASSUME NEW d \in Database, NEW k \in Version, NEW e, e = Upgraded(d, k)
  PROVE  /\ k = BackFill => ~ e.unfilled
         /\ k = Tidy => ~ e.untidy
  <1>1. ASSUME NEW u \in BOOLEAN, NEW t \in BOOLEAN, k = BackFill => ~ u, k = Tidy => ~ t,
               e = [d EXCEPT !.parts = d.parts \cup {k}, !.unfilled = u, !.untidy = t]
        PROVE  /\ k = BackFill => ~ e.unfilled
               /\ k = Tidy => ~ e.untidy
    BY <1>1 DEF Database
  <1>2. (d.unfilled /\ k # BackFill) \in BOOLEAN /\ (d.untidy /\ k # Tidy) \in BOOLEAN
    OBVIOUS
  <1>3. e = [d EXCEPT !.parts = d.parts \cup {k}, !.unfilled = d.unfilled /\ k # BackFill,
                      !.untidy = d.untidy /\ k # Tidy]
    BY DEF Upgraded
  <1> QED  BY <1>1, <1>2, <1>3, Zenon

\* Initialising succeeds where nothing has come in between.
LEMMA Stamps ==
  ASSUME NEW d \in Whole, NEW v \in Version, d.ledger = {}, d.tables = "all",
         1 .. v \subseteq d.parts, Blank(d)
  PROVE  CanStamp(d, v)
  BY DEF CanStamp, Valid, Blank

LEMMA Adopts ==
  ASSUME NEW d \in Whole, NEW v \in Version, d.version = v, ~ Stuck(d)
  PROVE  CanAdopt(d, v)
  <1>1. /\ d \in Database /\ Honest(d) /\ v \in Nat /\ v > 0
        /\ d.tables = "all" /\ 1 .. v \subseteq d.parts
    BY UpTo DEF Whole, Honest, Version
  <1>2. LedgerFits(d, v)
    <2>1. 1 .. 0 = {} /\ 0 \in 0 .. v /\ v \in 0 .. v
      BY <1>1
    <2> QED  BY <1>1, <2>1 DEF Honest, LedgerFits
  <1>3. \A k \in 1 .. v - 1 : Valid(d, k)
    BY <1>1, MigrationsAssumption DEF Valid, Stuck, Version
  <1>4. Valid(Amended(d, v), v)
    <2>1. CASE Valid(d, v)
      BY <2>1 DEF Amended
    <2>2. CASE ~ Valid(d, v)
      <3>1. PICK e : e = Upgraded(d, v)
        OBVIOUS
      <3>2. /\ e.tables = "all" /\ v \in e.parts
            /\ v = BackFill => ~ e.unfilled
            /\ v = Tidy => ~ e.untidy
        BY <1>1, <3>1, UpgradedDatabase, UpgradedData
      <3> QED  BY <2>2, <3>1, <3>2 DEF Amended, Valid
    <2> QED  BY <2>1, <2>2
  <1> QED  BY <1>2, <1>3, <1>4 DEF CanAdopt

LEMMA Migrates ==
  ASSUME NEW d \in Whole, NEW k \in Version, 2 <= k, d.version = k - 1, d.tracked
  PROVE  CanMigrate(d, k)
  <1>1. /\ d \in Database /\ Honest(d) /\ k \in Nat /\ d.version > 0
        /\ d.tables = "all" /\ d.ledger = 1 .. k - 1
    BY MigrationsAssumption DEF Whole, Honest, Version
  <1>2. k \notin d.ledger
    BY <1>1
  <1>3. PICK e : e = Upgraded(d, k)
    OBVIOUS
  <1>4. /\ e.tables = "all" /\ k \in e.parts
        /\ k = BackFill => ~ e.unfilled
        /\ k = Tidy => ~ e.untidy
    BY <1>1, <1>3, UpgradedDatabase, UpgradedData
  <1> QED  BY <1>2, <1>3, <1>4 DEF CanMigrate, Valid

\* A database that needs nothing is adopted as it is.
LEMMA AdoptsAsIs ==
  ASSUME NEW d \in Whole, NEW v \in Version, d.version = v, ~ Needs(d, v)
  PROVE  Adopted(d, v) = d
  <1>1. /\ d \in Database /\ Honest(d) /\ v > 0 /\ v \in 1 .. v
        /\ d.tracked /\ Valid(d, v)
    BY UpTo DEF Whole, Version, Needs
  <1>2. Amended(d, v) = d
    BY <1>1 DEF Amended
  <1>3. d.tracked = TRUE /\ d.ledger \cup 1 .. v = d.ledger
    BY <1>1 DEF Honest, Database
  <1>4. PICK l : l = d.ledger \cup 1 .. v
    OBVIOUS
  <1>5. Adopted(d, v) = [d EXCEPT !.tracked = TRUE, !.ledger = l]
    BY <1>2, <1>4 DEF Adopted
  <1>6. [d EXCEPT !.tracked = TRUE, !.ledger = l] = d
    BY <1>1, <1>3, <1>4 DEF Database
  <1> QED  BY <1>5, <1>6

-----------------------------------------------------------------------------
(* A start that is alone stays so until a digest comes, and keeps its word *)

Lone == Starting \cup {"build"}

LEMMA NotStarting ==
  ASSUME job'["service"].at \notin Starting
  PROVE  AloneOK'
  BY DEF AloneOK, Alone

LEMMA LoneStays ==
  ASSUME AloneOK, UNCHANGED <<db, snaps, release, job>>
  PROVE  AloneOK'
  BY DEF AloneOK, Alone

\* A step of the service in its start.
LEMMA LoneStep ==
  ASSUME ServerInv, AloneOK, job["service"].at \in Starting,
         NEW r, job' = [job EXCEPT !["service"] = r], r.alone = job["service"].alone,
         Alone => Knows(r, db', snaps', release')
  PROVE  AloneOK'
  <1>1. job'["service"] = r /\ job'["digest"] = job["digest"]
    BY Same DEF JobsOK, Process
  <1>2. SUFFICES ASSUME Alone' PROVE job'["digest"] = Off /\ Knows(r, db', snaps', release')
    BY <1>1 DEF AloneOK
  <1>3. Alone
    BY <1>1, <1>2 DEF Alone
  <1> QED  BY <1>1, <1>3 DEF AloneOK

\* A step of the service that ends its start.
LEMMA LoneEnds ==
  ASSUME ServerInv, NEW r, job' = [job EXCEPT !["service"] = r], r.at \notin Starting
  PROVE  AloneOK'
  <1>1. job'["service"] = r
    BY Same DEF JobsOK, Process
  <1> QED  BY <1>1, NotStarting

LEMMA GoingIs ==
  ASSUME NEW p, NEW at
  PROVE  /\ Going(p, at).at = at /\ Going(p, at).base = job[p].base
         /\ Going(p, at).alone = job[p].alone
  BY DEF Going

LEMMA EndsThere ==
  ASSUME NEW p
  PROVE  Ended(p).at \notin Starting
  BY EndedOK DEF Starting, Fresh

\* Away from a start nothing is known.
LEMMA AwayAlone ==
  ASSUME ServerInv, job["service"].at \notin Starting, UNCHANGED job
  PROVE  AloneOK'
  BY NotStarting

LEMMA CheckAlone ==
  ASSUME ServerInv, AloneOK, Check
  PROVE  AloneOK'
  <1>1. /\ job["service"].at = "check" /\ job["service"].at \in Starting
        /\ UNCHANGED <<db, snaps, release>>
    BY DEF Check, At, Starting, Stays
  <1>2. ASSUME Alone PROVE db = job["service"].base
    BY <1>1, <1>2 DEF AloneOK, Knows
  <1>3. CASE job' = [job EXCEPT !["service"] = Ended("service")]
    BY <1>3, EndsThere, LoneEnds
  <1>4. CASE /\ job' = [job EXCEPT !["service"] = Going("service", "init")]
             /\ ~ Exists(db) \/ ~ Needs(db, release)
    <2>1. PICK r : r = Going("service", "init")
      OBVIOUS
    <2>2. r.at = "init" /\ r.base = job["service"].base /\ r.alone = job["service"].alone
      BY <2>1, GoingIs
    <2>3. ASSUME Alone PROVE Knows(r, db, snaps, release)
      BY <1>2, <1>4, <2>2, <2>3 DEF Knows, BackedUp, Fresh
    <2> QED  BY <1>1, <1>4, <2>1, <2>2, <2>3, LoneStep
  <1>5. CASE job' = [job EXCEPT !["service"] = Going("service", "backup")]
    <2>1. PICK r : r = Going("service", "backup")
      OBVIOUS
    <2>2. r.at = "backup" /\ r.base = job["service"].base /\ r.alone = job["service"].alone
      BY <2>1, GoingIs
    <2>3. ASSUME Alone PROVE Knows(r, db, snaps, release)
      BY <1>2, <2>2, <2>3 DEF Knows, Fresh
    <2> QED  BY <1>1, <1>5, <2>1, <2>2, <2>3, LoneStep
  <1> QED  BY <1>3, <1>4, <1>5 DEF Check, Goes

\* After the backup the database of the beginning is the newest one kept.
LEMMA BackupAlone ==
  ASSUME ServerInv, AloneOK, Backup
  PROVE  AloneOK'
  <1>1. /\ job["service"].at = "backup" /\ job["service"].at \in Starting
        /\ UNCHANGED <<db, release>> /\ snaps' = Prune(Snapshot)
        /\ job' = [job EXCEPT !["service"] = Going("service", "init")]
    BY DEF Backup, At, Starting, Stays, Goes
  <1>2. PICK r : r = Going("service", "init")
    OBVIOUS
  <1>3. r.at = "init" /\ r.base = job["service"].base /\ r.alone = job["service"].alone
    BY <1>2, GoingIs
  <1>4. db \in Range(snaps')
    BY <1>1, Same, SnapshotKeeps
  <1>5. ASSUME Alone PROVE Knows(r, db', snaps', release')
    <2>1. db = r.base
      BY <1>1, <1>3, <1>5 DEF AloneOK, Knows
    <2> QED  BY <1>1, <1>3, <1>4, <2>1 DEF Knows, BackedUp, Fresh
  <1> QED  BY <1>1, <1>2, <1>3, <1>5, LoneStep

LEMMA InitDbAlone ==
  ASSUME ServerInv, AloneOK, InitDb("service")
  PROVE  AloneOK'
  <1>1. /\ job["service"].at = "init" /\ job["service"].at \in Starting
        /\ UNCHANGED <<snaps, release>>
    BY DEF InitDb, At, Starting, Stays
  <1>2. ASSUME Alone
        PROVE  /\ db = job["service"].base
               /\ ~ Exists(db) \/ BackedUp(job["service"], snaps, release)
    BY <1>1, <1>2 DEF AloneOK, Knows
  <1>3. CASE ~ HasData(db)
    <2>1. PICK r : r = Going("service", "create")
      OBVIOUS
    <2>2. r.at = "create" /\ r.base = job["service"].base /\ r.alone = job["service"].alone
      BY <2>1, GoingIs
    <2>3. db'.tables = "none"
      <3>1. CASE Exists(db)
        <4>1. db.tables \in {"absent", "none", "some", "all"}
          BY Same DEF Whole, Database
        <4> QED  BY <1>3, <3>1, <4>1 DEF InitDb, Exists, HasData
      <3>2. CASE ~ Exists(db)
        <4>1. db' = [Absent EXCEPT !.tables = "none"]
          BY <3>2 DEF InitDb
        <4> QED  BY <4>1 DEF Absent
      <3> QED  BY <3>1, <3>2
    <2>4. ASSUME Alone PROVE Knows(r, db', snaps', release')
      BY <1>2, <1>3, <2>2, <2>3, <2>4 DEF Knows, Fresh
    <2> QED  BY <1>1, <1>3, <2>1, <2>2, <2>4, LoneStep DEF InitDb, Goes
  <1>4. CASE HasData(db) /\ db.version \in 1 .. release
    <2>1. PICK r : r = [at |-> "adopt", base |-> job["service"].base,
                        alone |-> job["service"].alone, version |-> db.version]
      OBVIOUS
    <2>2. /\ r.at = "adopt" /\ r.base = job["service"].base
          /\ r.alone = job["service"].alone /\ r.version = db.version
      BY <2>1
    <2>3. Exists(db) /\ UNCHANGED db
      BY <1>4 DEF HasData, Exists, InitDb
    <2>4. ASSUME Alone PROVE Knows(r, db', snaps', release')
      BY <1>1, <1>2, <2>2, <2>3, <2>4 DEF Knows, BackedUp, Fresh
    <2> QED  BY <1>1, <1>4, <2>1, <2>2, <2>4, LoneStep DEF InitDb, Goes
  <1>5. CASE HasData(db) /\ db.version \notin 1 .. release
    BY <1>5, EndsThere, LoneEnds DEF InitDb, Goes
  <1> QED  BY <1>3, <1>4, <1>5

LEMMA FreshAlone ==
  ASSUME ServerInv, AloneOK,
         Create("service") \/ Finish("service") \/ Stamp("service") \/ Record("service")
  PROVE  AloneOK'
  <1>1. job["service"].at \in Fresh /\ job["service"].at \in Starting
    BY DEF Create, Finish, Stamp, Record, At, Fresh, Starting
  <1>2. CASE \E at \in Filling : job' = [job EXCEPT !["service"] = Going("service", at)]
    <2>1. PICK at \in Filling : job' = [job EXCEPT !["service"] = Going("service", at)]
      BY <1>2
    <2>2. PICK r : r = Going("service", at)
      OBVIOUS
    <2>3. r.at = at /\ r.base = job["service"].base /\ r.alone = job["service"].alone
      BY <2>2, GoingIs
    <2>4. ASSUME Alone PROVE Knows(r, db', snaps', release')
      <3>1. ~ HasData(r.base)
        BY <1>1, <2>3, <2>4 DEF AloneOK, Knows
      <3>2. at \in Filling
        BY <2>1
      <3> QED  BY <2>3, <3>1, <3>2 DEF Knows, Filling
    <2> QED  BY <1>1, <2>1, <2>2, <2>3, <2>4, LoneStep
  <1>3. CASE job' = [job EXCEPT !["service"] = Ended("service")]
    BY <1>3, EndsThere, LoneEnds
  <1>4. CASE job' = [job EXCEPT !["service"] = Done("service")]
    <2>1. Done("service").at = "up"
      BY GoingIs DEF Done
    <2>2. Done("service").at \notin Starting
      BY <2>1 DEF Starting, Fresh
    <2> QED  BY <1>4, <2>2, LoneEnds
  <1> QED  BY <1>2, <1>3, <1>4 DEF Create, Finish, Stamp, Record, Goes, Filling

\* After a version has been reached: the server is up, or migrates on.
LEMMA AfterAlone ==
  ASSUME ServerInv, AloneOK, job["service"].at \in Starting,
         NEW v \in Version, job' = [job EXCEPT !["service"] = After("service", v)],
         db'.version = v,
         Alone /\ v # release => job["service"].base \in Range(snaps)'
  PROVE  AloneOK'
  <1>1. CASE v = release
    <2>1. After("service", v).at = "up"
      BY <1>1, GoingIs DEF After, Done
    <2>2. After("service", v).at \notin Starting
      BY <2>1 DEF Starting, Fresh
    <2> QED  BY <2>2, LoneEnds
  <1>2. CASE v # release
    <2>1. PICK r : r = After("service", v)
      OBVIOUS
    <2>2. r = [at |-> "migrate", base |-> job["service"].base,
               alone |-> job["service"].alone, version |-> v + 1]
      BY <1>2, <2>1 DEF After
    <2>3. /\ r.at = "migrate" /\ r.base = job["service"].base
          /\ r.alone = job["service"].alone /\ r.version - 1 = v
      BY <2>2 DEF Version
    <2>4. ASSUME Alone PROVE Knows(r, db', snaps', release')
      BY <1>2, <2>3, <2>4 DEF Knows, Fresh
    <2> QED  BY <2>1, <2>3, <2>4, LoneStep
  <1> QED  BY <1>1, <1>2

\* What a start that adopts, or migrates, relies on.
LEMMA Adopting ==
  ASSUME ServerInv, AloneOK, Adopt("service")
  PROVE  /\ job["service"].at = "adopt" /\ job["service"].at \in Starting
         /\ UNCHANGED <<snaps, release>> /\ db \in Whole /\ release \in Version
         /\ job["service"].version \in Version
         /\ job["service"].version <= db.version /\ db.version <= release
         /\ job["service"].version < db.version => db.tracked
         /\ Alone => /\ db = job["service"].base /\ job["service"].version = db.version
                     /\ BackedUp(job["service"], snaps, release)
  <1>1. /\ job["service"].at = "adopt" /\ job["service"].at \in Starting
        /\ UNCHANGED <<snaps, release>>
    BY DEF Adopt, At, Starting, Stays
  <1>2. job["service"] \in JobType /\ Fits(job["service"], db, release)
    BY Same DEF JobsOK, Process
  <1>3. db \in Whole /\ release \in Version
    BY Same DEF StoresOK
  <1>4. job["service"].version \in Version
    BY <1>1, <1>2 DEF JobType, Based, Fresh
  <1>5. Alone => /\ db = job["service"].base /\ job["service"].version = db.version
                 /\ BackedUp(job["service"], snaps, release)
    BY <1>1 DEF AloneOK, Knows
  <1> QED  BY <1>1, <1>2, <1>3, <1>4, <1>5 DEF Fits

LEMMA Migrating ==
  ASSUME ServerInv, AloneOK, Migrate("service")
  PROVE  /\ job["service"].at = "migrate" /\ job["service"].at \in Starting
         /\ UNCHANGED <<snaps, release>> /\ db \in Whole /\ release \in Version
         /\ job["service"].version \in Version /\ 2 <= job["service"].version
         /\ job["service"].version - 1 <= db.version /\ db.tracked
         /\ Alone => /\ job["service"].base \in Range(snaps)
                     /\ db.version = job["service"].version - 1
  <1>1. /\ job["service"].at = "migrate" /\ job["service"].at \in Starting
        /\ UNCHANGED <<snaps, release>>
    BY DEF Migrate, At, Starting, Stays
  <1>2. job["service"] \in JobType /\ Fits(job["service"], db, release)
    BY Same DEF JobsOK, Process
  <1>3. db \in Whole /\ release \in Version
    BY Same DEF StoresOK
  <1>4. job["service"].version \in Version
    BY <1>1, <1>2 DEF JobType, Based, Fresh
  <1>5. Alone => /\ job["service"].base \in Range(snaps)
                 /\ db.version = job["service"].version - 1
    BY <1>1 DEF AloneOK, Knows
  <1> QED  BY <1>1, <1>2, <1>3, <1>4, <1>5 DEF Fits

LEMMA AdoptAlone ==
  ASSUME ServerInv, AloneOK, Adopt("service")
  PROVE  AloneOK'
  <1>1. PICK v : v = job["service"].version
    OBVIOUS
  <1>2. CASE CanAdopt(db, v)
    <2>1. db' = Adopted(db, v) /\ job' = [job EXCEPT !["service"] = After("service", v)]
      BY <1>1, <1>2 DEF Adopt, Goes
    <2>2. v = db.version /\ db'.version = v
      BY <1>1, <1>2, <2>1, Adopting, AdoptedWhole
    <2>3. ASSUME Alone, v # release PROVE job["service"].base \in Range(snaps)
      <3>1. BackedUp(job["service"], snaps, release) /\ db = job["service"].base
        BY <2>3, Adopting
      <3>2. v < release
        BY <1>1, <2>2, <2>3, Adopting DEF Version
      <3> QED  BY <2>2, <3>1, <3>2 DEF BackedUp, Needs
    <2> QED  BY <1>1, <2>1, <2>2, <2>3, Adopting, AfterAlone
  <1>3. CASE ~ CanAdopt(db, v)
    BY <1>1, <1>3, EndsThere, LoneEnds DEF Adopt, Goes
  <1> QED  BY <1>2, <1>3

LEMMA MigrateAlone ==
  ASSUME ServerInv, AloneOK, Migrate("service")
  PROVE  AloneOK'
  <1>1. PICK k : k = job["service"].version
    OBVIOUS
  <1>2. CASE CanMigrate(db, k)
    <2>1. db' = Migrated(db, k) /\ job' = [job EXCEPT !["service"] = After("service", k)]
      BY <1>1, <1>2 DEF Migrate, Goes
    <2>2. db'.version = k
      BY <1>1, <1>2, <2>1, Migrating, MigratedWhole
    <2> QED  BY <1>1, <2>1, <2>2, Migrating, AfterAlone
  <1>3. CASE ~ CanMigrate(db, k)
    BY <1>1, <1>3, EndsThere, LoneEnds DEF Migrate, Goes
  <1> QED  BY <1>2, <1>3

\* A new start is alone when no digest is there; its base is the database.
LEMMA BuildAlone ==
  ASSUME ServerInv, Build
  PROVE  AloneOK'
  <1>1. PICK r : r = Begun("service", "check")
    OBVIOUS
  <1>2. r.at = "check" /\ r.base = db /\ (r.alone => job["digest"] = Off)
    BY <1>1 DEF Begun, Process
  <1>3. job'["service"] = r /\ job'["digest"] = job["digest"] /\ UNCHANGED db
    BY <1>1, Same DEF Build, Goes, JobsOK, Process
  <1> QED  BY <1>2, <1>3 DEF AloneOK, Alone, Knows, Fresh

LEMMA StartDigestAlone ==
  ASSUME ServerInv, StartDigest
  PROVE  AloneOK'
  <1>1. PICK o : o = job["service"]
    OBVIOUS
  <1>2. job'["service"] = IF "alone" \in DOMAIN o THEN [o EXCEPT !.alone = FALSE] ELSE o
    BY <1>1, Same DEF StartDigest, JobsOK, Process
  <1>3. o \in JobType
    BY <1>1, Same DEF JobsOK, Process
  <1>4. CASE o \in [at : {"off", "loop", "build", "ran"}]
    <2>1. DOMAIN o = {"at"} /\ o.at \in {"off", "loop", "build", "ran"}
      BY <1>4
    <2>2. job'["service"] = o
      BY <1>2, <2>1
    <2> QED  BY <2>1, <2>2, NotStarting DEF Starting, Fresh
  <1>5. CASE o \notin [at : {"off", "loop", "build", "ran"}]
    <2>1. \/ o \in [at : Based, base : Whole, alone : BOOLEAN]
          \/ o \in [at : {"adopt", "migrate"}, base : Whole, alone : BOOLEAN,
                    version : Version]
      BY <1>3, <1>5 DEF JobType
    <2>2. "alone" \in DOMAIN o
      BY <2>1
    <2>3. job'["service"] = [o EXCEPT !.alone = FALSE]
      BY <1>2, <2>2
    <2>4. ~ job'["service"].alone
      BY <2>2, <2>3
    <2> QED  BY <2>4 DEF AloneOK, Alone
  <1> QED  BY <1>4, <1>5

\* While a start is alone the digest does nothing.
LEMMA DigestAlone ==
  ASSUME ServerInv, AloneOK, Initialises("digest") \/ Fails("digest")
  PROVE  AloneOK'
  <1>1. job'["service"] = job["service"]
    BY Same DEF Initialises, InitDb, Create, Finish, Stamp, Record, Adopt, Migrate,
       Fails,
       Goes, JobsOK, Process
  <1>2. job["digest"].at # "off"
    BY DEF Initialises, InitDb, Create, Finish, Stamp, Record, Adopt, Migrate, Fails,
       At,
       Starting, Fresh
  <1>3. job["digest"] # Off
    BY <1>2 DEF Off
  <1> QED  BY <1>1, <1>3 DEF AloneOK, Alone

LEMMA ToolsAlone ==
  ASSUME ServerInv, Tools \/ ToolFails
  PROVE  AloneOK'
  <1>1. CASE Accept
    BY <1>1, AwayAlone DEF Accept, At, Starting, Fresh
  <1>2. CASE (\E i \in DOMAIN snaps : Restore(snaps[i])) \/ (\E v \in 1 .. release : Replace(v))
             \/ Upgrade \/ RollBack
    <2>1. Quiet /\ UNCHANGED job
      BY <1>2 DEF Restore, Replace, Upgrade, RollBack
    <2>2. job["service"].at = "off"
      BY <2>1, QuietOff DEF Process
    <2> QED  BY <2>1, <2>2, AwayAlone DEF Starting, Fresh
  <1>3. CASE KeepOld \/ MoveAway \/ Put \/ ToolFails
    <2>1. tool.at # "idle" /\ UNCHANGED job
      BY <1>3, StoresTyped DEF KeepOld, MoveAway, Put, ToolFails, ToolType, Idle
    <2>2. job["service"].at = "off"
      BY <2>1, ToolWorksAlone DEF Process
    <2> QED  BY <2>1, <2>2, AwayAlone DEF Starting, Fresh
  <1> QED  BY <1>1, <1>2, <1>3 DEF Tools

LEMMA AloneNext ==
  ASSUME ServerInv, AloneOK, [Next]_vars
  PROVE  AloneOK'
  <1>1. CASE StartService \/ Loop \/ Ran \/ Shutdown \/ ShutdownBackup
    <2>1. PICK r : job' = [job EXCEPT !["service"] = r] /\ r.at \notin Starting
      <3>1. Off.at \notin Starting /\ Going("service", "close").at \notin Starting
        BY GoingIs DEF Off, Starting, Fresh
      <3>2. ASSUME NEW at \in {"loop", "build", "ran"} PROVE [at |-> at].at \notin Starting
        BY DEF Starting, Fresh
      <3> QED  BY <1>1, <3>1, <3>2
               DEF StartService, Loop, Ran, Shutdown, ShutdownBackup, Goes
    <2> QED  BY <2>1, LoneEnds
  <1>2. CASE Stop \/ EndServer
    BY <1>2, LoneStays DEF Stop, EndServer
  <1>3. CASE RequestRestart \/ ScheduledBackup \/ \E kind \in Kind : Save(kind)
    <2>1. job["service"].at = "up" /\ UNCHANGED job
      BY <1>3 DEF RequestRestart, ScheduledBackup, Save, At
    <2> QED  BY <2>1, AwayAlone DEF Starting, Fresh
  <1>4. CASE Initialises("service")
    BY <1>4, InitDbAlone, FreshAlone, AdoptAlone, MigrateAlone DEF Initialises
  <1>5. CASE Fails("service")
    BY <1>5, EndsThere, LoneEnds DEF Fails, Goes
  <1>6. CASE Crash
    <2>1. job'["service"].at = "off"
      BY <1>6 DEF Crash, Off, Process
    <2> QED  BY <2>1, NotStarting DEF Starting, Fresh
  <1>7. CASE UNCHANGED vars
    BY <1>7, LoneStays DEF vars
  <1> QED  BY <1>1, <1>2, <1>3, <1>4, <1>5, <1>6, <1>7, CheckAlone, BackupAlone,
       BuildAlone,
              StartDigestAlone, DigestAlone, ToolsAlone DEF Next, ServiceSteps, Process

-----------------------------------------------------------------------------
(* Changes are backed up, refusals have a reason *)

\* Only the service changes where the service is, but for a digest that comes, a
\* failure and a crash, which leave the database alone.
LEMMA ServiceMoves ==
  ASSUME ServerInv, [Next]_vars, job["service"].at \in Starting,
         job'["service"] # job["service"]
  PROVE  \/ Check \/ Backup \/ Initialises("service")
         \/ StartDigest \/ Fails("service") \/ Crash
  <1>1. ~ StartService /\ ~ Loop /\ ~ Build /\ ~ Ran /\ ~ Shutdown /\ ~ ShutdownBackup
    BY DEF StartService, Loop, Build, Ran, Shutdown, ShutdownBackup, At, Starting, Fresh
  <1>2. ~ (Initialises("digest") \/ Fails("digest"))
    BY Same DEF Initialises, InitDb, Create, Finish, Stamp, Record, Adopt, Migrate,
       Fails,
       Goes, JobsOK, Process
  <1>3. ~ Stop /\ ~ EndServer /\ ~ RequestRestart /\ ~ ScheduledBackup
        /\ ~ \E kind \in Kind : Save(kind)
    BY DEF Stop, EndServer, RequestRestart, ScheduledBackup, Save
  <1>4. ~ Tools /\ ~ ToolFails /\ ~ UNCHANGED vars
    BY DEF Tools, Restore, Replace, KeepOld, MoveAway, Put, Upgrade, Accept, RollBack,
       ToolFails, vars
  <1> QED  BY <1>1, <1>2, <1>3, <1>4 DEF Next, ServiceSteps, Process

\* A start that changes an existing database, without another process that does so
\* as well, has the database it began with among the backups: the gate of
\* server/app.py and the reading of the version again by init_db agree on what
\* needs a backup, and the pruning of the backups keeps the newest.
THEOREM ChangesAreBackedUp == Spec => ChangeIsBackedUp
  <1> DEFINE s == job["service"]
             Backed == ~ HasData(s.base) \/ ~ s.alone \/ s.base \in Range(snaps)
  <1>1. Init => ServerInv /\ AloneOK
    BY InitInv DEF Init, AloneOK, Alone, Off, Starting, Fresh, Process
  <1>2. ServerInv /\ AloneOK /\ [Next]_vars => ServerInv' /\ AloneOK'
    BY NextInv, AloneNext
  <1>3. ServerInv /\ AloneOK /\ [Next]_vars
          => [job["service"].at \in Starting /\ job'["service"] # job["service"] /\ db' # db
                => ~ HasData(job["service"].base) \/ ~ job["service"].alone
                   \/ job["service"].base \in Range(snaps)]_vars
    <2> SUFFICES ASSUME ServerInv, AloneOK, [Next]_vars, s.at \in Starting, s' # s, db' # db
                 PROVE  Backed
      OBVIOUS
    <2>1. SUFFICES ASSUME Alone PROVE ~ HasData(s.base) \/ s.base \in Range(snaps)
      BY DEF Alone
    <2>2. Knows(s, db, snaps, release)
      BY <2>1 DEF AloneOK
    <2>3. Initialises("service")
      BY ServiceMoves DEF Check, Backup, StartDigest, Fails, Crash
    <2>4. CASE InitDb("service")
      <3>1. s.at = "init" /\ ~ Exists(db)
        BY <2>4 DEF InitDb, At
      <3> QED  BY <2>2, <3>1 DEF Knows, Exists, HasData
    <2>5. CASE Create("service") \/ Finish("service") \/ Stamp("service") \/ Record("service")
      <3>1. s.at \in Fresh
        BY <2>5 DEF Create, Finish, Stamp, Record, At, Fresh
      <3> QED  BY <2>2, <3>1 DEF Knows
    <2>6. CASE Adopt("service")
      <3>1. PICK v : v = s.version
        OBVIOUS
      <3>2. db' = Adopted(db, v)
        BY <2>6, <3>1 DEF Adopt
      <3>3. /\ v \in Version /\ v = db.version /\ db = s.base /\ db \in Whole
            /\ BackedUp(s, snaps, release) /\ v <= release
        BY <2>1, <2>6, <3>1, Adopting
      <3>4. CASE ~ Needs(db, release)
        <4>1. ~ Needs(db, v)
          BY <3>3, <3>4 DEF Needs, Version
        <4> QED  BY <3>2, <3>3, <4>1, AdoptsAsIs
      <3>5. CASE Needs(db, release)
        BY <3>3, <3>5 DEF BackedUp
      <3> QED  BY <3>4, <3>5
    <2>7. CASE Migrate("service")
      BY <2>1, <2>7, Migrating
    <2> QED  BY <2>3, <2>4, <2>5, <2>6, <2>7 DEF Initialises
  <1> QED  BY <1>1, <1>2, <1>3, PTL DEF Spec, ChangeIsBackedUp

LEMMA RefusedStep ==
  ASSUME ServerInv, AloneOK, [Next]_vars, Refused
  PROVE  \/ db.version > release \/ Interrupted(db) \/ Stuck(db)
         \/ ~ job["service"].alone \/ spent'.fault > spent.fault
  <1> DEFINE s == job["service"]
  <1>1. s.at \in Starting /\ job'["service"].at = "ran" /\ job'["service"] # s
    BY DEF Refused, Starting, Fresh
  <1>2. SUFFICES ASSUME Alone, ~ Fails("service"), ~ Stuck(db)
                 PROVE  db.version > release \/ Interrupted(db)
    <2>1. ASSUME Fails("service") PROVE spent'.fault > spent.fault
      BY <2>1, Same, Spent DEF Fails
    <2> QED  BY <1>1, <2>1 DEF Alone
  <1>3. Check \/ Backup \/ Initialises("service")
    <2>1. ~ Crash
      BY <1>1 DEF Crash, Off, Process
    <2>2. ~ StartDigest
      <3>1. SUFFICES ASSUME StartDigest PROVE FALSE
        OBVIOUS
      <3>2. s \in JobType
        BY Same DEF JobsOK, Process
      <3>3. job'["service"] = IF "alone" \in DOMAIN s THEN [s EXCEPT !.alone = FALSE] ELSE s
        BY <3>1, Same DEF StartDigest, JobsOK, Process
      <3>4. DOMAIN s = DOMAIN job'["service"] /\ job'["service"].at = s.at
        BY <1>1, <3>2, <3>3 DEF JobType, Based, Starting, Fresh
      <3> QED  BY <1>1, <3>4 DEF Starting, Fresh
    <2> QED  BY <1>1, <1>2, <2>1, <2>2, ServiceMoves
  <1>4. /\ Knows(s, db, snaps, release) /\ Fits(s, db, release)
        /\ db \in Whole /\ release \in Version
    BY <1>2, Same DEF AloneOK, JobsOK, StoresOK, Process
  <1>5. \A r : job' = [job EXCEPT !["service"] = r] => r.at = "ran"
    BY <1>1, Same DEF JobsOK, Process
  <1>6. \A at : Going("service", at).at = at
    BY GoingIs
  <1>7. CASE Check
    <2>1. \/ job' = [job EXCEPT !["service"] = Going("service", "init")]
          \/ job' = [job EXCEPT !["service"] = Going("service", "backup")]
          \/ db.version > release
      BY <1>7 DEF Check, Goes
    <2>2. Going("service", "init").at = "init" /\ Going("service", "backup").at = "backup"
      BY <1>6
    <2> QED  BY <1>5, <2>1, <2>2
  <1>8. CASE Backup
    <2>1. job' = [job EXCEPT !["service"] = Going("service", "init")]
      BY <1>8 DEF Backup, Goes
    <2>2. Going("service", "init").at = "init"
      BY <1>6
    <2> QED  BY <1>5, <2>1, <2>2
  <1>9. CASE InitDb("service")
    <2>1. HasData(db) /\ db.version \notin 1 .. release
      <3>1. [at |-> "adopt", base |-> s.base, alone |-> s.alone, version |-> db.version].at
              = "adopt"
        OBVIOUS
      <3> QED  BY <1>5, <1>6, <1>9, <3>1 DEF InitDb, Goes
    <2>2. db.version \in Nat /\ release \in Nat
      BY <1>4 DEF Whole, Database, Version
    <2> QED  BY <2>1, <2>2 DEF Interrupted
  <1>10. CASE Create("service")
    <2>1. db.tables = "none"
      BY <1>4, <1>10 DEF Knows, Create, At
    <2> QED  BY <1>5, <1>6, <1>10, <2>1 DEF Create, Goes
  <1>11. CASE Finish("service") \/ Stamp("service")
    BY <1>5, <1>6, <1>11 DEF Finish, Stamp, Goes
  <1>12. CASE Record("service")
    <2>1. /\ db.version = 0 /\ db.ledger = {} /\ Blank(db)
          /\ db.tables = "all" /\ 1 .. release \subseteq db.parts
      BY <1>4, <1>12 DEF Fits, Filling, Record, At
    <2>2. CanStamp(db, release)
      BY <1>4, <2>1, Stamps
    <2>3. Done("service").at = "up"
      BY <1>6 DEF Done
    <2> QED  BY <1>5, <1>12, <2>2, <2>3 DEF Record, Goes
  <1>13. ASSUME NEW v PROVE After("service", v).at \in {"up", "migrate"}
    <2>1. CASE v = release
      BY <1>6, <2>1 DEF After, Done
    <2>2. CASE v # release
      BY <2>2 DEF After
    <2> QED  BY <2>1, <2>2
  <1>14. CASE Adopt("service")
    <2>1. PICK v : v = s.version
      OBVIOUS
    <2>2. CanAdopt(db, v)
      BY <1>2, <1>14, <2>1, Adopting, Adopts
    <2> QED  BY <1>5, <1>13, <1>14, <2>1, <2>2 DEF Adopt, Goes
  <1>15. CASE Migrate("service")
    <2>1. PICK k : k = s.version
      OBVIOUS
    <2>2. CanMigrate(db, k)
      BY <1>2, <1>15, <2>1, Migrating, Migrates
    <2> QED  BY <1>5, <1>13, <1>15, <2>1, <2>2 DEF Migrate, Goes
  <1> QED  BY <1>3, <1>7, <1>8, <1>9, <1>10, <1>11, <1>12, <1>14, <1>15 DEF Initialises

\* A start that is alone is refused for a newer database, a creation cut short, a
\* failure, or what users left that no later start repairs (init_db and the gate of
\* server/app.py), whatever users save, arrival dates of a roster included.
THEOREM RefusalsAreJustified == Spec => RefusalIsJustified
  <1>1. Init => ServerInv /\ AloneOK
    BY InitInv DEF Init, AloneOK, Alone, Off, Starting, Fresh, Process
  <1>2. ServerInv /\ AloneOK /\ [Next]_vars => ServerInv' /\ AloneOK'
    BY NextInv, AloneNext
  <1>3. ServerInv /\ AloneOK /\ [Next]_vars
          => [Refused => \/ db.version > release \/ Interrupted(db) \/ Stuck(db)
                         \/ ~ job["service"].alone \/ spent'.fault > spent.fault]_vars
    BY RefusedStep
  <1> QED  BY <1>1, <1>2, <1>3, PTL DEF Spec, RefusalIsJustified

-----------------------------------------------------------------------------
(* What users have saved *)

\* A tool puts work in place of other work only when both are among the backups.
ToolsOK ==
  /\ tool.at # "idle" => tool.with.work = {} \/ tool.with \in Range(snaps)
  /\ tool.at = "put" => ~ Exists(db) \/ db \in Range(snaps)
  /\ tool.at = "install" => db = Absent

\* As long as nothing has failed, the work done with a release on trial is in a copy
\* whenever that release does not run.
TrialOK ==
  receipt.held /\ spent.fault = 0 /\ job["service"].at \notin {"up", "close"} =>
    \A w \in db.work : w \in receipt.db.work \/ \E d \in Copies : w \in d.work

WorkOK == ToolsOK /\ TrialOK

LEMMA NoWork ==
  /\ Absent.work = {}
  /\ \A d \in Whole : ~ Exists(d) => d.work = {}
  /\ \A v \in Version : Released(v).work = {}
  <1>1. Absent.work = {} /\ \A v \in Version : Released(v).work = {}
    BY DEF Absent, Released
  <1>2. \A d \in Whole : ~ Exists(d) => d.work = {}
    BY NoVersion DEF Exists, Blank
  <1> QED  BY <1>1, <1>2

LEMMA UpgradedWork ==
  ASSUME NEW d \in Database, NEW k, NEW e, e = Upgraded(d, k)
  PROVE  e.work = d.work
  BY DEF Database, Upgraded

\* Initialising touches no work.
LEMMA InitialisesWork ==
  ASSUME ServerInv, NEW p \in Process, Initialises(p)
  PROVE  db'.work = db.work
  <1>1. db \in Whole /\ db \in Database
    BY Same DEF Whole
  <1>2. CASE UNCHANGED db
    BY <1>2
  <1>3. CASE InitDb(p)
    <2>1. CASE Exists(db)
      BY <1>3, <2>1 DEF InitDb
    <2>2. CASE ~ Exists(db)
      <3>1. db' = [Absent EXCEPT !.tables = "none"]
        BY <1>3, <2>2 DEF InitDb
      <3>2. db'.work = {}
        BY <3>1 DEF Absent
      <3> QED  BY <1>1, <2>2, <3>2, NoWork
    <2> QED  BY <2>1, <2>2
  <1>4. CASE db' = [db EXCEPT !.tables = "some"] \/ db' = [db EXCEPT !.tracked = TRUE]
    BY <1>1, <1>4 DEF Database
  <1>5. CASE db' = WithTables(db, release) \/ db' = Stamped(db, release)
    BY <1>1, <1>5 DEF Database, WithTables, Stamped
  <1>6. CASE \E v : db' = Adopted(db, v)
    <2>1. PICK v : db' = Adopted(db, v)
      BY <1>6
    <2>2. PICK m : m = Amended(db, v)
      OBVIOUS
    <2>3. PICK l : l = m.ledger \cup 1 .. v
      OBVIOUS
    <2>4. m.work = db.work /\ DOMAIN m = DOMAIN db
      BY <1>1, <2>2, UpgradedWork DEF Amended, Upgraded
    <2>5. db' = [m EXCEPT !.tracked = TRUE, !.ledger = l]
      BY <2>1, <2>2, <2>3 DEF Adopted
    <2>6. "work" \in DOMAIN m
      BY <1>1, <2>4 DEF Database
    <2> QED  BY <2>4, <2>5, <2>6
  <1>7. CASE \E k : db' = Migrated(db, k)
    <2>1. PICK k : db' = Migrated(db, k)
      BY <1>7
    <2>2. PICK m : m = Upgraded(db, k)
      OBVIOUS
    <2>3. PICK l : l = m.ledger \cup {k}
      OBVIOUS
    <2>4. m.work = db.work /\ "work" \in DOMAIN m
      BY <1>1, <2>2, UpgradedWork DEF Upgraded, Database
    <2>5. db' = [m EXCEPT !.version = k, !.ledger = l]
      BY <2>1, <2>2, <2>3 DEF Migrated
    <2> QED  BY <2>4, <2>5
  <1> QED  BY <1>2, <1>3, <1>4, <1>5, <1>6, <1>7
           DEF Initialises, Create, Finish, Stamp, Record, Adopt, Migrate

LEMMA SaveKeeps ==
  ASSUME ServerInv, NEW kind \in Kind, Save(kind)
  PROVE  db.work \subseteq db'.work /\ UNCHANGED <<aside, snaps, tool, receipt>>
  <1> DEFINE w == spent.write + 1
             u == db.unfilled \/ kind = "arrival" \/ release < BackFill
             t == db.untidy \/ kind = "scan" \/ release < Tidy
  <1>1. db' = [db EXCEPT !.work = @ \cup {w}, !.unfilled = u, !.untidy = t]
    BY DEF Save
  <1> HIDE DEF w, u, t
  <1>2. db.work \subseteq db'.work
    BY <1>1, Same DEF Whole, Database
  <1> QED  BY <1>2 DEF Save

\* While a tool works, nothing else does.
LEMMA ToolMoves ==
  ASSUME ServerInv, [Next]_vars, tool.at # "idle"
  PROVE  KeepOld \/ MoveAway \/ Put \/ ToolFails \/ Crash \/ UNCHANGED vars
  <1>1. \A p \in Process : job[p].at = "off"
    BY ToolWorksAlone
  <1>2. tool # Idle
    BY DEF Idle
  <1>3. ~ StartService /\ ~ StartDigest /\ ~ Quiet
    BY <1>2 DEF StartService, StartDigest, Quiet
  <1>4. ~ Stop /\ ~ EndServer /\ ~ RequestRestart /\ ~ ScheduledBackup /\ ~ Accept
        /\ ~ \E kind \in Kind : Save(kind)
    BY <1>1 DEF Stop, EndServer, RequestRestart, ScheduledBackup, Accept, Save, At,
       Process
  <1>5. \A p \in Process : ~ Initialises(p) /\ ~ Fails(p)
    BY <1>1 DEF Initialises, InitDb, Create, Finish, Stamp, Record, Adopt, Migrate,
       Fails,
       At, Starting, Fresh
  <1>6. ~ ServiceSteps
    BY <1>1, <1>5 DEF ServiceSteps, Loop, Build, Check, Backup, Shutdown,
       ShutdownBackup,
       Ran, At, Process
  <1>7. ~ RollBack /\ ~ Upgrade /\ ~ (\E i \in DOMAIN snaps : Restore(snaps[i]))
        /\ ~ \E v \in 1 .. release : Replace(v)
    BY <1>3 DEF RollBack, Upgrade, Restore, Replace
  <1> QED  BY <1>3, <1>4, <1>5, <1>6, <1>7 DEF Next, Tools, Process

\* Without a tool, one may begin; else it stays so.
LEMMA ToolBegins ==
  ASSUME ServerInv, [Next]_vars, tool.at = "idle"
  PROVE  \/ tool'.at = "idle"
         \/ \E i \in DOMAIN snaps : Restore(snaps[i])
         \/ \E v \in 1 .. release : Replace(v)
  <1>1. CASE StartService \/ Stop \/ EndServer \/ RequestRestart \/ ScheduledBackup
             \/ StartDigest \/ (\E kind \in Kind : Save(kind)) \/ \E p \in Process : Fails(p)
    BY <1>1 DEF StartService, Stop, EndServer, RequestRestart, ScheduledBackup,
       StartDigest,
       Save, Fails, Stays
  <1>2. CASE ServiceSteps /\ ~ Initialises("service")
    BY <1>2 DEF ServiceSteps, Loop, Build, Check, Backup, Shutdown, ShutdownBackup,
       Ran, Stays
  <1>3. CASE Initialises("service") \/ Initialises("digest")
    BY <1>3 DEF Initialises, InitDb, Create, Finish, Stamp, Record, Adopt, Migrate,
       Stays
  <1>4. CASE Accept \/ RollBack \/ Upgrade \/ KeepOld \/ MoveAway \/ Put
    BY <1>4 DEF Accept, RollBack, Upgrade, KeepOld, MoveAway, Put
  <1>5. CASE ToolFails \/ Crash \/ UNCHANGED vars
    BY <1>5 DEF ToolFails, Crash, Idle, vars
  <1> QED  BY <1>1, <1>2, <1>3, <1>4, <1>5 DEF Next, Tools

LEMMA ToolsNext ==
  ASSUME ServerInv, ToolsOK, [Next]_vars
  PROVE  ToolsOK'
  <1>1. CASE tool'.at = "idle"
    BY <1>1 DEF ToolsOK
  <1>2. ASSUME NEW s \in Whole, NEW then, s.work = {} \/ s \in Range(snaps),
               tool' = [at |-> IF Exists(db) THEN "keep" ELSE "put", with |-> s, then |-> then],
               UNCHANGED <<db, snaps>>
        PROVE  ToolsOK'
    <2>1. PICK at \in {"keep", "put"} : /\ tool' = [at |-> at, with |-> s, then |-> then]
                                        /\ at = "put" => ~ Exists(db)
      BY <1>2
    <2> QED  BY <1>2, <2>1 DEF ToolsOK
  <1>3. CASE \E i \in DOMAIN snaps : Restore(snaps[i])
    <2>1. PICK i \in DOMAIN snaps : Restore(snaps[i])
      BY <1>3
    <2>2. snaps[i] \in Whole /\ snaps[i] \in Range(snaps)
      BY Same DEF Range
    <2> QED  BY <1>2, <2>1, <2>2 DEF Restore
  <1>4. CASE \E v \in 1 .. release : Replace(v)
    <2>1. PICK v \in 1 .. release : Replace(v)
      BY <1>4
    <2>2. v \in Version
      BY StoresTyped, MigrationsAssumption DEF Version
    <2>3. Released(v) \in Whole /\ Released(v).work = {}
      BY <2>2, ReleasedWhole, NoWork
    <2> QED  BY <1>2, <2>1, <2>3 DEF Replace
  <1>5. CASE KeepOld
    <2>1. /\ tool.at = "keep" /\ tool' = [tool EXCEPT !.at = tool.then] /\ snaps' = Snapshot
          /\ UNCHANGED db
      BY <1>5 DEF KeepOld
    <2>2. tool \in [at : {"keep", "put", "away"}, with : Whole, then : {"put", "away"}]
      BY <2>1, StoresTyped DEF ToolType
    <2>3. tool'.at \in {"put", "away"} /\ tool'.with = tool.with
      BY <2>1, <2>2
    <2>4. db \in Range(snaps') /\ Range(snaps) \subseteq Range(snaps')
      BY <2>1, Same, SnapshotKeeps
    <2> QED  BY <2>1, <2>3, <2>4 DEF ToolsOK
  <1>6. CASE MoveAway
    BY <1>6 DEF MoveAway, ToolsOK
  <1>7. CASE Put \/ ToolFails \/ Crash
    BY <1>1, <1>7 DEF Put, ToolFails, Crash, Idle
  <1>8. CASE UNCHANGED vars
    BY <1>8 DEF vars, ToolsOK
  <1> QED  BY <1>1, <1>3, <1>4, <1>5, <1>6, <1>7, <1>8, ToolMoves, ToolBegins

\* Nothing is lost where no work comes and no copy goes.
LEMMA TrialStays ==
  ASSUME TrialOK, receipt' = receipt, spent'.fault = spent.fault,
         db'.work \subseteq db.work, Copies \subseteq Copies',
         job["service"].at \in {"up", "close"} => job'["service"].at \in {"up", "close"}
  PROVE  TrialOK'
  BY DEF TrialOK

\* Nothing is lost where the database is among the copies.
LEMMA TrialCopied ==
  ASSUME UNCHANGED db, db \in Range(snaps')
  PROVE  TrialOK'
  BY DEF TrialOK, Copies

LEMMA CopiesGrow ==
  ASSUME Range(snaps) \subseteq Range(snaps'), aside \subseteq aside'
  PROVE  Copies \subseteq Copies'
  BY DEF Copies

LEMMA FaultStays ==
  ASSUME StoresOK, \E what \in {"start", "write", "tool"} : \E max : Spend(what, max)
  PROVE  spent'.fault = spent.fault
  BY Spent

\* A tool or the installer: while the service is off.
LEMMA ToolsTrial ==
  ASSUME ServerInv, WorkOK, Tools
  PROVE  TrialOK'
  <1>1. CASE Accept \/ RollBack
    BY <1>1 DEF Accept, RollBack, NoReceipt, TrialOK
  <1>2. CASE Upgrade
    BY <1>2 DEF Upgrade, TrialOK
  <1>3. CASE (\E i \in DOMAIN snaps : Restore(snaps[i])) \/ (\E v \in 1 .. release : Replace(v))
    BY <1>3, Same, FaultStays, TrialStays DEF Restore, Replace, WorkOK, Copies
  <1>4. CASE KeepOld
    BY <1>4, Same, SnapshotKeeps, CopiesGrow, TrialStays DEF KeepOld, WorkOK
  <1>5. CASE MoveAway
    BY <1>5, NoWork DEF MoveAway, TrialOK
  <1>6. CASE Put
    <2>1. db' = tool.with /\ UNCHANGED snaps /\ tool.at # "idle"
      BY <1>6 DEF Put
    <2>2. db'.work = {} \/ db' \in Range(snaps')
      BY <2>1 DEF WorkOK, ToolsOK
    <2> QED  BY <2>2 DEF TrialOK, Copies
  <1> QED  BY <1>1, <1>2, <1>3, <1>4, <1>5, <1>6 DEF Tools

LEMMA ServiceTrial ==
  ASSUME ServerInv, WorkOK, ServiceSteps
  PROVE  TrialOK'
  <1> DEFINE s == job["service"]
  <1>1. ASSUME NEW r, job' = [job EXCEPT !["service"] = r] PROVE job'["service"] = r
    BY <1>1, Same DEF JobsOK, Process
  <1>2. CASE Backup \/ ShutdownBackup
    <2>1. UNCHANGED db /\ snaps' = Prune(Snapshot)
      BY <1>2 DEF Backup, ShutdownBackup
    <2> QED  BY <2>1, Same, SnapshotKeeps, TrialCopied
  <1>3. CASE Loop \/ Build \/ Check \/ Ran
    BY <1>3, TrialStays DEF Loop, Build, Check, Ran, At, Stays, WorkOK, Copies
  <1>4. CASE Shutdown
    <2>1. job'["service"].at = "close"
      BY <1>1, <1>4, GoingIs DEF Shutdown, Goes
    <2> QED  BY <2>1 DEF TrialOK
  <1>5. CASE Initialises("service")
    <2>1. s.at \notin {"up", "close"} /\ UNCHANGED <<aside, snaps, receipt, spent>>
      BY <1>5 DEF Initialises, InitDb, Create, Finish, Stamp, Record, Adopt, Migrate,
         At, Stays
    <2>2. db'.work = db.work
      BY <1>5, InitialisesWork DEF Process
    <2> QED  BY <2>1, <2>2, TrialStays DEF WorkOK, Copies
  <1> QED  BY <1>2, <1>3, <1>4, <1>5 DEF ServiceSteps

LEMMA TrialNext ==
  ASSUME ServerInv, WorkOK, [Next]_vars
  PROVE  TrialOK'
  <1>1. CASE StartService \/ Stop \/ EndServer
    BY <1>1, Same, FaultStays, TrialStays
       DEF StartService, Stop, EndServer, At, WorkOK, Copies
  <1>2. CASE RequestRestart \/ ScheduledBackup \/ \E kind \in Kind : Save(kind)
    <2>1. job["service"].at = "up" /\ UNCHANGED job
      BY <1>2 DEF RequestRestart, ScheduledBackup, Save, At
    <2> QED  BY <2>1 DEF TrialOK
  <1>3. CASE StartDigest
    <2>1. PICK o : o = job["service"]
      OBVIOUS
    <2>2. job'["service"] = IF "alone" \in DOMAIN o THEN [o EXCEPT !.alone = FALSE] ELSE o
      BY <1>3, <2>1, Same DEF StartDigest, JobsOK, Process
    <2>3. o \in JobType
      BY <2>1, Same DEF JobsOK, Process
    <2>4. job'["service"].at = job["service"].at
      BY <2>1, <2>2, <2>3 DEF JobType, Based, Fresh
    <2> QED  BY <1>3, <2>4, Same, FaultStays, TrialStays DEF StartDigest, WorkOK, Copies
  <1>4. CASE Initialises("digest")
    <2>1. job'["service"] = job["service"] /\ UNCHANGED <<aside, snaps, receipt, spent>>
      BY <1>4, Same DEF Initialises, InitDb, Create, Finish, Stamp, Record, Adopt,
         Migrate,
         Goes, Stays, JobsOK, Process
    <2>2. db'.work = db.work
      BY <1>4, InitialisesWork DEF Process
    <2> QED  BY <2>1, <2>2, TrialStays DEF WorkOK, Copies
  <1>5. CASE (\E p \in Process : Fails(p)) \/ ToolFails \/ Crash
    <2>1. spent'.fault = spent.fault + 1 /\ spent.fault \in Nat
      BY <1>5, Same, Spent DEF Fails, ToolFails, Crash
    <2>2. spent'.fault # 0
      BY <2>1
    <2> QED  BY <2>2 DEF TrialOK
  <1>6. CASE UNCHANGED vars
    BY <1>6 DEF vars, WorkOK, TrialOK, Copies
  <1> QED  BY <1>1, <1>2, <1>3, <1>4, <1>5, <1>6, ServiceTrial, ToolsTrial DEF Next

\* A step that takes work from the database leaves it in a copy: all but the
\* roll-back of the installer, and that one too as long as nothing failed.
LEMMA DroppingStep ==
  ASSUME ServerInv, WorkOK, [Next]_vars, NEW w \in db.work \ db'.work
  PROVE  \/ \E d \in Copies' : w \in d.work
         \/ receipt.held /\ ~ receipt'.held /\ spent.fault > 0
  <1>1. db' # db /\ db \in Whole /\ db.work # {} /\ Exists(db)
    BY Same, NoWork
  <1>2. CASE tool.at # "idle"
    <2>1. CASE MoveAway
      BY <2>1 DEF MoveAway, Copies
    <2>2. CASE Put
      <3>1. db \in Range(snaps) /\ UNCHANGED snaps
        BY <1>1, <2>2, NoWork DEF Put, WorkOK, ToolsOK
      <3> QED  BY <3>1 DEF Copies
    <2>3. CASE ToolFails
      BY <1>1, <2>3, NoWork DEF ToolFails, WorkOK, ToolsOK
    <2> QED  BY <1>1, <1>2, <2>1, <2>2, <2>3, ToolMoves DEF KeepOld, Crash, vars
  <1>3. CASE tool.at = "idle"
    <2>1. ~ Initialises("service") /\ ~ Initialises("digest")
      BY InitialisesWork DEF Process
    <2>2. ~ \E kind \in Kind : Save(kind)
      BY SaveKeeps
    <2>3. ~ KeepOld /\ ~ MoveAway /\ ~ Put
      BY <1>3 DEF KeepOld, MoveAway, Put
    <2>4. ~ ToolFails
      BY <1>1, <1>3 DEF ToolFails
    <2>5. ~ ServiceSteps
      BY <1>1, <2>1 DEF ServiceSteps, Loop, Build, Check, Backup, Shutdown,
         ShutdownBackup,
         Ran
    <2>6. RollBack
      BY <1>1, <2>1, <2>2, <2>3, <2>4, <2>5
         DEF Next, Tools, StartService, Stop, EndServer, RequestRestart, StartDigest,
             ScheduledBackup, Restore, Replace, Upgrade, Accept, Fails, Crash, vars
    <2>7. /\ receipt.held /\ ~ receipt'.held /\ db' = receipt.db
          /\ UNCHANGED <<snaps, aside>> /\ job["service"].at = "off"
      BY <2>6, QuietOff DEF RollBack, NoReceipt, Process
    <2>8. CASE spent.fault = 0
      BY <2>7, <2>8 DEF WorkOK, TrialOK, Copies
    <2>9. CASE spent.fault # 0
      <3>1. spent.fault \in Nat
        BY Same
      <3> QED  BY <2>7, <2>9, <3>1
    <2> QED  BY <2>8, <2>9
  <1> QED  BY <1>2, <1>3

\* No step takes work away that is not in a copy afterwards: tools keep a backup of
\* what they replace, and the installer goes back over a release on trial only after
\* its shutdown backup, unless that failed.
THEOREM WorkIsKept == Spec => NothingIsDropped
  <1>1. Init => ServerInv /\ WorkOK
    BY InitInv DEF Init, WorkOK, ToolsOK, TrialOK, Idle, NoReceipt
  <1>2. ServerInv /\ WorkOK /\ [Next]_vars => ServerInv' /\ WorkOK'
    BY NextInv, ToolsNext, TrialNext DEF WorkOK
  <1>3. ServerInv /\ WorkOK /\ [Next]_vars
          => [\A w \in db.work \ db'.work :
                 \/ \E d \in Copies' : w \in d.work
                 \/ receipt.held /\ ~ receipt'.held /\ spent.fault > 0]_vars
    BY DroppingStep
  <1> QED  BY <1>1, <1>2, <1>3, PTL DEF Spec, NothingIsDropped

=============================================================================
