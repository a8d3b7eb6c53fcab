----------------------------- MODULE Migrations ----------------------------
(***************************************************************************)
(* The database file as its migrations see it (database/migrations/): the  *)
(* stored schema version, the ledger of applied migrations, and whether    *)
(* the contract of each migration holds.  The module has no state; Server  *)
(* runs its operators against the database and its copies.                 *)
(*                                                                         *)
(* The contracts are about the schema, and two of them also about data:    *)
(* every arrival date needs a last entry date (migration 5 in the code),   *)
(* and names are normalised (migration 6).                                 *)
(***************************************************************************)
EXTENDS Integers

CONSTANTS
  MaxVersion,    \* the newest schema version
  BackFill,      \* the migration that fills in last entry dates
  Tidy           \* the migration that normalises names

Version == 1 .. MaxVersion

ASSUME MigrationsAssumption ==
  /\ MaxVersion \in Nat
  /\ {BackFill, Tidy} \subseteq Version \ {1}

(* "none" is a file without tables, "some" an unfinished first creation.   *)
(* parts: the migrations whose columns and indexes exist; unfilled: an     *)
(* arrival date lacks its last entry date; untidy: a name is not           *)
(* normalised; work: what users have saved.                                *)
Database == [tables : {"absent", "none", "some", "all"}, version : {0} \cup Version,
             tracked : BOOLEAN, ledger : SUBSET Version, parts : SUBSET Version,
             unfilled : BOOLEAN, untidy : BOOLEAN, work : SUBSET Nat]

Absent == [tables |-> "absent", version |-> 0, tracked |-> FALSE, ledger |-> {}, parts |-> {},
           unfilled |-> FALSE, untidy |-> FALSE, work |-> {}]

Exists(d)  == d.tables # "absent"
HasData(d) == d.tables \in {"some", "all"}

(* A database of release v from before there was a ledger, whose users     *)
(* entered what only later migrations put in order.                        *)
Released(v) == [Absent EXCEPT !.tables = "all", !.version = v, !.parts = 1 .. v,
                              !.unfilled = v < BackFill, !.untidy = v < Tidy]

(***************************************************************************)
(* Migration k: validate and upgrade.                                      *)
(***************************************************************************)
Valid(d, k) ==
  /\ d.tables = "all"
  /\ k = 1 \/ k \in d.parts
  /\ k = BackFill => ~ d.unfilled
  /\ k = Tidy => ~ d.untidy

Upgraded(d, k) ==
  [d EXCEPT !.parts = @ \cup {k},
            !.unfilled = @ /\ k # BackFill,
            !.untidy = @ /\ k # Tidy]

(* migration_required, below its refusal of a newer database. *)
NeedsOlder(d, target) == d.version < target
Needs(d, target) ==
  \/ d.version < target
  \/ ~ d.tracked
  \/ \E k \in 1 .. d.version : ~ Valid(d, k)

(* run_migrations: the ledger must be 1 .. n for some n up to the version  *)
(* read before, all contracts up to it must hold, and only the last of     *)
(* them is repaired.                                                       *)
LedgerFits(d, current) == \E n \in 0 .. current : d.ledger = 1 .. n
Amended(d, current)    == IF Valid(d, current) THEN d ELSE Upgraded(d, current)
CanAdoptAsIs(d, current) == LedgerFits(d, current) /\ \A k \in 1 .. current : Valid(d, k)
CanAdopt(d, current) ==
  /\ LedgerFits(d, current)
  /\ \A k \in 1 .. current - 1 : Valid(d, k)
  /\ Valid(Amended(d, current), current)
Adopted(d, current) ==
  [Amended(d, current) EXCEPT !.tracked = TRUE, !.ledger = @ \cup 1 .. current]

(* One migration, its entry in the ledger and the version: one transaction, *)
(* refused if the ledger has the entry.                                     *)
CanMigrate(d, k) == k \notin d.ledger /\ Valid(Upgraded(d, k), k)
MigratedAhead(d, k)      == [Upgraded(d, k) EXCEPT !.version = k + 1, !.ledger = @ \cup {k}]
MigratedUnrecorded(d, k) == [Upgraded(d, k) EXCEPT !.version = k]
Migrated(d, k)           == [Upgraded(d, k) EXCEPT !.version = k, !.ledger = @ \cup {k}]

(* initialize_fresh_database: the tables, one after the other; the tables  *)
(* of the tracking; and the entries with the version in one transaction.   *)
WithTables(d, target) == [d EXCEPT !.tables = "all", !.parts = 1 .. target]
CanStamp(d, target)   == d.ledger = {} /\ \A k \in 1 .. target : Valid(d, k)
Stamped(d, target)    == [d EXCEPT !.ledger = 1 .. target, !.version = target]
=============================================================================
