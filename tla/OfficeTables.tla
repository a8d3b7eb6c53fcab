--------------------------- MODULE OfficeTables ----------------------------
(***************************************************************************)
(* The tables behind the office work and their transactions: tasks and     *)
(* temporary groups (services/secretary_work_service.py) and appointments  *)
(* with the missionary's date (services/appointment_service.py).           *)
(*                                                                         *)
(* Every action here is the writing half of one database session: SQLite   *)
(* has one writer, and what a session has read before its first write is   *)
(* an argument, perhaps stale by now.  Foreign keys are enforced           *)
(* (database/db.py:42): a write that would break one changes nothing.      *)
(***************************************************************************)
EXTENDS ProcessAutomation

VARIABLES
  tasks,       \* secretary_tasks in the order of their IDs
  groups,      \* the temporary groups by ID
  appts,       \* appointments in the order of their IDs
  file,        \* the missionaries: appointment date and documents the rules read
  papers,      \* the appointment papers: are the uploaded ones still ACTIVE?
  today

tables == <<tasks, groups, appts, file, papers, today>>

NoGroup  == 0
NoTask   == 0
NoKey    == Key("none", 0, 0)
Status   == {"OPEN", "DONE", "ARCHIVED"}     \* OPEN stands for OPEN, READY and WAITING
Task     == [key : [rule : {"none", "gvm", "ficha", "prorroga", "group"}, of : Nat, at : Int],
             status : Status, who : SUBSET Missionary, group : Nat]

(***************************************************************************)
(* Tasks and groups.                                                       *)
(***************************************************************************)
TasksWith(key) == {t \in DOMAIN tasks : tasks[t].key = key}
RowOfOpen(key) == LET open == {t \in TasksWith(key) : tasks[t].status = "OPEN"}
                  IN  IF open = {} THEN NoTask ELSE Min(open)
RowOf(key)     == IF TasksWith(key) = {} THEN NoTask ELSE Min(TasksWith(key))
GroupsFor(key) == {g \in DOMAIN groups : groups[g].key = key}
GroupFor(key)  == IF GroupsFor(key) = {} THEN NoGroup ELSE Min(GroupsFor(key))
NewGroup       == IF DOMAIN groups = {} THEN 1 ELSE Max(DOMAIN groups) + 1
Exists(g)      == g = NoGroup \/ g \in DOMAIN groups

(* Inserting a task: refused by a group that is gone.  A second row with    *)
(* its key is not refused: the column is unique in no database that the    *)
(* models and the migrations make.                                         *)
CanInsert(g) == Exists(g)
InsertTask(key, who, g) ==
  tasks' = Append(tasks, [key |-> key, status |-> "OPEN", who |-> who, group |-> g])

(* The update of an automatic task: the group is written only if it is not *)
(* the one that was loaded, the links always.                              *)
CanUpdate(g, loaded) == g # loaded => Exists(g)
UpdateAndReopen(t, who, g, loaded) ==
  tasks' = [tasks EXCEPT ![t] = [@ EXCEPT !.who = who, !.status = "OPEN",
                                          !.group = IF g = loaded THEN @ ELSE g]]
UpdateTaskAndKeepGroup(t, who, g, loaded) == tasks' = [tasks EXCEPT ![t].who = who]
UpdateTask(t, who, g, loaded) ==
  tasks' = [tasks EXCEPT ![t].who = who, ![t].group = IF g = loaded THEN @ ELSE g]

SetStatus(t, status) == tasks' = [tasks EXCEPT ![t].status = status]

(* The group of an automatic task, found (or not) by an earlier read. *)
CanSaveGroup(found) == Exists(found)
SavedGroup(found)   == IF found = NoGroup THEN NewGroup ELSE found
SaveGroup(found, key, who) ==
  groups' = IF found = NoGroup
            THEN [g \in DOMAIN groups \cup {NewGroup} |->
                    IF g = NewGroup THEN [key |-> key, who |-> who] ELSE groups[g]]
            ELSE [groups EXCEPT ![found].who = who]

(* Closing obsolete tasks, a set of [task, group] as they were listed, and *)
(* removing groups; refused while a task still names one of the groups.    *)
Gone(listed) == {l.group : l \in listed} \cap DOMAIN groups
Closed(listed) ==
  [t \in DOMAIN tasks |->
    IF \E l \in listed : l.task = t
    THEN [tasks[t] EXCEPT !.status = "ARCHIVED",
                          !.group = IF \E l \in listed : l.task = t /\ l.group \in DOMAIN groups
                                    THEN NoGroup ELSE @]
    ELSE tasks[t]]
CanArchive(listed) == \A t \in DOMAIN tasks : Closed(listed)[t].group \notin Gone(listed)
Archive(listed) ==
  /\ tasks' = Closed(listed)
  /\ groups' = [g \in DOMAIN groups \ Gone(listed) |-> groups[g]]

(* The single tasks that a group task replaces, in one statement. *)
ArchiveReplaced(keys) ==
  tasks' = [t \in DOMAIN tasks |->
             IF tasks[t].key \in keys /\ tasks[t].status = "OPEN"
             THEN [tasks[t] EXCEPT !.status = "ARCHIVED"] ELSE tasks[t]]

(* The group of a closed task goes unless another open task shares it. *)
Removable(t) ==
  /\ tasks[t].group \in DOMAIN groups
  /\ \A u \in DOMAIN tasks \ {t} : tasks[u].group = tasks[t].group => tasks[u].status # "OPEN"
CanRemoveGroup(t, g) == \A u \in DOMAIN tasks \ {t} : tasks[u].group # g
RemoveGroupOnly(t, g) == UNCHANGED tasks /\ groups' = [h \in DOMAIN groups \ {g} |-> groups[h]]
RemoveGroup(t, g) ==
  /\ tasks' = [tasks EXCEPT ![t].group = NoGroup]
  /\ groups' = [h \in DOMAIN groups \ {g} |-> groups[h]]

(***************************************************************************)
(* Appointments.                                                           *)
(***************************************************************************)
Appointment == [who : Missionary, date : Nat, status : {"SCHEDULED", "COMPLETED", "MISSED"},
                replaced : BOOLEAN]

Scheduled(m) == {a \in DOMAIN appts : appts[a].who = m /\ appts[a].status = "SCHEDULED"}

(* sync_from_missionary_dates with the date d it has read. *)
SyncAppending(m, d) ==
  appts' = IF \E a \in Scheduled(m) : appts[a].date = d THEN appts
           ELSE Append(appts, [who |-> m, date |-> d, status |-> "SCHEDULED", replaced |-> FALSE])
SyncOnce(m, d) ==
  appts' = IF Scheduled(m) # {} THEN appts
           ELSE Append(appts, [who |-> m, date |-> d, status |-> "SCHEDULED", replaced |-> FALSE])
Sync(m, d) ==
  LET kept == [a \in DOMAIN appts |->
                IF a \in Scheduled(m) /\ appts[a].date # d
                THEN [appts[a] EXCEPT !.status = "MISSED", !.replaced = TRUE] ELSE appts[a]]
  IN  appts' = IF \E a \in Scheduled(m) : appts[a].date = d THEN kept
               ELSE Append(kept, [who |-> m, date |-> d, status |-> "SCHEDULED", replaced |-> FALSE])

(* _mark_appointment, which has seen the appointment SCHEDULED and the     *)
(* missionary's date; a missed one takes the papers with it.               *)
Mark(a, status, seen) ==
  LET m == appts[a].who
  IN  /\ appts' = [appts EXCEPT ![a].status = status]
      /\ file' = IF seen = appts[a].date THEN [file EXCEPT ![m].date = NoDate] ELSE file
      /\ papers' = IF status = "MISSED" THEN [papers EXCEPT ![m] = FALSE] ELSE papers

SetDate(m, d, seen) == file' = IF d = seen THEN file ELSE [file EXCEPT ![m].date = d]
=============================================================================
