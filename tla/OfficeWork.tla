----------------------------- MODULE OfficeWork ----------------------------
(***************************************************************************)
(* The office's requests on the tables of OfficeTables, several at once:   *)
(* process automation, which every client starts when it refreshes its     *)
(* dashboard or task board; completing, archiving, reopening and deleting  *)
(* tasks; setting an appointment date; completing and missing              *)
(* appointments.  A request is a sequence of database sessions, and each   *)
(* session reads first and writes later; between any two of its steps      *)
(* other requests go on, documents arrive, a day passes, and the server    *)
(* may stop.                                                               *)
(***************************************************************************)
EXTENDS OfficeTables

CONSTANTS
  Request,       \* requests the server works on at a time
  Date,          \* dates given to appointments
  FirstDay0,     \* the day on which everything starts
  MaxRun,        \* bound: runs of the automation
  MaxEdit,       \* bound: requests about tasks and appointments
  MaxWorld,      \* bound: documents that come and go, days that pass
  MaxFault       \* bound: stops of the server, failing transactions

ASSUME OfficeAssumption ==
  /\ IsFiniteSet(Request) /\ Date \subseteq Nat \ {NoDate}
  /\ FirstDay0 \in Nat
  /\ {MaxRun, MaxEdit, MaxWorld, MaxFault} \subseteq Nat

VARIABLES
  job,           \* what each request is doing, and what it has read
  alone,         \* history: has nothing else happened since the request began?
  spent          \* how much of each bound is used up

vars == <<tables, job, alone, spent>>

Idle == [at |-> "idle"]

Init ==
  /\ tasks = <<>> /\ appts = <<>> /\ groups = [g \in {} |-> NoKey]
  /\ file = [m \in Missionary |-> [date |-> NoDate, ficha |-> FALSE, approved |-> FALSE]]
  /\ papers = [m \in Missionary |-> TRUE]
  /\ today = FirstDay0
  /\ job = [r \in Request |-> Idle]
  /\ alone = [r \in Request |-> TRUE]
  /\ spent = [run |-> 0, edit |-> 0, world |-> 0, fault |-> 0]

(***************************************************************************)
(* Bookkeeping.                                                            *)
(***************************************************************************)
Spend(what, max) == spent[what] < max /\ spent' = [spent EXCEPT ![what] = @ + 1]

Moves(r, next) ==
  /\ job' = [job EXCEPT ![r] = next]
  /\ alone' = [s \in Request |-> s = r /\ alone[s]]

Begins(r, next) ==
  /\ job' = [job EXCEPT ![r] = next]
  /\ alone' = [s \in Request |-> s = r /\ \A u \in Request \ {r} : job[u] = Idle]

Goes(r, next)  == Moves(r, next) /\ UNCHANGED spent
OnlyTasks      == UNCHANGED <<groups, appts, file, papers, today>>
OnlyGroups     == UNCHANGED <<tasks, appts, file, papers, today>>
TasksAndGroups == UNCHANGED <<appts, file, papers, today>>

(***************************************************************************)
(* ProcessAutomationService.run.                                           *)
(***************************************************************************)
Snapshot == [file |-> file, today |-> today]

Run(r) ==
  /\ job[r] = Idle /\ Spend("run", MaxRun)
  /\ \E todo \in {Payloads(Snapshot)} :
       Begins(r, [at |-> "replace", replace |-> Replaced(Snapshot), todo |-> todo, keys |-> KeysOf(todo)])
  /\ UNCHANGED tables

(* The step a run is at when todo is left of its payloads. *)
Remaining(j, todo) ==
  [at |-> IF todo = {} THEN "list" ELSE "look", todo |-> todo, keys |-> j.keys]

ReplaceSingles(r) ==
  LET j == job[r]
  IN  /\ j.at = "replace"
      /\ \/ j.replace = {} /\ Goes(r, Remaining(j, j.todo)) /\ UNCHANGED tables
         \/ \E keys \in j.replace : /\ ArchiveReplaced(keys) /\ OnlyTasks
                                     /\ Goes(r, [j EXCEPT !.replace = @ \ {keys}])

(* create_or_update_automatic_task: the row of the key and its status. *)
At(j, at, p, task) ==
  [at |-> at, todo |-> j.todo \ {p}, keys |-> j.keys, payload |-> p, task |-> task,
   group |-> NoGroup, who |-> p.who, loaded |-> NoGroup]

HasGroup(p) == Cardinality(p.who) > 1

Look(r) ==
  LET j == job[r]
  IN  /\ j.at = "look"
      /\ \E p \in First(j.todo) :
           LET t == RowOf(p.key)
           IN  Goes(r, IF t # NoTask /\ tasks[t].status # "OPEN" THEN Remaining(j, j.todo \ {p})
                       ELSE At(j, IF HasGroup(p) THEN "findGroup" ELSE IF t = NoTask THEN "scope" ELSE "load",
                               p, t))
      /\ UNCHANGED tables

FindGroup(r) ==
  LET j == job[r]
  IN  /\ j.at = "findGroup"
      /\ Goes(r, [j EXCEPT !.at = "saveGroup", !.group = GroupFor(j.payload.key)])
      /\ UNCHANGED tables

EnsureGroup(r) ==
  LET j == job[r]
      p == j.payload
  IN  /\ j.at = "saveGroup"
      /\ IF CanSaveGroup(j.group)
         THEN /\ SaveGroup(j.group, p.key, p.who) /\ OnlyGroups
              /\ Goes(r, [j EXCEPT !.at = IF j.task = NoTask THEN "scope" ELSE "load",
                                   !.group = SavedGroup(j.group)])
         ELSE Goes(r, Remaining(j, j.todo)) /\ UNCHANGED tables

(* create_task: the links are the members its group has now. *)
Scope(r) ==
  LET j == job[r]
  IN  /\ j.at = "scope"
      /\ Goes(r, IF ~ Exists(j.group) THEN Remaining(j, j.todo)
                 ELSE [j EXCEPT !.at = "insert",
                                !.who = IF j.group = NoGroup THEN @ ELSE groups[j.group].who])
      /\ UNCHANGED tables

Insert(r) ==
  LET j == job[r]
      p == j.payload
  IN  /\ j.at = "insert"
      /\ Goes(r, Remaining(j, j.todo))
      /\ IF CanInsert(j.group) THEN InsertTask(p.key, j.who, j.group) /\ OnlyTasks
                               ELSE UNCHANGED tables

(* update_task: the row it changes; the payload's members if the group is the *)
(* row's own, else the members the group has now.                            *)
Load(r) ==
  LET j == job[r]
      g == tasks[j.task].group
  IN  /\ j.at = "load"
      /\ Goes(r, IF j.group # g /\ ~ Exists(j.group) THEN Remaining(j, j.todo)
                 ELSE [j EXCEPT !.at = "save", !.loaded = g,
                                !.who = IF j.group \in {NoGroup, g} THEN @ ELSE groups[j.group].who])
      /\ UNCHANGED tables

Update(r) ==
  LET j == job[r]
  IN  /\ j.at = "save"
      /\ Goes(r, Remaining(j, j.todo))
      /\ IF CanUpdate(j.group, j.loaded)
         THEN UpdateTask(j.task, j.who, j.group, j.loaded) /\ OnlyTasks
         ELSE UNCHANGED tables

(* archive_obsolete_automatic_tasks. *)
Obsolete(keys) ==
  {t \in DOMAIN tasks : /\ tasks[t].status = "OPEN"
                        /\ tasks[t].key.rule \in Obsolescent
                        /\ tasks[t].key \notin keys}

List(r) ==
  /\ job[r].at = "list"
  /\ Goes(r, [at |-> "archive", keys |-> job[r].keys,
              listed |-> {[task |-> t, group |-> tasks[t].group] : t \in Obsolete(job[r].keys)}])
  /\ UNCHANGED tables

ArchiveObsolete(r) ==
  /\ job[r].at = "archive"
  /\ Goes(r, Idle)
  /\ IF CanArchive(job[r].listed) THEN Archive(job[r].listed) /\ TasksAndGroups
                                  ELSE UNCHANGED tables

Automation(r) ==
  \/ ReplaceSingles(r) \/ Look(r) \/ FindGroup(r) \/ EnsureGroup(r) \/ Scope(r)
  \/ Insert(r) \/ Load(r) \/ Update(r) \/ List(r) \/ ArchiveObsolete(r)

(***************************************************************************)
(* Tasks: complete_task, archive_task, reopen_task, delete_task.           *)
(***************************************************************************)
ChangeTask(r, t, to) ==
  /\ job[r] = Idle
  /\ Begins(r, [at |-> "status", task |-> t, to |-> to, loaded |-> tasks[t].status])
  /\ Spend("edit", MaxEdit) /\ UNCHANGED tables

WriteStatus(r) ==
  LET j == job[r]
  IN  /\ j.at = "status"
      /\ IF j.to = j.loaded THEN UNCHANGED tables ELSE SetStatus(j.task, j.to) /\ OnlyTasks
      /\ Goes(r, IF j.to = "OPEN" THEN Idle ELSE [at |-> "cleanup", task |-> j.task])

(* The request itself ends with the cleanup: the DELETE of the row that    *)
(* follows is refused by the foreign key of secretary_task_history, which  *)
(* has a row "Task created" for every task and is not deleted.             *)
DeleteTask(r, t) ==
  /\ job[r] = Idle
  /\ Begins(r, [at |-> "cleanup", task |-> t])
  /\ Spend("edit", MaxEdit) /\ UNCHANGED tables

Cleanup(r) ==
  LET t == job[r].task
  IN  /\ job[r].at = "cleanup"
      /\ Goes(r, IF Removable(t) THEN [at |-> "remove", task |-> t, group |-> tasks[t].group] ELSE Idle)
      /\ UNCHANGED tables

CleanupGroup(r) ==
  LET j == job[r]
  IN  /\ j.at = "remove"
      /\ Goes(r, Idle)
      /\ IF CanRemoveGroup(j.task, j.group) THEN RemoveGroup(j.task, j.group) /\ TasksAndGroups
                                            ELSE UNCHANGED tables

TaskWork(r) == WriteStatus(r) \/ Cleanup(r) \/ CleanupGroup(r)

(***************************************************************************)
(* Appointments: update_fields with a date, sync_from_missionary_dates,    *)
(* complete_appointment, miss_appointment.                                 *)
(***************************************************************************)
UpdateDate(r, m, d) ==
  /\ job[r] = Idle
  /\ Begins(r, [at |-> "date", who |-> m, date |-> d, loaded |-> file[m].date])
  /\ Spend("edit", MaxEdit) /\ UNCHANGED tables

WriteDate(r) ==
  LET j == job[r]
  IN  /\ j.at = "date"
      /\ SetDate(j.who, j.date, j.loaded)
      /\ UNCHANGED <<tasks, groups, appts, papers, today>>
      /\ Goes(r, [at |-> "readDate", who |-> j.who])

ReadDate(r) ==
  LET m == job[r].who
  IN  /\ job[r].at = "readDate"
      /\ Goes(r, IF file[m].date = NoDate THEN Idle
                 ELSE [at |-> "sync", who |-> m, date |-> file[m].date])
      /\ UNCHANGED tables

SyncAppointments(r) ==
  /\ job[r].at = "sync"
  /\ Sync(job[r].who, job[r].date)
  /\ UNCHANGED <<tasks, groups, file, papers, today>>
  /\ Goes(r, Idle)

(* An appointment that is not SCHEDULED any more is refused. *)
MarkAppointment(r, a, to) ==
  /\ job[r] = Idle /\ appts[a].status = "SCHEDULED"
  /\ Begins(r, [at |-> "mark", appt |-> a, to |-> to, loaded |-> file[appts[a].who].date])
  /\ Spend("edit", MaxEdit) /\ UNCHANGED tables

WriteMarkOfPast(r) ==
  LET j == job[r]
  IN  /\ j.at = "mark"
      /\ Mark(j.appt, j.to, j.loaded)
      /\ UNCHANGED <<tasks, groups, today>>
      /\ Goes(r, IF j.to = "MISSED" /\ appts[j.appt].date < today
                 THEN [at |-> "followUp", who |-> appts[j.appt].who] ELSE Idle)
WriteMark(r) ==
  LET j == job[r]
  IN  /\ j.at = "mark"
      /\ Mark(j.appt, j.to, j.loaded)
      /\ UNCHANGED <<tasks, groups, today>>
      /\ Goes(r, IF j.to = "MISSED" THEN [at |-> "followUp", who |-> appts[j.appt].who] ELSE Idle)

FollowUp(r) ==
  /\ job[r].at = "followUp"
  /\ InsertTask(NoKey, {job[r].who}, NoGroup) /\ OnlyTasks
  /\ Goes(r, Idle)

Visit(r) == WriteDate(r) \/ ReadDate(r) \/ SyncAppointments(r) \/ WriteMark(r) \/ FollowUp(r)

(***************************************************************************)
(* Everything else.                                                        *)
(***************************************************************************)
Disturbed == alone' = [r \in Request |-> FALSE]

(* A missionary's documents change: the prorroga approval comes or is     *)
(* deleted, the ficha de canje or new appointment papers are uploaded.    *)
Document(m) ==
  /\ \/ file' = [file EXCEPT ![m].approved = ~ @] /\ UNCHANGED papers
     \/ ~ file[m].ficha /\ file' = [file EXCEPT ![m].ficha = TRUE] /\ UNCHANGED papers
     \/ ~ papers[m] /\ papers' = [papers EXCEPT ![m] = TRUE] /\ UNCHANGED file
  /\ Spend("world", MaxWorld) /\ Disturbed
  /\ UNCHANGED <<tasks, groups, appts, today, job>>

DayPasses ==
  /\ today' = today + 1
  /\ Spend("world", MaxWorld) /\ Disturbed
  /\ UNCHANGED <<tasks, groups, appts, file, papers, job>>

Crash ==
  /\ \E r \in Request : job[r] # Idle
  /\ job' = [r \in Request |-> Idle]
  /\ Spend("fault", MaxFault) /\ Disturbed /\ UNCHANGED tables

(* The transaction that is due next fails, a lock held too long say: a run *)
(* goes on with what comes next, other requests end.                      *)
Fails(r) ==
  /\ \/ /\ job[r].at = "replace"
        /\ \E keys \in job[r].replace : job' = [job EXCEPT ![r].replace = @ \ {keys}]
     \/ /\ job[r].at \in {"saveGroup", "insert", "save"}
        /\ job' = [job EXCEPT ![r] = Remaining(@, @.todo)]
     \/ /\ job[r].at \in {"archive", "status", "remove", "date", "sync", "mark", "followUp"}
        /\ job' = [job EXCEPT ![r] = Idle]
  /\ Spend("fault", MaxFault) /\ Disturbed /\ UNCHANGED tables

Serve(r) == Automation(r) \/ TaskWork(r) \/ Visit(r)

Start(r) ==
  \/ Run(r)
  \/ \E t \in DOMAIN tasks :
       \/ \E to \in Status : ChangeTask(r, t, to)
       \/ DeleteTask(r, t)
  \/ \E m \in Missionary, d \in Date : UpdateDate(r, m, d)
  \/ \E a \in DOMAIN appts, to \in {"COMPLETED", "MISSED"} : MarkAppointment(r, a, to)

World == DayPasses \/ (\E m \in Missionary : Document(m)) \/ Crash \/ (\E r \in Request : Fails(r))

Next == World \/ \E r \in Request : Start(r) \/ Serve(r)

Spec == Init /\ [][Next]_vars /\ \A r \in Request : WF_vars(Serve(r))

(***************************************************************************)
(* Properties.                                                             *)
(***************************************************************************)
(* Types, and the links between the tables: a task names a group that      *)
(* exists, whatever was read before it went.                               *)
OfficeTypeOK ==
  /\ tasks \in Seq(Task) /\ appts \in Seq(Appointment)
  /\ file \in [Missionary -> File] /\ papers \in [Missionary -> BOOLEAN] /\ today \in Nat
  /\ \A t \in DOMAIN tasks : tasks[t].group = NoGroup \/ tasks[t].group \in DOMAIN groups
  /\ \A g \in DOMAIN groups : groups[g].who \subseteq Missionary

(* A missionary never has two appointments scheduled, however the requests *)
(* that set dates, synchronise and mark overlap.                           *)
OneScheduled == \A m \in Missionary : Cardinality(Scheduled(m)) <= 1

(* A run in which nothing else happens adds no task for a key that has one, *)
(* open or closed: what was done is not asked for again, and two tasks with *)
(* one key come only of runs that overlap.                                  *)
RunsAddNoDouble ==
  [][\A r \in Request :
       job[r].at = "insert" /\ job'[r] # job[r] /\ alone'[r] /\ tasks' # tasks =>
         TasksWith(job[r].payload.key) = {}]_vars

(* What somebody has completed or archived does not come back: only a      *)
(* request to reopen it opens a closed task, not a run that saw it open.   *)
ClosedStaysClosed ==
  [][\A t \in DOMAIN tasks :
       tasks[t].status # "OPEN" /\ tasks'[t].status = "OPEN" =>
         \E r \in Request : /\ job[r].at = "status" /\ job[r].task = t /\ job[r].to = "OPEN"
                            /\ job'[r] # job[r]]_vars

(* A run in which nothing else happens leaves exactly the work that the    *)
(* documents and dates call for, whatever earlier runs, requests, failures *)
(* and stops have left behind: every key has its task, no task that is not *)
(* asked for stays open, and the task the next run will look up, if open,  *)
(* is linked to the missionaries of its payload, a group task through a    *)
(* group of just these.  One thing is in its way: an ID of a group that    *)
(* was removed is given out again, a run that was overtaken writes it into *)
(* a closed task, and that task keeps the new group from being removed     *)
(* with its own, obsolete one.                                             *)
LinkedTo(t, p) ==
  /\ tasks[t].who = p.who
  /\ IF HasGroup(p) THEN tasks[t].group # NoGroup /\ groups[tasks[t].group].who = p.who
                    ELSE tasks[t].group = NoGroup
InOrder ==
  \A payloads \in {Payloads(Snapshot)} :
    /\ Obsolete(KeysOf(payloads)) = {}
    /\ \A p \in payloads :
         /\ RowOf(p.key) # NoTask
         /\ tasks[RowOf(p.key)].status = "OPEN" => LinkedTo(RowOf(p.key), p)
RunSettles ==
  [][\A r \in Request :
       job[r].at = "archive" /\ job'[r] = Idle /\ alone'[r] /\ CanArchive(job[r].listed) => InOrder']_vars

(* A date that is set while nothing else happens is the one appointment    *)
(* scheduled, whatever was scheduled or half done before.                  *)
ScheduledDates(m) == {appts[a].date : a \in Scheduled(m)}
SyncSettles ==
  [][\A r \in Request :
       job[r].at = "sync" /\ job'[r] = Idle /\ alone'[r] =>
         \A m \in Missionary : m = job[r].who => ScheduledDates(m)' = {file'[m].date}]_vars

(* A missed appointment has a follow-up task, or the request that marked   *)
(* it is about to create one, as long as no transaction fails and the      *)
(* server does not stop.                                                   *)
FollowUpPromised ==
  spent.fault = 0 =>
    \A m \in Missionary :
      Cardinality({a \in DOMAIN appts : appts[a].who = m /\ appts[a].status = "MISSED" /\ ~ appts[a].replaced})
        <= Cardinality({t \in DOMAIN tasks : tasks[t].key = NoKey /\ tasks[t].who = {m}})
           + Cardinality({r \in Request : job[r].at = "followUp" /\ job[r].who = m})
=============================================================================
