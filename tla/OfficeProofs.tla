----------------------------- MODULE OfficeProofs -----------------------------
(***************************************************************************)
(* Proofs about OfficeWork, for any number of missionaries, requests at a  *)
(* time, runs, stops and failures, and for any windows: the types, what no *)
(* step does to a task or an appointment, and what a run or a date leaves  *)
(* behind when nothing else has happened meanwhile.                        *)
(*                                                                         *)
(* Every request is stale by design: it writes what it decided from rows   *)
(* it read in an earlier session.  So the type invariant says of each step *)
(* what the request still knows for certain (Refers), TasksStep what any   *)
(* step may do to the tasks, and Settles what a run knows in addition as   *)
(* long as it is alone.                                                    *)
(***************************************************************************)
EXTENDS OfficeWork, SequenceTheorems, FiniteSetTheorems, WellFoundedInduction, TLAPS

Rules    == {"prorroga", "group", "gvm", "ficha"}
AutoKey  == [rule : Rules, of : Nat, at : Int]
TaskKey  == AutoKey \cup {NoKey}
Demand   == [key : AutoKey, who : SUBSET Missionary]
TaskRow  == [key : TaskKey, status : Status, who : SUBSET Missionary, group : Nat]
GroupRow == [key : AutoKey, who : SUBSET Missionary]

\* What a request is doing, step by step.
Replacing == [at : {"replace"}, replace : SUBSET SUBSET AutoKey, todo : SUBSET Demand,
              keys : SUBSET AutoKey]
Between   == [at : {"look", "list"}, todo : SUBSET Demand, keys : SUBSET AutoKey]
Saving    == {"findGroup", "saveGroup", "scope", "insert", "load", "save"}
Settling  == [at : Saving, todo : SUBSET Demand, keys : SUBSET AutoKey, payload : Demand,
              task : Nat, group : Nat, who : SUBSET Missionary, loaded : Nat]
Closing   == [at : {"archive"}, keys : SUBSET AutoKey, listed : SUBSET [task : Nat, group : Nat]]
Editing   == [at : {"status"}, task : Nat, to : Status, loaded : Status]
Cleaning  == [at : {"cleanup"}, task : Nat]
Removing  == [at : {"remove"}, task : Nat, group : Nat]
Dating    == [at : {"date"}, who : Missionary, date : Date, loaded : Nat]
Telling   == [at : {"readDate", "followUp"}, who : Missionary]
Syncing   == [at : {"sync"}, who : Missionary, date : Nat]
Marking   == [at : {"mark"}, appt : Nat, to : {"COMPLETED", "MISSED"}, loaded : Nat]
Job       == {Idle} \cup Replacing \cup Between \cup Settling \cup Closing \cup Editing
                    \cup Cleaning \cup Removing \cup Dating \cup Telling \cup Syncing \cup Marking

\* Rows a request has read are still there, with their keys.
Refers(j, ts, as) ==
  /\ j.at \in Saving /\ j.task # NoTask => /\ j.task \in DOMAIN ts
                                           /\ ts[j.task].key = j.payload.key
  /\ j.at \in {"load", "save"} => j.task # NoTask
  /\ j.at = "archive" => \A l \in j.listed : l.task \in DOMAIN ts
  /\ j.at \in {"status", "cleanup", "remove"} => j.task \in DOMAIN ts
  /\ j.at = "mark" => j.appt \in DOMAIN as

There(g, gs) == g = NoGroup \/ g \in DOMAIN gs
TasksOK  == tasks \in Seq(TaskRow) /\ \A t \in DOMAIN tasks : There(tasks[t].group, groups)
GroupsOK == /\ DOMAIN groups \subseteq Nat \ {NoGroup} /\ IsFiniteSet(DOMAIN groups)
            /\ groups \in [DOMAIN groups -> GroupRow]
VisitsOK == /\ appts \in Seq(Appointment)
            /\ file \in [Missionary -> File] /\ papers \in [Missionary -> BOOLEAN] /\ today \in Nat
JobsOK   == /\ job \in [Request -> Job]
            /\ \A r \in Request : Refers(job[r], tasks, appts)
SpentOK  == /\ alone \in [Request -> BOOLEAN]
            /\ spent \in [{"run", "edit", "world", "fault"} -> Nat]
TypeInv  == TasksOK /\ GroupsOK /\ VisitsOK /\ JobsOK /\ SpentOK

-----------------------------------------------------------------------------
(* The rules *)

LEMMA MinIs ==
  ASSUME NEW S, S \subseteq Nat, S # {}
  PROVE  Min(S) \in S /\ \A k \in S : Min(S) <= k
  <1> DEFINE Less == {ss \in Nat \X Nat : ss[1] < ss[2]}
  <1>1. IsWellFoundedOn(Less, Nat)
    BY NatLessThanWellFounded DEF OpToRel
  <1>2. PICK x \in S : \A y \in S : ~(<<y, x>> \in Less)
    <2> HIDE DEF Less
    <2> QED
      BY <1>1, WFMin
  <1>3. ASSUME NEW y \in S PROVE x <= y
    <2>1. <<y, x>> \notin Less /\ x \in Nat /\ y \in Nat
      BY <1>2
    <2>2. <<y, x>> \in Nat \X Nat /\ <<y, x>>[1] = y /\ <<y, x>>[2] = x
      BY <2>1
    <2>3. ~(y < x)
      BY <2>1, <2>2
    <2> QED
      BY <2>1, <2>3
  <1> QED
    BY <1>3 DEF Min

LEMMA MaxIs ==
  ASSUME NEW S, S \subseteq Nat, IsFiniteSet(S), S # {}
  PROVE  Max(S) \in S /\ \A k \in S : k <= Max(S)
  <1> DEFINE Above(x) == {y \in S : x < y}
             T == {Above(x) : x \in S}
             R == StrictSubsetOrdering(S)
  <1>1. T \subseteq FiniteSubsetsOf(S) /\ T # {}
    <2>1. T \subseteq SUBSET S /\ T # {}
      OBVIOUS
    <2> HIDE DEF T
    <2> QED
      BY <2>1, FS_FiniteSubsetsOfFinite
  <1>2. PICK A \in T : \A B \in T : <<B, A>> \notin R
    <2> HIDE DEF T, R
    <2>1. IsWellFoundedOn(R, FiniteSubsetsOf(S))
      BY FS_StrictSubsetOrderingWellFounded DEF R
    <2> QED
      BY <1>1, <2>1, WFMin
  <1>3. PICK x \in S : A = Above(x)
    OBVIOUS
  <1>4. ASSUME NEW y \in S, x < y
        PROVE  FALSE
    <2>1. Above(y) \in T /\ Above(y) \subseteq Above(x) /\ y \in Above(x) /\ y \notin Above(y)
      <3>1. x \in Nat /\ y \in Nat /\ x \in S
        BY <1>3
      <3>2. Above(y) \in T
        OBVIOUS
      <3>3. \A z \in S : z \in Nat
        OBVIOUS
      <3>4. Above(y) \subseteq Above(x)
        <4>1. ASSUME NEW z \in Above(y) PROVE z \in Above(x)
          <5>1. z \in S /\ y < z
            BY <4>1
          <5>2. z \in Nat
            BY <5>1, <3>3
          <5>3. x < z
            BY <1>4, <3>1, <5>1, <5>2
          <5> QED
            BY <5>1, <5>3
        <4> QED
          BY <4>1
      <3>5. y \in Above(x) /\ y \notin Above(y)
        BY <1>4, <3>1
      <3> HIDE DEF T, Above
      <3> QED
        BY <3>2, <3>4, <3>5
    <2>2. <<Above(y), Above(x)>> \in R
      BY <2>1 DEF StrictSubsetOrdering
    <2>3. <<Above(y), A>> \in R
      BY <1>3, <2>2
    <2> HIDE DEF T, R, Above
    <2> QED
      BY <1>2, <2>1, <2>3
  <1>5. \A y \in S : y <= x
    BY <1>4
  <1> QED
    BY <1>5 DEF Max

Snap == [file : [Missionary -> File], today : Nat]

LEMMA ClusterIs ==
  ASSUME NEW snap \in Snap, NEW w \in {ProrrogaWindow, CriticalWindow},
         NEW c \in Clusters(snap, w)
  PROVE  c \subseteq Waiting(snap, w) /\ c # {} /\ c \subseteq Missionary
  BY DEF Clusters, Waiting

LEMMA FirstDayIs ==
  ASSUME NEW c, c \subseteq Missionary, c # {}, NEW w \in Nat
  PROVE  /\ FirstDay(c, w) \in Int
         /\ \E m \in c : FirstDay(c, w) = Expiry[m] - w
         /\ \A m \in c : FirstDay(c, w) <= Expiry[m] - w
  <1> DEFINE E == {Expiry[m] : m \in c}
  <1>1. E \subseteq Nat /\ E # {}
    BY AutomationAssumption
  <1>2. Min(E) \in E /\ \A k \in E : Min(E) <= k
    <2> HIDE DEF E
    <2> QED
      BY <1>1, MinIs
  <1>3. PICK m \in c : Min(E) = Expiry[m]
    BY <1>2
  <1>4. \A n \in c : Expiry[n] \in Nat
    BY AutomationAssumption
  <1>5. FirstDay(c, w) = Min(E) - w
    BY DEF FirstDay
  <1> HIDE DEF E
  <1>6. \A n \in c : Min(E) <= Expiry[n]
    BY <1>2 DEF E
  <1> QED
    BY <1>3, <1>4, <1>5, <1>6

LEMMA ClusterPayloadIs ==
  ASSUME NEW c, c \subseteq Missionary, c # {}, NEW w \in {ProrrogaWindow, CriticalWindow}
  PROVE  ClusterPayload(c, w) \in Demand /\ ClusterPayload(c, w).who = c
  <1>1. w \in Nat
    BY AutomationAssumption
  <1>2. (CHOOSE m \in c : TRUE) \in c
    OBVIOUS
  <1>3. \A m \in Missionary : m \in Nat
    BY AutomationAssumption DEF Missionary
  <1>4. FirstDay(c, w) \in Int
    BY <1>1, FirstDayIs
  <1>5. \A m \in c : Payload(ProrrogaKey(m, w), c) \in Demand
    BY <1>1, <1>3 DEF Payload, ProrrogaKey, Key, Demand, AutoKey, Rules
  <1>6. Payload(Key("group", w, FirstDay(c, w)), c) \in Demand
    BY <1>1, <1>4 DEF Payload, Key, Demand, AutoKey, Rules
  <1> QED
    BY <1>2, <1>5, <1>6 DEF ClusterPayload, Payload

\* The payloads of a snapshot and the keys they replace have their types.
LEMMA PayloadsAre ==
  ASSUME NEW snap \in Snap
  PROVE  /\ Payloads(snap) \subseteq Demand
         /\ KeysOf(Payloads(snap)) \subseteq AutoKey
         /\ Replaced(snap) \subseteq SUBSET AutoKey
  <1>0. \A m \in Missionary : m \in Nat /\ snap.file[m] \in File
    BY AutomationAssumption DEF Missionary, Snap
  <1>1. GvmPayloads(snap) \subseteq Demand
    BY <1>0 DEF GvmPayloads, Payload, Key, Demand, AutoKey, Rules
  <1>2. FichaPayloads(snap) \subseteq Demand
    BY <1>0 DEF FichaPayloads, Payload, Key, Demand, AutoKey, Rules, File
  <1>3. ProrrogaPayloads(snap) \subseteq Demand
    BY ClusterIs, ClusterPayloadIs DEF ProrrogaPayloads
  <1>4. Payloads(snap) \subseteq Demand
    BY <1>1, <1>2, <1>3 DEF Payloads
  <1>5. KeysOf(Payloads(snap)) \subseteq AutoKey
    BY <1>4 DEF KeysOf, Demand
  <1>6. ASSUME NEW w \in {ProrrogaWindow, CriticalWindow}, NEW c \in Clusters(snap, w)
        PROVE  {ProrrogaKey(m, w) : m \in c} \subseteq AutoKey
    <2>1. w \in Nat /\ c \subseteq Missionary
      BY AutomationAssumption, ClusterIs
    <2> QED
      BY <1>0, <2>1 DEF ProrrogaKey, Key, AutoKey, Rules
  <1>7. Replaced(snap) \subseteq SUBSET AutoKey
    BY <1>6 DEF Replaced
  <1> QED
    BY <1>4, <1>5, <1>7

LEMMA KeysAre == \A k \in AutoKey : k # NoKey
  BY DEF AutoKey, Rules, NoKey, Key

\* What every step does to the tasks: rows stay, with their keys, and those without a
\* key with their links; one comes at a time; and a closed one is opened by request
\* only.
RowsStay(ts, us) ==
  /\ DOMAIN ts \subseteq DOMAIN us
  /\ \A t \in DOMAIN ts : /\ us[t].key = ts[t].key
                          /\ ts[t].key = NoKey => us[t].who = ts[t].who
RowsAreNew(ts, us) == \A t, u \in DOMAIN us \ DOMAIN ts : t = u
Opened(ts, us) == {t \in DOMAIN ts : ts[t].status # "OPEN" /\ us[t].status = "OPEN"}
Changes(ts, us) == RowsStay(ts, us) /\ RowsAreNew(ts, us) /\ Opened(ts, us) = {}

TasksStep ==
  /\ RowsStay(tasks, tasks') /\ RowsAreNew(tasks, tasks')
  /\ \A t \in Opened(tasks, tasks') :
       \E r \in Request : job[r].at = "status" /\ job[r].task = t /\ job[r].to = "OPEN" /\ job'[r] # job[r]

-----------------------------------------------------------------------------
(* The tables *)

LEMMA TaskIs ==
  ASSUME tasks \in Seq(TaskRow)
  PROVE  /\ Len(tasks) \in Nat /\ DOMAIN tasks = 1 .. Len(tasks)
         /\ \A t \in DOMAIN tasks : /\ tasks[t] \in TaskRow /\ t \in Nat /\ t # NoTask
                                    /\ tasks[t].group \in Nat
  <1>1. Len(tasks) \in Nat /\ DOMAIN tasks = 1 .. Len(tasks)
    OBVIOUS
  <1>2. ASSUME NEW t \in DOMAIN tasks PROVE tasks[t] \in TaskRow /\ t \in Nat /\ t # 0
    BY <1>1, <1>2
  <1> QED
    BY <1>1, <1>2 DEF NoTask, TaskRow

\* The row a lookup by key returns.
FirstRow(t, key, ts) == /\ t \in DOMAIN ts /\ ts[t].key = key
                        /\ \A u \in DOMAIN ts : ts[u].key = key => t <= u

LEMMA RowOfIs ==
  ASSUME tasks \in Seq(TaskRow), NEW key
  PROVE  /\ RowOf(key) = NoTask <=> TasksWith(key) = {}
         /\ RowOf(key) # NoTask => FirstRow(RowOf(key), key, tasks)
  <1>1. TasksWith(key) \subseteq Nat /\ NoTask \notin TasksWith(key)
    BY TaskIs DEF TasksWith
  <1>2. TasksWith(key) # {} => /\ Min(TasksWith(key)) \in TasksWith(key)
                               /\ \A t \in TasksWith(key) : Min(TasksWith(key)) <= t
    BY <1>1, MinIs
  <1> QED
    BY <1>1, <1>2 DEF RowOf, TasksWith, FirstRow

FirstRowsFound == \A u, k : FirstRow(u, k, tasks) => RowOf(k) = u /\ u # NoTask

LEMMA FirstRowIs == TasksOK => FirstRowsFound
  <1> SUFFICES ASSUME TasksOK, NEW t, NEW key, FirstRow(t, key, tasks)
               PROVE  RowOf(key) = t /\ t # NoTask
    BY DEF FirstRowsFound
  <1>1. t \in DOMAIN tasks /\ t \in Nat /\ t # NoTask /\ tasks[t].key = key
    BY TaskIs DEF TasksOK, FirstRow
  <1>2. RowOf(key) # NoTask
    BY <1>1, RowOfIs DEF TasksOK, TasksWith
  <1>3. FirstRow(RowOf(key), key, tasks)
    BY <1>2, RowOfIs DEF TasksOK
  <1>4. RowOf(key) \in Nat
    BY <1>3, TaskIs DEF TasksOK, FirstRow
  <1>5. t <= RowOf(key) /\ RowOf(key) <= t
    BY <1>1, <1>3 DEF FirstRow
  <1> QED
    BY <1>1, <1>4, <1>5

LEMMA GroupForIs ==
  ASSUME GroupsOK, NEW key
  PROVE  /\ GroupFor(key) = NoGroup <=> GroupsFor(key) = {}
         /\ GroupFor(key) # NoGroup => /\ GroupFor(key) \in DOMAIN groups
                                       /\ groups[GroupFor(key)].key = key
         /\ GroupFor(key) \in Nat
  <1>1. GroupsFor(key) \subseteq Nat /\ NoGroup \notin GroupsFor(key)
    BY DEF GroupsFor, GroupsOK
  <1>2. GroupsFor(key) # {} => Min(GroupsFor(key)) \in GroupsFor(key)
    BY <1>1, MinIs
  <1> QED
    BY <1>1, <1>2 DEF GroupFor, GroupsFor, NoGroup

LEMMA NewGroupIs ==
  ASSUME GroupsOK
  PROVE  NewGroup \in Nat /\ NewGroup # NoGroup /\ NewGroup \notin DOMAIN groups
  <1>1. CASE DOMAIN groups = {}
    BY <1>1 DEF NewGroup, NoGroup
  <1>2. CASE DOMAIN groups # {}
    <2>1. /\ Max(DOMAIN groups) \in DOMAIN groups
          /\ \A g \in DOMAIN groups : g <= Max(DOMAIN groups)
      <3>1. DOMAIN groups \subseteq Nat /\ IsFiniteSet(DOMAIN groups)
        BY DEF GroupsOK
      <3> QED
        BY <1>2, <3>1, MaxIs
    <2>2. Max(DOMAIN groups) \in Nat /\ NewGroup = Max(DOMAIN groups) + 1
      BY <1>2, <2>1 DEF NewGroup, GroupsOK
    <2> QED
      BY <2>1, <2>2 DEF NoGroup
  <1> QED
    BY <1>1, <1>2

LEMMA InsertIs ==
  ASSUME TasksOK, NEW key \in TaskKey, NEW who \in SUBSET Missionary, NEW g \in Nat,
         CanInsert(g), InsertTask(key, who, g), UNCHANGED groups
  PROVE  /\ TasksOK' /\ Changes(tasks, tasks')
         /\ Len(tasks') = Len(tasks) + 1 /\ DOMAIN tasks' = DOMAIN tasks \cup {Len(tasks) + 1}
         /\ Len(tasks) + 1 \notin DOMAIN tasks
         /\ \A t \in DOMAIN tasks : tasks'[t] = tasks[t]
         /\ tasks'[Len(tasks) + 1] = [key |-> key, status |-> "OPEN", who |-> who, group |-> g]
  <1> DEFINE new == [key |-> key, status |-> "OPEN", who |-> who, group |-> g]
             n == Len(tasks)
  <1>1. tasks \in Seq(TaskRow) /\ n \in Nat /\ DOMAIN tasks = 1 .. n
    BY TaskIs DEF TasksOK
  <1>2. new \in TaskRow
    BY DEF TaskRow, Status
  <1>3. tasks' = Append(tasks, new)
    BY DEF InsertTask
  <1>4. new.key = key /\ new.group = g
    OBVIOUS
  <1> HIDE DEF new
  <1>5. /\ tasks' \in Seq(TaskRow) /\ Len(tasks') = n + 1 /\ DOMAIN tasks' = 1 .. n + 1
        /\ \A t \in 1 .. n : tasks'[t] = tasks[t]
        /\ tasks'[n + 1] = new
    BY <1>1, <1>2, <1>3
  <1>6. DOMAIN tasks' = DOMAIN tasks \cup {n + 1} /\ n + 1 \notin DOMAIN tasks
    BY <1>1, <1>5
  <1>7. TasksOK'
    <2>1. Exists(g)
      BY DEF CanInsert
    <2>2. ASSUME NEW t \in DOMAIN tasks' PROVE There(tasks'[t].group, groups')
      BY <1>1, <1>4, <1>5, <1>6, <2>1, <2>2 DEF TasksOK, There, Exists
    <2> QED
      BY <1>5, <2>2 DEF TasksOK
  <1>8. Changes(tasks, tasks')
    <2>1. RowsStay(tasks, tasks') /\ Opened(tasks, tasks') = {}
      BY <1>1, <1>5, <1>6 DEF RowsStay, Opened
    <2>2. DOMAIN tasks' \ DOMAIN tasks = {n + 1}
      BY <1>6
    <2>3. RowsAreNew(tasks, tasks')
      BY <2>2 DEF RowsAreNew
    <2> QED
      BY <2>1, <2>3 DEF Changes
  <1> QED
    BY <1>5, <1>6, <1>7, <1>8, <1>1 DEF new

\* Changes of rows that keep their keys and close rather than open.
LEMMA RowsChange ==
  ASSUME TasksOK, DOMAIN tasks' = DOMAIN tasks, tasks' = [t \in DOMAIN tasks |-> tasks'[t]],
         \A t \in DOMAIN tasks : /\ tasks'[t] \in TaskRow /\ tasks'[t].key = tasks[t].key
                                 /\ tasks[t].key = NoKey => tasks'[t].who = tasks[t].who
                                 /\ tasks'[t].status \in {tasks[t].status, "ARCHIVED"}
                                 /\ There(tasks'[t].group, groups')
  PROVE  TasksOK' /\ Changes(tasks, tasks')
  <1>1. tasks \in Seq(TaskRow) /\ Len(tasks) \in Nat /\ DOMAIN tasks = 1 .. Len(tasks)
    BY TaskIs DEF TasksOK
  <1>2. tasks' \in Seq(TaskRow)
    <2>1. tasks' \in [1 .. Len(tasks) -> TaskRow]
      BY <1>1
    <2> QED
      BY <1>1, <2>1, IsASeq
  <1>3. TasksOK'
    BY <1>2 DEF TasksOK
  <1>4. RowsStay(tasks, tasks') /\ RowsAreNew(tasks, tasks')
    BY DEF RowsStay, RowsAreNew
  <1>5. Opened(tasks, tasks') = {}
    BY DEF Opened
  <1> QED
    BY <1>3, <1>4, <1>5 DEF Changes

LEMMA NoRowChanges ==
  ASSUME TasksOK, UNCHANGED tasks, \A g \in DOMAIN groups : g \in DOMAIN groups'
  PROVE  TasksOK' /\ Changes(tasks, tasks')
  <1>1. \A t \in DOMAIN tasks : There(tasks[t].group, groups) => There(tasks'[t].group, groups')
    BY DEF There
  <1>2. TasksOK'
    BY <1>1 DEF TasksOK
  <1> QED
    BY <1>2 DEF Changes, RowsStay, RowsAreNew, Opened

LEMMA UpdateIs ==
  ASSUME TasksOK, NEW t \in DOMAIN tasks, tasks[t].key # NoKey, NEW who \in SUBSET Missionary,
         NEW g \in Nat, NEW loaded \in Nat, CanUpdate(g, loaded), UpdateTask(t, who, g, loaded),
         UNCHANGED groups
  PROVE  /\ TasksOK' /\ Changes(tasks, tasks') /\ DOMAIN tasks' = DOMAIN tasks
         /\ \A u \in DOMAIN tasks \ {t} : tasks'[u] = tasks[u]
         /\ tasks'[t].status = tasks[t].status /\ tasks'[t].who = who
         /\ tasks'[t].group = IF g = loaded THEN tasks[t].group ELSE g
  <1> DEFINE h == IF g = loaded THEN tasks[t].group ELSE g
  <1>1. tasks \in Seq(TaskRow) /\ tasks[t] \in TaskRow
    BY TaskIs DEF TasksOK
  <1>2. h \in Nat /\ There(h, groups')
    BY <1>1 DEF CanUpdate, Exists, There, TasksOK, TaskRow
  <1>3. tasks' = [tasks EXCEPT ![t].who = who, ![t].group = h]
    BY DEF UpdateTask
  <1> HIDE DEF h
  <1>4. /\ DOMAIN tasks' = DOMAIN tasks /\ tasks' = [u \in DOMAIN tasks |-> tasks'[u]]
        /\ \A u \in DOMAIN tasks \ {t} : tasks'[u] = tasks[u]
        /\ tasks'[t] = [[tasks[t] EXCEPT !.who = who] EXCEPT !.group = h]
    BY <1>3
  <1>5. /\ tasks'[t] \in TaskRow /\ tasks'[t].key = tasks[t].key /\ tasks'[t].status = tasks[t].status
        /\ tasks'[t].who = who /\ tasks'[t].group = h
    BY <1>1, <1>2, <1>4 DEF TaskRow
  <1>6. ASSUME NEW u \in DOMAIN tasks
        PROVE  /\ tasks'[u] \in TaskRow /\ tasks'[u].key = tasks[u].key
               /\ tasks[u].key = NoKey => tasks'[u].who = tasks[u].who
               /\ tasks'[u].status \in {tasks[u].status, "ARCHIVED"}
               /\ There(tasks'[u].group, groups')
    <2>1. CASE u = t
      BY <1>2, <1>5, <2>1
    <2>2. CASE u # t
      BY <1>4, <2>2, TaskIs DEF TasksOK
    <2> QED
      BY <2>1, <2>2
  <1>7. TasksOK' /\ Changes(tasks, tasks')
    BY <1>4, <1>6, RowsChange
  <1> QED
    BY <1>4, <1>5, <1>7 DEF h

-----------------------------------------------------------------------------
(* The transactions *)

LEMMA ArchiveReplacedIs ==
  ASSUME TasksOK, NEW keys, ArchiveReplaced(keys), UNCHANGED groups
  PROVE  TasksOK' /\ Changes(tasks, tasks')
  <1>1. ASSUME NEW t \in DOMAIN tasks
        PROVE  /\ tasks'[t] \in TaskRow /\ tasks'[t].key = tasks[t].key
               /\ tasks[t].key = NoKey => tasks'[t].who = tasks[t].who
               /\ tasks'[t].status \in {tasks[t].status, "ARCHIVED"}
               /\ There(tasks'[t].group, groups')
    <2>1. tasks[t] \in TaskRow /\ There(tasks[t].group, groups')
      BY TaskIs DEF TasksOK
    <2>2. tasks'[t] \in {tasks[t], [tasks[t] EXCEPT !.status = "ARCHIVED"]}
      BY DEF ArchiveReplaced
    <2> QED
      BY <2>1, <2>2 DEF TaskRow, Status
  <1>2. DOMAIN tasks' = DOMAIN tasks /\ tasks' = [t \in DOMAIN tasks |-> tasks'[t]]
    BY DEF ArchiveReplaced
  <1> QED
    BY <1>1, <1>2, RowsChange

LEMMA SetStatusIs ==
  ASSUME TasksOK, NEW t \in DOMAIN tasks, NEW status \in Status, SetStatus(t, status),
         UNCHANGED groups
  PROVE  /\ TasksOK' /\ RowsStay(tasks, tasks') /\ RowsAreNew(tasks, tasks')
         /\ Opened(tasks, tasks') \subseteq (IF status = "OPEN" THEN {t} ELSE {})
  <1>1. tasks \in Seq(TaskRow) /\ tasks[t] \in TaskRow /\ Len(tasks) \in Nat
        /\ DOMAIN tasks = 1 .. Len(tasks)
    BY TaskIs DEF TasksOK
  <1>2. /\ tasks' = [tasks EXCEPT ![t] = [tasks[t] EXCEPT !.status = status]]
        /\ [tasks[t] EXCEPT !.status = status] \in TaskRow
    BY <1>1 DEF SetStatus, TaskRow
  <1>3. /\ DOMAIN tasks' = DOMAIN tasks /\ tasks' \in Seq(TaskRow)
        /\ \A u \in DOMAIN tasks \ {t} : tasks'[u] = tasks[u]
        /\ tasks'[t] = [tasks[t] EXCEPT !.status = status]
    BY <1>1, <1>2, ExceptSeq
  <1>4. tasks'[t].key = tasks[t].key /\ tasks'[t].who = tasks[t].who
        /\ tasks'[t].group = tasks[t].group /\ tasks'[t].status = status
    BY <1>1, <1>3 DEF TaskRow
  <1>5. TasksOK'
    BY <1>3, <1>4 DEF TasksOK
  <1>6. RowsStay(tasks, tasks') /\ RowsAreNew(tasks, tasks')
    BY <1>3, <1>4 DEF RowsStay, RowsAreNew
  <1>7. Opened(tasks, tasks') \subseteq (IF status = "OPEN" THEN {t} ELSE {})
    BY <1>3, <1>4 DEF Opened
  <1> QED
    BY <1>5, <1>6, <1>7

LEMMA GroupsLeft ==
  ASSUME GroupsOK, NEW S, groups' = [g \in DOMAIN groups \ S |-> groups[g]]
  PROVE  GroupsOK'
  <1>1. IsFiniteSet(DOMAIN groups \ S)
    BY FS_Difference DEF GroupsOK
  <1> QED
    BY <1>1 DEF GroupsOK

LEMMA ArchiveIs ==
  ASSUME TasksOK, GroupsOK, NEW listed, CanArchive(listed), Archive(listed)
  PROVE  TasksOK' /\ GroupsOK' /\ Changes(tasks, tasks')
  <1>1. DOMAIN tasks' = DOMAIN tasks /\ tasks' = [t \in DOMAIN tasks |-> tasks'[t]]
        /\ DOMAIN groups' = DOMAIN groups \ Gone(listed)
    BY DEF Archive, Closed
  <1>2. ASSUME NEW t \in DOMAIN tasks
        PROVE  /\ tasks'[t] \in TaskRow /\ tasks'[t].key = tasks[t].key
               /\ tasks[t].key = NoKey => tasks'[t].who = tasks[t].who
               /\ tasks'[t].status \in {tasks[t].status, "ARCHIVED"}
               /\ There(tasks'[t].group, groups')
    <2>1. tasks[t] \in TaskRow /\ There(tasks[t].group, groups)
      BY TaskIs DEF TasksOK
    <2> DEFINE g == IF \E l \in listed : l.task = t /\ l.group \in DOMAIN groups
                    THEN NoGroup ELSE tasks[t].group
    <2>2. /\ tasks'[t] \in {tasks[t], [tasks[t] EXCEPT !.status = "ARCHIVED", !.group = g]}
          /\ g \in {NoGroup, tasks[t].group}
      BY DEF Archive, Closed
    <2> HIDE DEF g
    <2>3. tasks'[t].group \in {NoGroup, tasks[t].group}
      BY <2>1, <2>2 DEF TaskRow
    <2>4. tasks'[t].group \notin Gone(listed)
      BY DEF CanArchive, Archive
    <2>5. There(tasks'[t].group, groups')
      BY <1>1, <2>1, <2>3, <2>4 DEF There
    <2>6. g \in Nat /\ "ARCHIVED" \in Status
      BY <2>1, <2>2 DEF TaskRow, NoGroup, Status
    <2>7. CASE tasks'[t] = tasks[t]
      BY <2>1, <2>5, <2>7
    <2>8. CASE tasks'[t] = [tasks[t] EXCEPT !.status = "ARCHIVED", !.group = g]
      BY <2>1, <2>5, <2>6, <2>8 DEF TaskRow
    <2> QED
      BY <2>2, <2>7, <2>8
  <1>3. GroupsOK'
    BY GroupsLeft DEF Archive
  <1> QED
    BY <1>1, <1>2, <1>3, RowsChange

LEMMA RemoveGroupIs ==
  ASSUME TasksOK, GroupsOK, NEW t \in DOMAIN tasks, NEW g, CanRemoveGroup(t, g), RemoveGroup(t, g)
  PROVE  TasksOK' /\ GroupsOK' /\ Changes(tasks, tasks')
  <1>1. /\ DOMAIN tasks' = DOMAIN tasks /\ tasks' = [u \in DOMAIN tasks |-> tasks'[u]]
        /\ \A u \in DOMAIN tasks \ {t} : tasks'[u] = tasks[u]
        /\ tasks'[t] = [tasks[t] EXCEPT !.group = NoGroup]
        /\ DOMAIN groups' = DOMAIN groups \ {g}
    BY DEF RemoveGroup
  <1>2. ASSUME NEW u \in DOMAIN tasks
        PROVE  /\ tasks'[u] \in TaskRow /\ tasks'[u].key = tasks[u].key
               /\ tasks[u].key = NoKey => tasks'[u].who = tasks[u].who
               /\ tasks'[u].status \in {tasks[u].status, "ARCHIVED"}
               /\ There(tasks'[u].group, groups')
    <2>1. tasks[u] \in TaskRow /\ There(tasks[u].group, groups)
      BY TaskIs DEF TasksOK
    <2>2. CASE u = t
      BY <1>1, <2>1, <2>2 DEF TaskRow, There, NoGroup
    <2>3. CASE u # t
      <3>1. tasks[u].group # g
        BY <2>3 DEF CanRemoveGroup
      <3> QED
        BY <1>1, <2>1, <2>3, <3>1 DEF There
    <2> QED
      BY <2>2, <2>3
  <1>3. GroupsOK'
    BY GroupsLeft DEF RemoveGroup
  <1> QED
    BY <1>1, <1>2, <1>3, RowsChange

LEMMA SaveGroupIs ==
  ASSUME TasksOK, GroupsOK, NEW found \in Nat, CanSaveGroup(found), NEW key \in AutoKey,
         NEW who \in SUBSET Missionary, SaveGroup(found, key, who), UNCHANGED tasks
  PROVE  /\ TasksOK' /\ GroupsOK' /\ Changes(tasks, tasks')
         /\ SavedGroup(found) \in DOMAIN groups' /\ SavedGroup(found) \in Nat \ {NoGroup}
         /\ groups'[SavedGroup(found)].who = who
         /\ found = NoGroup \/ groups[found].key = key => groups'[SavedGroup(found)].key = key
         /\ DOMAIN groups \subseteq DOMAIN groups' /\ (found = NoGroup => SavedGroup(found) \notin DOMAIN groups)
         /\ \A g \in DOMAIN groups \ {SavedGroup(found)} : groups'[g] = groups[g]
  <1>0. /\ DOMAIN groups \subseteq Nat \ {NoGroup} /\ IsFiniteSet(DOMAIN groups)
        /\ groups \in [DOMAIN groups -> GroupRow] /\ \A g \in DOMAIN groups : groups[g] \in GroupRow
    BY DEF GroupsOK
  <1>1. CASE found = NoGroup
    <2> DEFINE n == NewGroup
    <2>1. n \in Nat /\ n # NoGroup /\ n \notin DOMAIN groups
      BY NewGroupIs
    <2>2. groups' = [g \in DOMAIN groups \cup {n} |->
                       IF g = n THEN [key |-> key, who |-> who] ELSE groups[g]]
      BY <1>1 DEF SaveGroup
    <2>3. SavedGroup(found) = n
      BY <1>1 DEF SavedGroup
    <2> HIDE DEF n
    <2>4. IsFiniteSet(DOMAIN groups \cup {n})
      BY <1>0, FS_AddElement
    <2>5. DOMAIN groups' = DOMAIN groups \cup {n} /\ groups'[n] = [key |-> key, who |-> who]
          /\ \A g \in DOMAIN groups : groups'[g] = groups[g]
      BY <2>1, <2>2
    <2>6. [key |-> key, who |-> who] \in GroupRow
      BY DEF GroupRow
    <2>7. groups' \in [DOMAIN groups' -> GroupRow]
      BY <1>0, <2>1, <2>2, <2>5, <2>6
    <2>8. GroupsOK'
      BY <1>0, <2>1, <2>4, <2>5, <2>7 DEF GroupsOK
    <2> QED
      BY <2>1, <2>3, <2>5, <2>8, NoRowChanges
  <1>2. CASE found # NoGroup
    <2>1. found \in DOMAIN groups /\ SavedGroup(found) = found
      BY <1>2 DEF CanSaveGroup, Exists, SavedGroup
    <2>2. groups' = [groups EXCEPT ![found] = [groups[found] EXCEPT !.who = who]]
      BY <1>2 DEF SaveGroup
    <2>3. [groups[found] EXCEPT !.who = who] \in GroupRow
      BY <1>0, <2>1 DEF GroupRow
    <2>4. DOMAIN groups' = DOMAIN groups /\ groups'[found] = [groups[found] EXCEPT !.who = who]
          /\ \A g \in DOMAIN groups \ {found} : groups'[g] = groups[g]
      BY <2>1, <2>2
    <2>5. groups'[found].who = who /\ groups'[found].key = groups[found].key
      BY <1>0, <2>1, <2>4 DEF GroupRow
    <2>6. GroupsOK'
      BY <1>0, <2>1, <2>2, <2>3, <2>4 DEF GroupsOK
    <2> QED
      BY <1>0, <1>2, <2>1, <2>4, <2>5, <2>6, NoRowChanges
  <1> QED
    BY <1>1, <1>2

-----------------------------------------------------------------------------
(* Requests *)

LEMMA JobIs ==
  ASSUME NEW j \in Job
  PROVE  /\ j.at = "idle" <=> j = Idle
         /\ j.at = "replace" => j \in Replacing
         /\ j.at \in {"look", "list"} => j \in Between
         /\ j.at \in Saving => j \in Settling
         /\ j.at = "archive" => j \in Closing
         /\ j.at = "status" => j \in Editing
         /\ j.at = "cleanup" => j \in Cleaning
         /\ j.at = "remove" => j \in Removing
         /\ j.at = "date" => j \in Dating
         /\ j.at \in {"readDate", "followUp"} => j \in Telling
         /\ j.at = "sync" => j \in Syncing
         /\ j.at = "mark" => j \in Marking
  BY DEF Job, Idle, Replacing, Between, Saving, Settling, Closing, Editing, Cleaning,
     Removing,
         Dating, Telling, Syncing, Marking

LEMMA IdleIs == Idle \in Job /\ \A ts, as : Refers(Idle, ts, as)
  BY DEF Job, Idle, Refers, Saving

\* A request that moves on; the others are where they were.
LEMMA JobMoves ==
  ASSUME JobsOK, NEW r \in Request, NEW next \in Job, job' = [job EXCEPT ![r] = next],
         Refers(next, tasks', appts'), RowsStay(tasks, tasks'), DOMAIN appts \subseteq DOMAIN appts'
  PROVE  JobsOK' /\ job'[r] = next /\ \A s \in Request \ {r} : job'[s] = job[s]
  <1>1. job' \in [Request -> Job] /\ job'[r] = next /\ \A s \in Request \ {r} : job'[s] = job[s]
    BY DEF JobsOK
  <1>2. ASSUME NEW s \in Request PROVE Refers(job'[s], tasks', appts')
    <2>1. CASE s = r
      BY <1>1, <2>1
    <2>2. CASE s # r
      <3>1. Refers(job[s], tasks, appts) /\ job'[s] = job[s]
        BY <1>1, <2>2 DEF JobsOK
      <3> QED
        BY <3>1 DEF Refers, RowsStay
    <2> QED
      BY <2>1, <2>2
  <1> QED
    BY <1>1, <1>2 DEF JobsOK

LEMMA JobsStay ==
  ASSUME JobsOK, UNCHANGED job, RowsStay(tasks, tasks'), DOMAIN appts \subseteq DOMAIN appts'
  PROVE  JobsOK'
  <1>1. ASSUME NEW s \in Request PROVE Refers(job[s], tasks', appts')
    <2>1. Refers(job[s], tasks, appts)
      BY DEF JobsOK
    <2> QED
      BY <2>1 DEF Refers, RowsStay
  <1> QED
    BY <1>1 DEF JobsOK

LEMMA AloneIs ==
  ASSUME SpentOK, NEW r \in Request, NEW next
  PROVE  /\ Moves(r, next) => /\ alone' \in [Request -> BOOLEAN]
                              /\ \A s \in Request : alone'[s] => s = r /\ alone[s]
         /\ Begins(r, next) => /\ alone' \in [Request -> BOOLEAN]
                               /\ \A s \in Request : alone'[s] => s = r
         /\ Disturbed => /\ alone' \in [Request -> BOOLEAN]
                         /\ \A s \in Request : ~ alone'[s]
         /\ UNCHANGED spent => spent' \in [{"run", "edit", "world", "fault"} -> Nat]
  BY DEF SpentOK, Moves, Begins, Disturbed

LEMMA SpendIs ==
  ASSUME SpentOK, NEW what \in {"run", "edit", "world", "fault"}, NEW max, Spend(what, max)
  PROVE  /\ spent' \in [{"run", "edit", "world", "fault"} -> Nat]
         /\ what # "fault" => spent'.fault = spent.fault
         /\ what = "fault" => spent'.fault # 0
  <1>1. spent[what] \in Nat /\ spent.fault \in Nat
    BY DEF SpentOK
  <1>2. spent' = [spent EXCEPT ![what] = spent[what] + 1]
    BY DEF Spend
  <1> QED
    BY <1>1, <1>2 DEF SpentOK

-----------------------------------------------------------------------------
(* Appointments *)

Missed(m) == {a \in DOMAIN appts : appts[a].who = m /\ appts[a].status = "MISSED" /\ ~ appts[a].replaced}

LEMMA AppointmentIs ==
  ASSUME VisitsOK
  PROVE  /\ Len(appts) \in Nat /\ DOMAIN appts = 1 .. Len(appts)
         /\ \A a \in DOMAIN appts : appts[a] \in Appointment /\ a \in Nat
  BY DEF VisitsOK

LEMMA SyncIs ==
  ASSUME VisitsOK, NEW m \in Missionary, NEW d \in Nat, Sync(m, d), UNCHANGED <<file,
                                                                                papers, today>>
  PROVE  /\ VisitsOK' /\ DOMAIN appts \subseteq DOMAIN appts'
         /\ \A k \in Missionary \ {m} : Scheduled(k)' = Scheduled(k)
         /\ \A a \in Scheduled(m)' : appts'[a].date = d
         /\ Scheduled(m)' # {}
         /\ Scheduled(m)' \subseteq Scheduled(m) \/ Scheduled(m)' = {Len(appts) + 1}
         /\ \A k \in Missionary : Missed(k)' = Missed(k)
  <1> DEFINE n == Len(appts)
             Out(a) == a \in Scheduled(m) /\ appts[a].date # d
             kept == [a \in DOMAIN appts |->
                       IF Out(a) THEN [appts[a] EXCEPT !.status = "MISSED", !.replaced = TRUE]
                       ELSE appts[a]]
             new == [who |-> m, date |-> d, status |-> "SCHEDULED", replaced |-> FALSE]
  <1>1. n \in Nat /\ DOMAIN appts = 1 .. n /\ \A a \in 1 .. n : appts[a] \in Appointment
    BY AppointmentIs
  <1>2. appts' = IF \E a \in Scheduled(m) : appts[a].date = d THEN kept ELSE Append(kept, new)
    BY DEF Sync
  <1>3. ASSUME NEW a \in 1 .. n
        PROVE  /\ kept[a] \in Appointment /\ kept[a].who = appts[a].who /\ kept[a].date = appts[a].date
               /\ ~ Out(a) => kept[a] = appts[a]
               /\ Out(a) => kept[a].status = "MISSED" /\ kept[a].replaced
    BY <1>1 DEF Appointment
  <1>4. kept \in Seq(Appointment) /\ Len(kept) = n /\ DOMAIN kept = 1 .. n
    <2>1. kept \in [1 .. n -> Appointment]
      BY <1>1, <1>3
    <2> HIDE DEF kept
    <2> QED
      BY <1>1, <2>1, IsASeq
  <1>5. new \in Appointment
    BY DEF Appointment
  <1>6. new.who = m /\ new.date = d /\ new.status = "SCHEDULED" /\ new.replaced = FALSE
    OBVIOUS
  <1>7. \A a \in 1 .. n : Out(a) <=> /\ appts[a].who = m /\ appts[a].status = "SCHEDULED"
                                     /\ appts[a].date # d
    BY <1>1 DEF Scheduled
  <1> HIDE DEF kept, new, Out
  <1>8. CASE \E a \in Scheduled(m) : appts[a].date = d
    <2>1. appts' = kept
      BY <1>2, <1>8
    <2>2. VisitsOK' /\ DOMAIN appts' = 1 .. n
      BY <1>4, <2>1 DEF VisitsOK
    <2>3. \A k \in Missionary \ {m} : Scheduled(k)' = Scheduled(k)
      BY <1>1, <1>3, <1>4, <1>7, <2>1 DEF Scheduled
    <2>4. Scheduled(m)' = {a \in Scheduled(m) : appts[a].date = d}
      BY <1>1, <1>3, <1>4, <1>7, <2>1 DEF Scheduled
    <2>5. \A a \in Scheduled(m)' : appts'[a].date = d
      BY <1>1, <1>3, <1>4, <2>1, <2>4 DEF Scheduled
    <2>6. \A k \in Missionary : Missed(k)' = Missed(k)
      BY <1>1, <1>3, <1>4, <1>7, <2>1 DEF Missed
    <2> QED
      BY <1>1, <1>8, <2>2, <2>3, <2>4, <2>5, <2>6
  <1>9. CASE ~ \E a \in Scheduled(m) : appts[a].date = d
    <2>1. appts' = Append(kept, new)
      BY <1>2, <1>9
    <2>2. /\ appts' \in Seq(Appointment) /\ DOMAIN appts' = 1 .. n + 1
          /\ \A a \in 1 .. n : appts'[a] = kept[a]
          /\ appts'[n + 1] = new
      BY <1>1, <1>4, <1>5, <2>1
    <2>3. VisitsOK'
      BY <2>2 DEF VisitsOK
    <2>4. 1 .. n + 1 = 1 .. n \cup {n + 1} /\ n + 1 \notin 1 .. n
      BY <1>1
    <2>5. \A k \in Missionary \ {m} : Scheduled(k)' = Scheduled(k)
      BY <1>1, <1>3, <1>6, <1>7, <2>2, <2>4 DEF Scheduled
    <2>6. Scheduled(m)' = {n + 1}
      BY <1>1, <1>3, <1>6, <1>7, <1>9, <2>2, <2>4 DEF Scheduled
    <2>7. \A k \in Missionary : Missed(k)' = Missed(k)
      BY <1>1, <1>3, <1>6, <1>7, <2>2, <2>4 DEF Missed
    <2> QED
      BY <1>1, <1>6, <2>2, <2>3, <2>4, <2>5, <2>6, <2>7
  <1> QED
    BY <1>8, <1>9

LEMMA MarkIs ==
  ASSUME VisitsOK, NEW a \in DOMAIN appts, NEW status \in {"COMPLETED", "MISSED"}, NEW seen,
         Mark(a, status, seen), UNCHANGED today
  PROVE  /\ VisitsOK' /\ DOMAIN appts' = DOMAIN appts
         /\ \A k \in Missionary : Scheduled(k)' \subseteq Scheduled(k)
         /\ \A k \in Missionary : Missed(k)' \subseteq Missed(k) \cup {a}
         /\ \A k \in Missionary : a \in Missed(k)' => k = appts[a].who /\ status = "MISSED"
  <1>1. /\ Len(appts) \in Nat /\ DOMAIN appts = 1 .. Len(appts) /\ appts[a] \in Appointment
        /\ appts \in Seq(Appointment) /\ appts[a].who \in Missionary
    BY AppointmentIs DEF VisitsOK, Appointment
  <1>2. /\ appts' = [appts EXCEPT ![a] = [appts[a] EXCEPT !.status = status]]
        /\ file' = IF seen = appts[a].date THEN [file EXCEPT ![appts[a].who].date = NoDate] ELSE file
        /\ papers' = IF status = "MISSED" THEN [papers EXCEPT ![appts[a].who] = FALSE] ELSE papers
    BY DEF Mark
  <1>3. [appts[a] EXCEPT !.status = status] \in Appointment
    BY <1>1 DEF Appointment
  <1>4. /\ appts' \in Seq(Appointment) /\ DOMAIN appts' = DOMAIN appts
        /\ \A b \in DOMAIN appts \ {a} : appts'[b] = appts[b]
        /\ appts'[a] = [appts[a] EXCEPT !.status = status]
    BY <1>1, <1>2, <1>3, ExceptSeq
  <1>5. appts'[a].who = appts[a].who /\ appts'[a].status = status
        /\ appts'[a].replaced = appts[a].replaced
    BY <1>1, <1>4 DEF Appointment
  <1>6. file' \in [Missionary -> File]
    <2>1. file[appts[a].who] \in File
      BY <1>1 DEF VisitsOK
    <2>2. [file[appts[a].who] EXCEPT !.date = NoDate] \in File
      BY <2>1 DEF File, NoDate
    <2> QED
      BY <1>1, <1>2, <2>2 DEF VisitsOK
  <1>7. papers' \in [Missionary -> BOOLEAN]
    BY <1>1, <1>2 DEF VisitsOK
  <1>8. VisitsOK'
    BY <1>4, <1>6, <1>7 DEF VisitsOK
  <1>9. \A k \in Missionary : Scheduled(k)' \subseteq Scheduled(k)
    BY <1>4, <1>5 DEF Scheduled
  <1>10. \A k \in Missionary : /\ Missed(k)' \subseteq Missed(k) \cup {a}
                               /\ a \in Missed(k)' => k = appts[a].who /\ status = "MISSED"
    BY <1>4, <1>5 DEF Missed
  <1> QED
    BY <1>4, <1>8, <1>9, <1>10

-----------------------------------------------------------------------------
(* The steps of a request *)

LEMMA RemainingIs ==
  ASSUME NEW j, j.keys \in SUBSET AutoKey, NEW todo \in SUBSET Demand
  PROVE  Remaining(j, todo) \in Job /\ \A ts, as : Refers(Remaining(j, todo), ts, as)
  BY DEF Remaining, Job, Between, Refers, Saving

\* A step that writes: what it leaves of the tables is all right, and so is what the
\* request knows now.
LEMMA Writes ==
  ASSUME TypeInv, NEW r \in Request, NEW next \in Job, Goes(r, next),
         Refers(next, tasks', appts'), TasksOK', GroupsOK', VisitsOK',
         Changes(tasks, tasks'), DOMAIN appts \subseteq DOMAIN appts'
  PROVE  TypeInv' /\ TasksStep /\ job'[r] = next /\ \A s \in Request \ {r} : job'[s] = job[s]
  <1>1. JobsOK' /\ job'[r] = next /\ \A s \in Request \ {r} : job'[s] = job[s]
    BY JobMoves DEF TypeInv, Goes, Moves, Changes
  <1>2. SpentOK'
    BY AloneIs DEF TypeInv, SpentOK, Goes
  <1> QED
    BY <1>1, <1>2 DEF TypeInv, TasksStep, Changes

\* A step that reads, or begins.
LEMMA Reads ==
  ASSUME TypeInv, NEW r \in Request, NEW next \in Job, UNCHANGED tables,
         Goes(r, next) \/ (Begins(r, next) /\ SpentOK'), Refers(next, tasks, appts)
  PROVE  TypeInv' /\ TasksStep /\ job'[r] = next /\ \A s \in Request \ {r} : job'[s] = job[s]
  <1>0. TasksOK /\ GroupsOK /\ VisitsOK /\ UNCHANGED <<tasks, groups, appts, file,
                                                       papers, today>>
    BY DEF TypeInv, tables
  <1>1. TasksOK' /\ Changes(tasks, tasks')
    BY <1>0, NoRowChanges
  <1>2. GroupsOK' /\ VisitsOK'
    BY <1>0 DEF GroupsOK, VisitsOK
  <1>3. JobsOK' /\ job'[r] = next /\ \A s \in Request \ {r} : job'[s] = job[s]
    BY <1>0, <1>1, JobMoves DEF TypeInv, Goes, Moves, Begins, Changes
  <1>4. SpentOK'
    BY AloneIs DEF TypeInv, SpentOK, Goes
  <1> QED
    BY <1>1, <1>2, <1>3, <1>4 DEF TypeInv, TasksStep, Changes

LEMMA RequestIs ==
  ASSUME TypeInv, NEW r \in Request
  PROVE  job[r] \in Job /\ Refers(job[r], tasks, appts)
  BY DEF TypeInv, JobsOK

LEMMA RunIs ==
  ASSUME TypeInv, NEW r \in Request, Run(r)
  PROVE  TypeInv' /\ TasksStep
  <1> DEFINE todo == Payloads(Snapshot)
             next == [at |-> "replace", replace |-> Replaced(Snapshot), todo |-> todo, keys |-> KeysOf(todo)]
  <1>1. Snapshot \in Snap
    BY DEF TypeInv, VisitsOK, Snapshot, Snap
  <1>2. next \in Job /\ Refers(next, tasks, appts)
    BY <1>1, PayloadsAre DEF Job, Replacing, Refers, Saving
  <1>3. Begins(r, next) /\ Spend("run", MaxRun) /\ UNCHANGED tables
    BY DEF Run
  <1>4. SpentOK'
    BY <1>3, AloneIs, SpendIs DEF TypeInv, SpentOK
  <1> HIDE DEF next
  <1> QED
    BY <1>2, <1>3, <1>4, Reads

LEMMA ReplaceSinglesIs ==
  ASSUME TypeInv, NEW r \in Request, ReplaceSingles(r)
  PROVE  TypeInv' /\ TasksStep
  <1> DEFINE j == job[r]
  <1>1. j \in Replacing
    BY RequestIs, JobIs DEF ReplaceSingles
  <1>2. CASE Goes(r, Remaining(j, j.todo)) /\ UNCHANGED tables
    <2>1. Remaining(j, j.todo) \in Job /\ Refers(Remaining(j, j.todo), tasks, appts)
      BY <1>1, RemainingIs DEF Replacing
    <2> QED
      BY <1>2, <2>1, Reads
  <1>3. CASE \E keys \in j.replace : /\ ArchiveReplaced(keys) /\ OnlyTasks
                                     /\ Goes(r, [j EXCEPT !.replace = @ \ {keys}])
    <2>1. PICK keys \in j.replace : /\ ArchiveReplaced(keys) /\ OnlyTasks
                                    /\ Goes(r, [j EXCEPT !.replace = @ \ {keys}])
      BY <1>3
    <2>2. /\ [j EXCEPT !.replace = @ \ {keys}] \in Job
          /\ \A ts, as : Refers([j EXCEPT !.replace = @ \ {keys}], ts, as)
      BY <1>1 DEF Replacing, Job, Refers, Saving
    <2>3. UNCHANGED groups /\ UNCHANGED appts /\ GroupsOK' /\ VisitsOK'
      BY <2>1 DEF OnlyTasks, TypeInv, GroupsOK, VisitsOK
    <2>4. TasksOK' /\ Changes(tasks, tasks')
      BY <2>1, <2>3, ArchiveReplacedIs DEF TypeInv
    <2> QED
      BY <2>1, <2>2, <2>3, <2>4, Writes
  <1> QED
    BY <1>2, <1>3 DEF ReplaceSingles

LEMMA LookIs ==
  ASSUME TypeInv, NEW r \in Request, Look(r)
  PROVE  TypeInv' /\ TasksStep
  <1> DEFINE j == job[r]
  <1>1. j \in Between
    BY RequestIs, JobIs DEF Look
  <1>2. PICK p \in First(j.todo) :
           Goes(r, IF RowOf(p.key) # NoTask /\ tasks[RowOf(p.key)].status # "OPEN"
                   THEN Remaining(j, j.todo \ {p})
                   ELSE At(j, IF HasGroup(p) THEN "findGroup" ELSE IF RowOf(p.key) = NoTask THEN "scope" ELSE "load",
                           p, RowOf(p.key)))
    BY DEF Look
  <1>3. p \in Demand /\ p \in j.todo /\ j.todo \in SUBSET Demand /\ j.keys \in SUBSET AutoKey
    BY <1>1 DEF First, Between
  <1>4. UNCHANGED tables
    BY DEF Look
  <1>5. /\ RowOf(p.key) \in Nat
        /\ RowOf(p.key) # NoTask => RowOf(p.key) \in DOMAIN tasks /\ tasks[RowOf(p.key)].key = p.key
    BY RowOfIs, TaskIs DEF TypeInv, TasksOK, NoTask, FirstRow
  <1>6. Remaining(j, j.todo \ {p}) \in Job /\ Refers(Remaining(j, j.todo \ {p}), tasks, appts)
    BY <1>3, RemainingIs
  <1>7. ASSUME NEW at \in {"findGroup", "scope", "load"}, at = "load" => RowOf(p.key) # NoTask
        PROVE  At(j, at, p, RowOf(p.key)) \in Job /\ Refers(At(j, at, p, RowOf(p.key)), tasks, appts)
    <2>1. At(j, at, p, RowOf(p.key)) \in Settling
      BY <1>3, <1>5 DEF At, Settling, Saving, Demand, NoGroup
    <2>2. Refers(At(j, at, p, RowOf(p.key)), tasks, appts)
      BY <1>5, <1>7 DEF At, Refers, Saving
    <2> QED
      BY <2>1, <2>2 DEF Job
  <1> QED
    BY <1>2, <1>4, <1>6, <1>7, Reads

LEMMA FindGroupIs ==
  ASSUME TypeInv, NEW r \in Request, FindGroup(r)
  PROVE  TypeInv' /\ TasksStep
  <1> DEFINE j == job[r]
             next == [j EXCEPT !.at = "saveGroup", !.group = GroupFor(j.payload.key)]
  <1>1. j \in Settling /\ Refers(j, tasks, appts)
    BY RequestIs, JobIs DEF FindGroup, Saving
  <1>2. GroupFor(j.payload.key) \in Nat
    BY GroupForIs DEF TypeInv
  <1>3. next \in Job /\ Refers(next, tasks, appts)
    BY <1>1, <1>2 DEF Settling, Saving, Job, Refers
  <1>4. Goes(r, next) /\ UNCHANGED tables
    BY DEF FindGroup
  <1> HIDE DEF next
  <1> QED
    BY <1>3, <1>4, Reads

LEMMA EnsureGroupIs ==
  ASSUME TypeInv, NEW r \in Request, EnsureGroup(r)
  PROVE  TypeInv' /\ TasksStep
  <1> DEFINE j == job[r]
             p == j.payload
             next == [j EXCEPT !.at = IF j.task = NoTask THEN "scope" ELSE "load",
                               !.group = SavedGroup(j.group)]
  <1>1. j \in Settling /\ Refers(j, tasks, appts)
    BY RequestIs, JobIs DEF EnsureGroup, Saving
  <1>2. p \in Demand /\ j.group \in Nat /\ p.key \in AutoKey /\ p.who \in SUBSET Missionary
    BY <1>1 DEF Settling, Demand
  <1>3. CASE CanSaveGroup(j.group)
    <2>1. SaveGroup(j.group, p.key, p.who) /\ OnlyGroups /\ Goes(r, next)
      BY <1>3 DEF EnsureGroup
    <2>2. UNCHANGED tasks /\ UNCHANGED appts /\ VisitsOK'
      BY <2>1 DEF OnlyGroups, TypeInv, VisitsOK
    <2>3. TasksOK' /\ GroupsOK' /\ Changes(tasks, tasks') /\ SavedGroup(j.group) \in Nat \ {NoGroup}
      BY <1>2, <1>3, <2>1, <2>2, SaveGroupIs DEF TypeInv
    <2>4. next \in Job /\ Refers(next, tasks', appts')
      BY <1>1, <2>2, <2>3 DEF Settling, Saving, Job, Refers
    <2> HIDE DEF next
    <2> QED
      BY <2>1, <2>2, <2>3, <2>4, Writes
  <1>4. CASE ~ CanSaveGroup(j.group)
    <2>1. Goes(r, Remaining(j, j.todo)) /\ UNCHANGED tables
      BY <1>4 DEF EnsureGroup
    <2>2. Remaining(j, j.todo) \in Job /\ Refers(Remaining(j, j.todo), tasks, appts)
      BY <1>1, RemainingIs DEF Settling
    <2> QED
      BY <2>1, <2>2, Reads
  <1> QED
    BY <1>3, <1>4

LEMMA ScopeIs ==
  ASSUME TypeInv, NEW r \in Request, Scope(r)
  PROVE  TypeInv' /\ TasksStep
  <1> DEFINE j == job[r]
             next == [j EXCEPT !.at = "insert",
                               !.who = IF j.group = NoGroup THEN @ ELSE groups[j.group].who]
  <1>1. j \in Settling /\ Refers(j, tasks, appts)
    BY RequestIs, JobIs DEF Scope, Saving
  <1>2. UNCHANGED tables
    BY DEF Scope
  <1>3. CASE ~ Exists(j.group)
    <2>1. Goes(r, Remaining(j, j.todo))
      BY <1>3 DEF Scope
    <2>2. Remaining(j, j.todo) \in Job /\ Refers(Remaining(j, j.todo), tasks, appts)
      BY <1>1, RemainingIs DEF Settling
    <2> QED
      BY <1>2, <2>1, <2>2, Reads
  <1>4. CASE Exists(j.group)
    <2>1. Goes(r, next)
      BY <1>4 DEF Scope
    <2>2. j.group # NoGroup => groups[j.group].who \in SUBSET Missionary
      BY <1>4 DEF Exists, TypeInv, GroupsOK, GroupRow
    <2>3. next \in Job /\ Refers(next, tasks, appts)
      BY <1>1, <2>2 DEF Settling, Saving, Job, Refers
    <2> HIDE DEF next
    <2> QED
      BY <1>2, <2>1, <2>3, Reads
  <1> QED
    BY <1>3, <1>4

LEMMA InsertStep ==
  ASSUME TypeInv, NEW r \in Request, Insert(r)
  PROVE  TypeInv' /\ TasksStep
  <1> DEFINE j == job[r]
             p == j.payload
  <1>1. j \in Settling /\ Refers(j, tasks, appts)
    BY RequestIs, JobIs DEF Insert, Saving
  <1>2. p.key \in TaskKey /\ j.group \in Nat /\ j.who \in SUBSET Missionary
    BY <1>1 DEF Settling, Demand, TaskKey
  <1>3. Remaining(j, j.todo) \in Job /\ \A ts, as : Refers(Remaining(j, j.todo), ts, as)
    BY <1>1, RemainingIs DEF Settling
  <1>4. Goes(r, Remaining(j, j.todo))
    BY DEF Insert
  <1>5. CASE CanInsert(j.group)
    <2>1. InsertTask(p.key, j.who, j.group) /\ OnlyTasks
      BY <1>5 DEF Insert
    <2>2. UNCHANGED groups /\ UNCHANGED appts /\ GroupsOK' /\ VisitsOK'
      BY <2>1 DEF OnlyTasks, TypeInv, GroupsOK, VisitsOK
    <2>3. TasksOK' /\ Changes(tasks, tasks')
      BY <1>2, <1>5, <2>1, <2>2, InsertIs DEF TypeInv
    <2> QED
      BY <1>3, <1>4, <2>2, <2>3, Writes
  <1>6. CASE ~ CanInsert(j.group)
    <2>1. UNCHANGED tables
      BY <1>6 DEF Insert
    <2> QED
      BY <1>3, <1>4, <2>1, Reads
  <1> QED
    BY <1>5, <1>6

LEMMA LoadIs ==
  ASSUME TypeInv, NEW r \in Request, Load(r)
  PROVE  TypeInv' /\ TasksStep
  <1> DEFINE j == job[r]
             g == tasks[j.task].group
             next == [j EXCEPT !.at = "save", !.loaded = g,
                               !.who = IF j.group \in {NoGroup, g} THEN @ ELSE groups[j.group].who]
  <1>1. j \in Settling /\ Refers(j, tasks, appts) /\ j.at = "load"
    BY RequestIs, JobIs DEF Load, Saving
  <1>2. UNCHANGED tables
    BY DEF Load
  <1>3. j.task \in DOMAIN tasks /\ g \in Nat
    BY <1>1, TaskIs DEF Refers, Saving, TypeInv, TasksOK
  <1>4. CASE j.group # g /\ ~ Exists(j.group)
    <2>1. Goes(r, Remaining(j, j.todo))
      BY <1>4 DEF Load
    <2>2. Remaining(j, j.todo) \in Job /\ Refers(Remaining(j, j.todo), tasks, appts)
      BY <1>1, RemainingIs DEF Settling
    <2> QED
      BY <1>2, <2>1, <2>2, Reads
  <1>5. CASE ~ (j.group # g /\ ~ Exists(j.group))
    <2>1. Goes(r, next)
      BY <1>5 DEF Load
    <2>2. j.group \notin {NoGroup, g} => groups[j.group].who \in SUBSET Missionary
      BY <1>5 DEF Exists, TypeInv, GroupsOK, GroupRow
    <2>3. next \in Job /\ Refers(next, tasks, appts)
      BY <1>1, <1>3, <2>2 DEF Settling, Saving, Job, Refers
    <2> HIDE DEF next
    <2> QED
      BY <1>2, <2>1, <2>3, Reads
  <1> QED
    BY <1>4, <1>5

LEMMA UpdateStep ==
  ASSUME TypeInv, NEW r \in Request, Update(r)
  PROVE  TypeInv' /\ TasksStep
  <1> DEFINE j == job[r]
  <1>1. j \in Settling /\ Refers(j, tasks, appts) /\ j.at = "save"
    BY RequestIs, JobIs DEF Update, Saving
  <1>2. /\ j.group \in Nat /\ j.loaded \in Nat /\ j.who \in SUBSET Missionary
        /\ j.task \in DOMAIN tasks /\ tasks[j.task].key # NoKey
    <2>1. j.payload.key \in AutoKey
      BY <1>1 DEF Settling, Demand
    <2> QED
      BY <1>1, <2>1, KeysAre DEF Settling, Refers, Saving
  <1>3. Remaining(j, j.todo) \in Job /\ \A ts, as : Refers(Remaining(j, j.todo), ts, as)
    BY <1>1, RemainingIs DEF Settling
  <1>4. Goes(r, Remaining(j, j.todo))
    BY DEF Update
  <1>5. CASE CanUpdate(j.group, j.loaded)
    <2>1. UpdateTask(j.task, j.who, j.group, j.loaded) /\ OnlyTasks
      BY <1>5 DEF Update
    <2>2. UNCHANGED groups /\ UNCHANGED appts /\ GroupsOK' /\ VisitsOK'
      BY <2>1 DEF OnlyTasks, TypeInv, GroupsOK, VisitsOK
    <2>3. TasksOK' /\ Changes(tasks, tasks')
      BY <1>2, <1>5, <2>1, <2>2, UpdateIs DEF TypeInv
    <2> QED
      BY <1>3, <1>4, <2>2, <2>3, Writes
  <1>6. CASE ~ CanUpdate(j.group, j.loaded)
    <2>1. UNCHANGED tables
      BY <1>6 DEF Update
    <2> QED
      BY <1>3, <1>4, <2>1, Reads
  <1> QED
    BY <1>5, <1>6

LEMMA ListIs ==
  ASSUME TypeInv, NEW r \in Request, List(r)
  PROVE  TypeInv' /\ TasksStep
  <1> DEFINE j == job[r]
             listed == {[task |-> t, group |-> tasks[t].group] : t \in Obsolete(j.keys)}
             next == [at |-> "archive", keys |-> j.keys, listed |-> listed]
  <1>1. j \in Between
    BY RequestIs, JobIs DEF List
  <1>2. \A t \in Obsolete(j.keys) : t \in DOMAIN tasks /\ t \in Nat /\ tasks[t].group \in Nat
    BY TaskIs DEF Obsolete, TypeInv, TasksOK
  <1>3. listed \subseteq [task : Nat, group : Nat] /\ \A l \in listed : l.task \in DOMAIN tasks
    BY <1>2
  <1>4. Goes(r, next) /\ UNCHANGED tables
    BY DEF List
  <1> HIDE DEF listed
  <1>5. next \in Job /\ Refers(next, tasks, appts)
    BY <1>1, <1>3 DEF Between, Closing, Saving, Job, Refers
  <1> HIDE DEF next
  <1> QED
    BY <1>4, <1>5, Reads

LEMMA ArchiveObsoleteIs ==
  ASSUME TypeInv, NEW r \in Request, ArchiveObsolete(r)
  PROVE  TypeInv' /\ TasksStep
  <1> DEFINE listed == job[r].listed
  <1>1. Goes(r, Idle)
    BY DEF ArchiveObsolete
  <1>2. CASE CanArchive(listed)
    <2>1. Archive(listed) /\ TasksAndGroups
      BY <1>2 DEF ArchiveObsolete
    <2>2. UNCHANGED appts /\ VisitsOK'
      BY <2>1 DEF TasksAndGroups, TypeInv, VisitsOK
    <2>3. TasksOK' /\ GroupsOK' /\ Changes(tasks, tasks')
      BY <1>2, <2>1, ArchiveIs DEF TypeInv
    <2> QED
      BY <1>1, <2>2, <2>3, IdleIs, Writes
  <1>3. CASE ~ CanArchive(listed)
    <2>1. UNCHANGED tables
      BY <1>3 DEF ArchiveObsolete
    <2> QED
      BY <1>1, <2>1, IdleIs, Reads
  <1> QED
    BY <1>2, <1>3

-----------------------------------------------------------------------------
(* Requests about tasks and appointments *)

LEMMA ChangeTaskIs ==
  ASSUME TypeInv, NEW r \in Request, NEW t \in DOMAIN tasks, NEW to \in Status, ChangeTask(r, t, to)
  PROVE  TypeInv' /\ TasksStep
  <1> DEFINE next == [at |-> "status", task |-> t, to |-> to, loaded |-> tasks[t].status]
  <1>1. t \in Nat /\ tasks[t].status \in Status
    BY TaskIs DEF TypeInv, TasksOK, TaskRow
  <1>2. next \in Job /\ Refers(next, tasks, appts)
    BY <1>1 DEF Job, Editing, Refers, Saving
  <1>3. Begins(r, next) /\ Spend("edit", MaxEdit) /\ UNCHANGED tables
    BY DEF ChangeTask
  <1>4. SpentOK'
    BY <1>3, AloneIs, SpendIs DEF TypeInv, SpentOK
  <1> HIDE DEF next
  <1> QED
    BY <1>2, <1>3, <1>4, Reads

LEMMA DeleteTaskIs ==
  ASSUME TypeInv, NEW r \in Request, NEW t \in DOMAIN tasks, DeleteTask(r, t)
  PROVE  TypeInv' /\ TasksStep
  <1> DEFINE next == [at |-> "cleanup", task |-> t]
  <1>1. t \in Nat
    BY TaskIs DEF TypeInv, TasksOK
  <1>2. next \in Job /\ Refers(next, tasks, appts)
    BY <1>1 DEF Job, Cleaning, Refers, Saving
  <1>3. Begins(r, next) /\ Spend("edit", MaxEdit) /\ UNCHANGED tables
    BY DEF DeleteTask
  <1>4. SpentOK'
    BY <1>3, AloneIs, SpendIs DEF TypeInv, SpentOK
  <1> HIDE DEF next
  <1> QED
    BY <1>2, <1>3, <1>4, Reads

LEMMA WriteStatusIs ==
  ASSUME TypeInv, NEW r \in Request, WriteStatus(r)
  PROVE  TypeInv' /\ TasksStep
  <1> DEFINE j == job[r]
             next == IF j.to = "OPEN" THEN Idle ELSE [at |-> "cleanup", task |-> j.task]
  <1>1. j \in Editing /\ Refers(j, tasks, appts) /\ j.at = "status"
    BY RequestIs, JobIs DEF WriteStatus
  <1>2. j.task \in DOMAIN tasks /\ j.task \in Nat /\ j.to \in Status
    BY <1>1 DEF Refers, Editing
  <1>3. next \in Job /\ \A ts : DOMAIN tasks \subseteq DOMAIN ts => \A as : Refers(next, ts, as)
    BY <1>2, IdleIs DEF Job, Cleaning, Refers, Saving
  <1>4. Goes(r, next)
    BY DEF WriteStatus
  <1> HIDE DEF next
  <1>5. CASE j.to = j.loaded
    <2>1. UNCHANGED tables
      BY <1>5 DEF WriteStatus
    <2> QED
      BY <1>3, <1>4, <2>1, Reads
  <1>6. CASE j.to # j.loaded
    <2>1. SetStatus(j.task, j.to) /\ OnlyTasks
      BY <1>6 DEF WriteStatus
    <2>2. UNCHANGED groups /\ UNCHANGED appts /\ GroupsOK' /\ VisitsOK'
      BY <2>1 DEF OnlyTasks, TypeInv, GroupsOK, VisitsOK
    <2>3. /\ TasksOK' /\ RowsStay(tasks, tasks') /\ RowsAreNew(tasks, tasks')
          /\ Opened(tasks, tasks') \subseteq (IF j.to = "OPEN" THEN {j.task} ELSE {})
      BY <1>2, <2>1, <2>2, SetStatusIs DEF TypeInv
    <2>4. JobsOK' /\ job'[r] = next
      BY <1>3, <1>4, <2>2, <2>3, JobMoves DEF TypeInv, Goes, Moves, RowsStay
    <2>5. SpentOK'
      BY <1>4, AloneIs DEF TypeInv, SpentOK, Goes
    <2>6. next.at # "status"
      BY DEF next, Idle
    <2>7. TasksStep
      BY <1>1, <2>3, <2>4, <2>6 DEF TasksStep
    <2> QED
      BY <2>2, <2>3, <2>4, <2>5, <2>7 DEF TypeInv
  <1> QED
    BY <1>5, <1>6

LEMMA CleanupIs ==
  ASSUME TypeInv, NEW r \in Request, Cleanup(r)
  PROVE  TypeInv' /\ TasksStep
  <1> DEFINE t == job[r].task
             go == [at |-> "remove", task |-> t, group |-> tasks[t].group]
             next == IF Removable(t) THEN go ELSE Idle
  <1>1. job[r] \in Cleaning /\ Refers(job[r], tasks, appts) /\ job[r].at = "cleanup"
    BY RequestIs, JobIs DEF Cleanup
  <1>2. t \in DOMAIN tasks /\ t \in Nat /\ tasks[t].group \in Nat
    BY <1>1, TaskIs DEF Refers, Cleaning, TypeInv, TasksOK
  <1>3. go \in Job /\ Refers(go, tasks, appts)
    BY <1>2 DEF Job, Removing, Refers, Saving
  <1>4. Goes(r, next) /\ UNCHANGED tables
    BY DEF Cleanup
  <1> HIDE DEF go
  <1> QED
    BY <1>3, <1>4, IdleIs, Reads

LEMMA CleanupGroupIs ==
  ASSUME TypeInv, NEW r \in Request, CleanupGroup(r)
  PROVE  TypeInv' /\ TasksStep
  <1> DEFINE j == job[r]
  <1>1. Goes(r, Idle) /\ j.at = "remove"
    BY DEF CleanupGroup
  <1>2. j.task \in DOMAIN tasks
    BY <1>1, RequestIs DEF Refers
  <1>3. CASE CanRemoveGroup(j.task, j.group)
    <2>1. RemoveGroup(j.task, j.group) /\ TasksAndGroups
      BY <1>3 DEF CleanupGroup
    <2>2. UNCHANGED appts /\ VisitsOK'
      BY <2>1 DEF TasksAndGroups, TypeInv, VisitsOK
    <2>3. TasksOK' /\ GroupsOK' /\ Changes(tasks, tasks')
      BY <1>2, <1>3, <2>1, RemoveGroupIs DEF TypeInv
    <2> QED
      BY <1>1, <2>2, <2>3, IdleIs, Writes
  <1>4. CASE ~ CanRemoveGroup(j.task, j.group)
    <2>1. UNCHANGED tables
      BY <1>4 DEF CleanupGroup
    <2> QED
      BY <1>1, <2>1, IdleIs, Reads
  <1> QED
    BY <1>3, <1>4

LEMMA UpdateDateIs ==
  ASSUME TypeInv, NEW r \in Request, NEW m \in Missionary, NEW d \in Date, UpdateDate(r, m, d)
  PROVE  TypeInv' /\ TasksStep
  <1> DEFINE next == [at |-> "date", who |-> m, date |-> d, loaded |-> file[m].date]
  <1>1. file[m].date \in Nat
    BY DEF TypeInv, VisitsOK, File
  <1>2. next \in Job /\ Refers(next, tasks, appts)
    BY <1>1 DEF Job, Dating, Refers, Saving
  <1>3. Begins(r, next) /\ Spend("edit", MaxEdit) /\ UNCHANGED tables
    BY DEF UpdateDate
  <1>4. SpentOK'
    BY <1>3, AloneIs, SpendIs DEF TypeInv, SpentOK
  <1> HIDE DEF next
  <1> QED
    BY <1>2, <1>3, <1>4, Reads

LEMMA SetDateIs ==
  ASSUME VisitsOK, NEW m \in Missionary, NEW d \in Nat, NEW seen, SetDate(m, d, seen),
         UNCHANGED <<appts, papers, today>>
  PROVE  VisitsOK' /\ (d # seen => file'[m].date = d)
  <1>1. file[m] \in File
    BY DEF VisitsOK
  <1>2. [file[m] EXCEPT !.date = d] \in File
    BY <1>1 DEF File
  <1>3. file' = IF d = seen THEN file ELSE [file EXCEPT ![m] = [file[m] EXCEPT !.date = d]]
    BY DEF SetDate
  <1>4. file' \in [Missionary -> File]
    BY <1>2, <1>3 DEF VisitsOK
  <1>5. d # seen => file'[m] = [file[m] EXCEPT !.date = d]
    BY <1>3 DEF VisitsOK
  <1>6. d # seen => file'[m].date = d
    BY <1>1, <1>5 DEF File
  <1> QED
    BY <1>4, <1>6 DEF VisitsOK

LEMMA WriteDateIs ==
  ASSUME TypeInv, NEW r \in Request, WriteDate(r)
  PROVE  TypeInv' /\ TasksStep
  <1> DEFINE j == job[r]
             next == [at |-> "readDate", who |-> j.who]
  <1>1. j \in Dating
    BY RequestIs, JobIs DEF WriteDate
  <1>2. j.who \in Missionary /\ j.date \in Nat
    BY <1>1, OfficeAssumption DEF Dating
  <1>3. next \in Job /\ \A ts, as : Refers(next, ts, as)
    BY <1>2 DEF Job, Telling, Refers, Saving
  <1>4. SetDate(j.who, j.date, j.loaded) /\ UNCHANGED <<tasks, groups, appts, papers,
                                                        today>>
        /\ Goes(r, next)
    BY DEF WriteDate
  <1>5. VisitsOK'
    BY <1>2, <1>4, SetDateIs DEF TypeInv
  <1>6. GroupsOK' /\ TasksOK' /\ Changes(tasks, tasks')
    BY <1>4, NoRowChanges DEF TypeInv, GroupsOK
  <1> HIDE DEF next
  <1> QED
    BY <1>3, <1>4, <1>5, <1>6, Writes

LEMMA ReadDateIs ==
  ASSUME TypeInv, NEW r \in Request, ReadDate(r)
  PROVE  TypeInv' /\ TasksStep
  <1> DEFINE m == job[r].who
             go == [at |-> "sync", who |-> m, date |-> file[m].date]
             next == IF file[m].date = NoDate THEN Idle ELSE go
  <1>1. job[r] \in Telling
    BY RequestIs, JobIs DEF ReadDate
  <1>2. m \in Missionary /\ file[m].date \in Nat
    BY <1>1 DEF Telling, TypeInv, VisitsOK, File
  <1>3. go \in Job /\ Refers(go, tasks, appts)
    BY <1>2 DEF Job, Syncing, Refers, Saving
  <1>4. Goes(r, next) /\ UNCHANGED tables
    BY DEF ReadDate
  <1> HIDE DEF go
  <1> QED
    BY <1>3, <1>4, IdleIs, Reads

LEMMA SyncAppointmentsIs ==
  ASSUME TypeInv, NEW r \in Request, SyncAppointments(r)
  PROVE  TypeInv' /\ TasksStep
  <1> DEFINE m == job[r].who
             d == job[r].date
  <1>1. m \in Missionary /\ d \in Nat
    BY RequestIs, JobIs DEF SyncAppointments, Syncing
  <1>2. Sync(m, d) /\ UNCHANGED <<tasks, groups, file, papers, today>> /\ Goes(r, Idle)
    BY DEF SyncAppointments
  <1>3. VisitsOK' /\ DOMAIN appts \subseteq DOMAIN appts'
    BY <1>1, <1>2, SyncIs DEF TypeInv
  <1>4. GroupsOK' /\ TasksOK' /\ Changes(tasks, tasks')
    BY <1>2, NoRowChanges DEF TypeInv, GroupsOK
  <1> QED
    BY <1>2, <1>3, <1>4, IdleIs, Writes

LEMMA MarkAppointmentIs ==
  ASSUME TypeInv, NEW r \in Request, NEW a \in DOMAIN appts, NEW to \in {"COMPLETED", "MISSED"},
         MarkAppointment(r, a, to)
  PROVE  TypeInv' /\ TasksStep
  <1> DEFINE next == [at |-> "mark", appt |-> a, to |-> to, loaded |-> file[appts[a].who].date]
  <1>1. a \in Nat /\ appts[a].who \in Missionary
    BY AppointmentIs DEF TypeInv, Appointment
  <1>2. file[appts[a].who].date \in Nat
    BY <1>1 DEF TypeInv, VisitsOK, File
  <1>3. next \in Job /\ Refers(next, tasks, appts)
    BY <1>1, <1>2 DEF Job, Marking, Refers, Saving
  <1>4. Begins(r, next) /\ Spend("edit", MaxEdit) /\ UNCHANGED tables
    BY DEF MarkAppointment
  <1>5. SpentOK'
    BY <1>4, AloneIs, SpendIs DEF TypeInv, SpentOK
  <1> HIDE DEF next
  <1> QED
    BY <1>3, <1>4, <1>5, Reads

LEMMA WriteMarkIs ==
  ASSUME TypeInv, NEW r \in Request, WriteMark(r)
  PROVE  TypeInv' /\ TasksStep
  <1> DEFINE j == job[r]
             go == [at |-> "followUp", who |-> appts[j.appt].who]
             next == IF j.to = "MISSED" THEN go ELSE Idle
  <1>1. j \in Marking /\ Refers(j, tasks, appts) /\ j.at = "mark"
    BY RequestIs, JobIs DEF WriteMark
  <1>2. j.appt \in DOMAIN appts /\ j.to \in {"COMPLETED", "MISSED"}
    BY <1>1 DEF Refers, Marking
  <1>3. appts[j.appt].who \in Missionary
    BY <1>2, AppointmentIs DEF TypeInv, Appointment
  <1>4. Mark(j.appt, j.to, j.loaded) /\ UNCHANGED <<tasks, groups, today>> /\ Goes(r,
                                                    next)
    BY DEF WriteMark
  <1>5. VisitsOK' /\ DOMAIN appts' = DOMAIN appts
    BY <1>2, <1>4, MarkIs DEF TypeInv
  <1>6. GroupsOK' /\ TasksOK' /\ Changes(tasks, tasks')
    BY <1>4, NoRowChanges DEF TypeInv, GroupsOK
  <1>7. go \in Job /\ \A ts, as : Refers(go, ts, as)
    BY <1>3 DEF Job, Telling, Refers, Saving
  <1> HIDE DEF go
  <1> QED
    BY <1>4, <1>5, <1>6, <1>7, IdleIs, Writes

LEMMA FollowUpIs ==
  ASSUME TypeInv, NEW r \in Request, FollowUp(r)
  PROVE  TypeInv' /\ TasksStep
  <1>1. job[r].who \in Missionary
    BY RequestIs, JobIs DEF FollowUp, Telling
  <1>2. InsertTask(NoKey, {job[r].who}, NoGroup) /\ OnlyTasks /\ Goes(r, Idle)
    BY DEF FollowUp
  <1>3. UNCHANGED groups /\ UNCHANGED appts /\ GroupsOK' /\ VisitsOK'
    BY <1>2 DEF OnlyTasks, TypeInv, GroupsOK, VisitsOK
  <1>4. TasksOK' /\ Changes(tasks, tasks')
    <2>1. CanInsert(NoGroup) /\ NoKey \in TaskKey /\ {job[r].who} \in SUBSET Missionary
          /\ NoGroup \in Nat
      BY <1>1 DEF CanInsert, Exists, TaskKey, NoGroup
    <2> QED
      BY <1>2, <1>3, <2>1, InsertIs DEF TypeInv
  <1> QED
    BY <1>2, <1>3, <1>4, IdleIs, Writes

-----------------------------------------------------------------------------
(* Everything else *)

LEMMA NobodyIsAlone ==
  ASSUME Disturbed
  PROVE  alone' \in [Request -> BOOLEAN] /\ \A s \in Request : ~ alone'[s]
  BY DEF Disturbed

LEMMA DocumentIs ==
  ASSUME TypeInv, NEW m \in Missionary, Document(m)
  PROVE  TypeInv' /\ TasksStep
  <1>1. UNCHANGED <<tasks, groups, appts, today, job>> /\ Spend("world",
                    MaxWorld) /\ Disturbed
    BY DEF Document
  <1>2. /\ [file[m] EXCEPT !.approved = ~ @] \in File
        /\ [file[m] EXCEPT !.ficha = TRUE] \in File
    BY DEF TypeInv, VisitsOK, File
  <1>3. \/ file' = [file EXCEPT ![m] = [file[m] EXCEPT !.approved = ~ @]] /\ UNCHANGED papers
        \/ file' = [file EXCEPT ![m] = [file[m] EXCEPT !.ficha = TRUE]] /\ UNCHANGED papers
        \/ papers' = [papers EXCEPT ![m] = TRUE] /\ UNCHANGED file
    BY DEF Document
  <1>4. file' \in [Missionary -> File] /\ papers' \in [Missionary -> BOOLEAN]
    BY <1>2, <1>3 DEF TypeInv, VisitsOK
  <1>5. VisitsOK' /\ GroupsOK'
    BY <1>1, <1>4 DEF TypeInv, VisitsOK, GroupsOK
  <1>6. TasksOK' /\ Changes(tasks, tasks')
    BY <1>1, NoRowChanges DEF TypeInv
  <1>7. JobsOK'
    BY <1>1, <1>6, JobsStay DEF TypeInv, Changes
  <1>8. SpentOK'
    BY <1>1, NobodyIsAlone, SpendIs DEF TypeInv, SpentOK
  <1> QED
    BY <1>5, <1>6, <1>7, <1>8 DEF TypeInv, TasksStep, Changes

LEMMA DayPassesIs ==
  ASSUME TypeInv, DayPasses
  PROVE  TypeInv' /\ TasksStep
  <1>1. UNCHANGED <<tasks, groups, appts, file, papers, job>> /\ Spend("world",
                    MaxWorld) /\ Disturbed
        /\ today' = today + 1
    BY DEF DayPasses
  <1>2. VisitsOK' /\ GroupsOK'
    BY <1>1 DEF TypeInv, VisitsOK, GroupsOK
  <1>3. TasksOK' /\ Changes(tasks, tasks')
    BY <1>1, NoRowChanges DEF TypeInv
  <1>4. JobsOK'
    BY <1>1, <1>3, JobsStay DEF TypeInv, Changes
  <1>5. SpentOK'
    BY <1>1, NobodyIsAlone, SpendIs DEF TypeInv, SpentOK
  <1> QED
    BY <1>2, <1>3, <1>4, <1>5 DEF TypeInv, TasksStep, Changes

\* Only the requests change, and they know what they knew.
LEMMA OnlyJobs ==
  ASSUME TypeInv, UNCHANGED tables, JobsOK', Spend("fault", MaxFault), Disturbed
  PROVE  TypeInv' /\ TasksStep /\ spent'.fault # 0
  <1>1. UNCHANGED <<tasks, groups, appts, file, papers, today>>
    BY DEF tables
  <1>2. VisitsOK' /\ GroupsOK'
    BY <1>1 DEF TypeInv, VisitsOK, GroupsOK
  <1>3. TasksOK' /\ Changes(tasks, tasks')
    BY <1>1, NoRowChanges DEF TypeInv
  <1>4. SpentOK' /\ spent'.fault # 0
    BY NobodyIsAlone, SpendIs DEF TypeInv, SpentOK
  <1> QED
    BY <1>2, <1>3, <1>4 DEF TypeInv, TasksStep, Changes

LEMMA CrashIs ==
  ASSUME TypeInv, Crash
  PROVE  TypeInv' /\ TasksStep /\ spent'.fault # 0
  <1>1. JobsOK'
    BY IdleIs DEF Crash, JobsOK
  <1> QED
    BY <1>1, OnlyJobs DEF Crash

LEMMA FailsIs ==
  ASSUME TypeInv, NEW r \in Request, Fails(r)
  PROVE  TypeInv' /\ TasksStep /\ spent'.fault # 0
  <1> DEFINE j == job[r]
  <1>1. j \in Job /\ Refers(j, tasks, appts) /\ UNCHANGED tables
    BY RequestIs DEF Fails
  <1>2. RowsStay(tasks, tasks') /\ DOMAIN appts \subseteq DOMAIN appts'
    BY <1>1 DEF tables, RowsStay
  <1>3. CASE /\ j.at = "replace"
             /\ \E keys \in j.replace : job' = [job EXCEPT ![r].replace = @ \ {keys}]
    <2>1. PICK keys \in j.replace : job' = [job EXCEPT ![r] = [j EXCEPT !.replace = @ \ {keys}]]
      BY <1>3
    <2>2. j \in Replacing
      BY <1>1, <1>3, JobIs
    <2>3. /\ [j EXCEPT !.replace = @ \ {keys}] \in Job
          /\ \A ts, as : Refers([j EXCEPT !.replace = @ \ {keys}], ts, as)
      BY <2>2 DEF Replacing, Job, Refers, Saving
    <2> QED
      BY <1>2, <2>1, <2>3, JobMoves, OnlyJobs DEF TypeInv, Fails
  <1>4. CASE j.at \in {"saveGroup", "insert", "save"} /\ job' = [job EXCEPT ![r] = Remaining(@, @.todo)]
    <2>1. j \in Settling
      BY <1>1, <1>4, JobIs DEF Saving
    <2>2. Remaining(j, j.todo) \in Job /\ \A ts, as : Refers(Remaining(j, j.todo), ts, as)
      BY <2>1, RemainingIs DEF Settling
    <2>3. job' = [job EXCEPT ![r] = Remaining(j, j.todo)]
      BY <1>4
    <2> QED
      BY <1>2, <2>2, <2>3, JobMoves, OnlyJobs DEF TypeInv, Fails
  <1>5. CASE job' = [job EXCEPT ![r] = Idle]
    BY <1>2, <1>5, IdleIs, JobMoves, OnlyJobs DEF TypeInv, Fails
  <1> QED
    BY <1>3, <1>4, <1>5 DEF Fails

-----------------------------------------------------------------------------
(* Types, and what a step does to the tasks *)

LEMMA TypeInit == Init => TypeInv
  <1> SUFFICES ASSUME Init PROVE TypeInv
    OBVIOUS
  <1>1. TasksOK /\ GroupsOK
    BY FS_EmptySet DEF Init, TasksOK, GroupsOK
  <1>2. VisitsOK
    BY OfficeAssumption DEF Init, VisitsOK, File, NoDate
  <1>3. JobsOK /\ SpentOK
    BY IdleIs DEF Init, JobsOK, SpentOK
  <1> QED
    BY <1>1, <1>2, <1>3 DEF TypeInv

\* Which step a step is: every theorem about Next is proved along these cases.
LEMMA StepIs ==
  ASSUME [Next]_vars
  PROVE  \/ \E r \in Request : Start(r) \/ Automation(r) \/ TaskWork(r) \/ Visit(r) \/ Fails(r)
         \/ DayPasses \/ Crash \/ \E m \in Missionary : Document(m)
         \/ UNCHANGED vars
  BY DEF Next, World, Serve

LEMMA TypeNext ==
  ASSUME TypeInv, [Next]_vars
  PROVE  TypeInv' /\ TasksStep
  <1>1. CASE UNCHANGED vars
    <2>1. UNCHANGED <<tasks, groups, appts, file, papers, today, job, alone, spent>>
      BY <1>1 DEF vars, tables
    <2>2. TasksOK' /\ Changes(tasks, tasks')
      BY <2>1, NoRowChanges DEF TypeInv
    <2>3. VisitsOK' /\ GroupsOK' /\ SpentOK'
      BY <2>1 DEF TypeInv, VisitsOK, GroupsOK, SpentOK
    <2>4. JobsOK'
      BY <2>1, <2>2, JobsStay DEF TypeInv, Changes
    <2> QED
      BY <2>2, <2>3, <2>4 DEF TypeInv, TasksStep, Changes
  <1>2. CASE DayPasses \/ Crash \/ \E m \in Missionary : Document(m)
    BY <1>2, DayPassesIs, CrashIs, DocumentIs
  <1>3. ASSUME NEW r \in Request, Start(r) PROVE TypeInv' /\ TasksStep
    BY <1>3, RunIs, DeleteTaskIs, ChangeTaskIs, UpdateDateIs, MarkAppointmentIs
       DEF Start
  <1>4. ASSUME NEW r \in Request, Automation(r) PROVE TypeInv' /\ TasksStep
    BY <1>4, ReplaceSinglesIs, LookIs, FindGroupIs, EnsureGroupIs, ScopeIs, InsertStep,
       LoadIs,
       UpdateStep, ListIs, ArchiveObsoleteIs DEF Automation
  <1>5. ASSUME NEW r \in Request, TaskWork(r) \/ Visit(r) \/ Fails(r) PROVE TypeInv' /\ TasksStep
    BY <1>5, WriteStatusIs, CleanupIs, CleanupGroupIs, WriteDateIs, ReadDateIs,
       SyncAppointmentsIs,
       WriteMarkIs, FollowUpIs, FailsIs DEF TaskWork, Visit
  <1> QED
    BY <1>1, <1>2, <1>3, <1>4, <1>5, StepIs

(* What a request has read and will write again is still there: its task,  *)
(* with the key of its payload, and its appointment.  Rows of              *)
(* secretary_tasks and appointments never go, and groups only when no task *)
(* names them (the foreign keys of database/db.py).                        *)
THEOREM OfficeInvariant == Spec => []TypeInv
  <1>1. Init => TypeInv
    BY TypeInit
  <1>2. TypeInv /\ [Next]_vars => TypeInv'
    BY TypeNext
  <1> QED
    BY <1>1, <1>2, PTL DEF Spec

(* The tables have their types, and a task names a group that exists,      *)
(* whatever was read before it went.                                       *)
THEOREM OfficeTyped == Spec => []OfficeTypeOK
  <1>1. TypeInv => OfficeTypeOK
    <2> SUFFICES ASSUME TypeInv PROVE OfficeTypeOK
      OBVIOUS
    <2>1. TaskRow \subseteq Task
      <3>1. AutoKey \subseteq [rule : {"none", "gvm", "ficha", "prorroga", "group"}, of : Nat, at : Int]
        BY DEF AutoKey, Rules
      <3>2. NoKey \in [rule : {"none", "gvm", "ficha", "prorroga", "group"}, of : Nat, at : Int]
        BY DEF NoKey, Key
      <3>4. TaskKey \subseteq [rule : {"none", "gvm", "ficha", "prorroga", "group"}, of : Nat, at : Int]
        BY <3>1, <3>2 DEF TaskKey
      <3> QED
        BY <3>4 DEF TaskRow, Task
    <2>2. tasks \in Seq(TaskRow) /\ Len(tasks) \in Nat /\ DOMAIN tasks = 1 .. Len(tasks)
      BY TaskIs DEF TypeInv, TasksOK
    <2>3. tasks \in Seq(Task)
      BY <2>1, <2>2
    <2>4. \A t \in DOMAIN tasks : tasks[t].group = NoGroup \/ tasks[t].group \in DOMAIN groups
      BY DEF TypeInv, TasksOK, There
    <2>5. \A g \in DOMAIN groups : groups[g].who \subseteq Missionary
      BY DEF TypeInv, GroupsOK, GroupRow
    <2> QED
      BY <2>3, <2>4, <2>5 DEF OfficeTypeOK, TypeInv, VisitsOK
  <1> QED
    BY <1>1, OfficeInvariant, PTL

(* What somebody has completed or archived does not come back: a closed    *)
(* task is opened by a request to reopen it and by nothing else, though a  *)
(* run writes to tasks that it saw open (_update_task of                   *)
(* secretary_work_service.py leaves the status alone).                     *)
THEOREM ClosedIsFinal == Spec => ClosedStaysClosed
  <1>1. TypeInv /\ [Next]_vars =>
          [\A t \in DOMAIN tasks :
             tasks[t].status # "OPEN" /\ tasks'[t].status = "OPEN" =>
               \E r \in Request : /\ job[r].at = "status" /\ job[r].task = t /\ job[r].to = "OPEN"
                                  /\ job'[r] # job[r]]_vars
    BY TypeNext DEF TasksStep, Opened
  <1> QED
    BY <1>1, OfficeInvariant, PTL DEF Spec, ClosedStaysClosed

-----------------------------------------------------------------------------
(* Appointments *)

\* Three steps are about appointments and what follows from them; the others leave the
\* appointments alone, and the requests that are to write a follow-up task.
FollowsUp(j) == j.at = "followUp"

LEMMA MostSteps ==
  ASSUME TypeInv, [Next]_vars
  PROVE  \/ \E r \in Request : SyncAppointments(r) \/ WriteMark(r) \/ FollowUp(r)
         \/ /\ UNCHANGED appts
            /\ spent'.fault # spent.fault => spent'.fault # 0
            /\ spent'.fault = spent.fault =>
                 \A s \in Request : FollowsUp(job[s]) => job'[s] = job[s]
  <1> DEFINE Quiet == /\ UNCHANGED appts
                      /\ spent'.fault # spent.fault => spent'.fault # 0
                      /\ spent'.fault = spent.fault =>
                           \A s \in Request : FollowsUp(job[s]) => job'[s] = job[s]
  <1>0. spent.fault \in Nat /\ SpentOK /\ job \in [Request -> Job]
    BY DEF TypeInv, SpentOK, JobsOK
  <1>1. ASSUME NEW r \in Request, NEW next, job' = [job EXCEPT ![r] = next], ~ FollowsUp(job[r])
        PROVE  \A s \in Request : FollowsUp(job[s]) => job'[s] = job[s]
    BY <1>0, <1>1
  <1>2. ASSUME NEW r \in Request, Fails(r) PROVE Quiet
    <2>1. spent'.fault # 0 /\ UNCHANGED appts
      BY <1>2, FailsIs DEF Fails, tables
    <2>2. spent'.fault = spent.fault + 1
      BY <1>2, <1>0 DEF Fails, Spend, SpentOK
    <2> QED
      BY <1>0, <2>1, <2>2
  <1>3. ASSUME Crash PROVE Quiet
    <2>1. spent'.fault # 0 /\ UNCHANGED appts
      BY <1>3, CrashIs DEF Crash, tables
    <2>2. spent'.fault = spent.fault + 1
      BY <1>3, <1>0 DEF Crash, Spend, SpentOK
    <2> QED
      BY <1>0, <2>1, <2>2
  <1>4. ASSUME DayPasses \/ \E m \in Missionary : Document(m) PROVE Quiet
    <2>1. UNCHANGED <<appts, job>> /\ Spend("world", MaxWorld)
      BY <1>4 DEF DayPasses, Document
    <2>2. spent'.fault = spent.fault
      BY <1>0, <2>1, SpendIs
    <2> QED
      BY <2>1, <2>2
  <1>5. ASSUME NEW r \in Request, NEW next, Goes(r, next), ~ FollowsUp(job[r]), UNCHANGED appts
        PROVE  Quiet
    BY <1>1, <1>5 DEF Goes, Moves
  <1>6. ASSUME NEW r \in Request, NEW next, NEW what \in {"run", "edit"}, NEW max, Begins(r, next),
               Spend(what, max), job[r] = Idle, UNCHANGED tables
        PROVE  Quiet
    <2>1. ~ FollowsUp(job[r]) /\ UNCHANGED appts /\ spent'.fault = spent.fault
      BY <1>0, <1>6, SpendIs DEF FollowsUp, Idle, tables
    <2> QED
      BY <1>1, <1>6, <2>1 DEF Begins
  <1> HIDE DEF Quiet
  <1>7. ASSUME NEW r \in Request, Start(r) PROVE Quiet
    BY <1>6, <1>7 DEF Start, Run, DeleteTask, ChangeTask, UpdateDate, MarkAppointment
  <1>8. ASSUME NEW r \in Request, ReplaceSingles(r) \/ Look(r) \/ FindGroup(r) \/ EnsureGroup(r)
        PROVE  Quiet
    BY <1>5, <1>8 DEF ReplaceSingles, Look, FindGroup, EnsureGroup, OnlyTasks,
       OnlyGroups, tables, FollowsUp
  <1>9. ASSUME NEW r \in Request, Scope(r) \/ Insert(r) \/ Load(r) \/ Update(r)
        PROVE  Quiet
    BY <1>5, <1>9 DEF Scope, Insert, Load, Update, OnlyTasks, tables, FollowsUp
  <1>10. ASSUME NEW r \in Request, List(r) \/ ArchiveObsolete(r) \/ Cleanup(r) \/ CleanupGroup(r)
         PROVE  Quiet
    BY <1>5, <1>10 DEF List, ArchiveObsolete, Cleanup, CleanupGroup, TasksAndGroups,
       tables, FollowsUp
  <1>11. ASSUME NEW r \in Request, WriteStatus(r) \/ WriteDate(r) \/ ReadDate(r)
         PROVE  Quiet
    BY <1>5, <1>11 DEF WriteStatus, WriteDate, ReadDate, OnlyTasks, tables, FollowsUp
  <1>12. ASSUME UNCHANGED vars PROVE Quiet
    BY <1>12 DEF vars, tables, Quiet
  <1>13. Quiet \/ \E r \in Request : SyncAppointments(r) \/ WriteMark(r) \/ FollowUp(r)
    <2>1. CASE DayPasses \/ Crash \/ (\E m \in Missionary : Document(m)) \/ UNCHANGED vars
      <3>1. CASE DayPasses \/ \E m \in Missionary : Document(m)
        BY <1>4, <3>1
      <3> QED
        BY <2>1, <3>1, <1>3, <1>12
    <2>2. CASE \E r \in Request : Start(r) \/ Automation(r) \/ TaskWork(r) \/ Visit(r) \/ Fails(r)
      BY <2>2, <1>2, <1>7, <1>8, <1>9, <1>10, <1>11 DEF Automation, TaskWork, Visit
    <2> QED
      BY <2>1, <2>2, StepIs
  <1> QED
    BY <1>13 DEF Quiet

OneEach == \A m \in Missionary : \A a, b \in Scheduled(m) : a = b

(* A missionary never has two appointments scheduled: each                 *)
(* synchronisation closes all but those of its own date in the transaction *)
(* that schedules it (sync_from_missionary_dates).                         *)
THEOREM OneAppointment == Spec => []OneScheduled
  <1>1. Init => OneEach
    BY DEF Init, OneEach, Scheduled
  <1>2. ASSUME TypeInv, OneEach, [Next]_vars
        PROVE  OneEach'
    <2>1. ASSUME NEW r \in Request, SyncAppointments(r)
          PROVE  OneEach'
      <3>1. PICK m \in Missionary : m = job[r].who
        BY <1>2, <2>1, RequestIs, JobIs DEF SyncAppointments, Syncing
      <3>2. job[r].date \in Nat /\ Sync(m, job[r].date) /\ UNCHANGED <<file, papers,
                                                                       today>>
        BY <1>2, <2>1, <3>1, RequestIs, JobIs DEF SyncAppointments, Syncing
      <3>3. /\ \A k \in Missionary \ {m} : Scheduled(k)' = Scheduled(k)
            /\ Scheduled(m)' \subseteq Scheduled(m) \/ Scheduled(m)' = {Len(appts) + 1}
        BY <1>2, <3>2, SyncIs DEF TypeInv
      <3> QED
        BY <1>2, <3>3 DEF OneEach
    <2>2. ASSUME NEW r \in Request, WriteMark(r)
          PROVE  OneEach'
      <3>1. job[r].appt \in DOMAIN appts /\ job[r].to \in {"COMPLETED", "MISSED"}
        BY <1>2, <2>2, RequestIs, JobIs DEF WriteMark, Marking, Refers
      <3>2. \A k \in Missionary : Scheduled(k)' \subseteq Scheduled(k)
        BY <1>2, <2>2, <3>1, MarkIs DEF WriteMark, TypeInv
      <3> QED
        BY <1>2, <3>2 DEF OneEach
    <2>3. CASE UNCHANGED appts
      BY <1>2, <2>3 DEF OneEach, Scheduled
    <2> QED
      BY <1>2, <2>1, <2>2, <2>3, MostSteps DEF FollowUp, OnlyTasks
  <1>3. OneEach => OneScheduled
    <2> SUFFICES ASSUME OneEach, NEW m \in Missionary PROVE Cardinality(Scheduled(m)) <= 1
      BY DEF OneScheduled
    <2>1. CASE Scheduled(m) = {}
      <3>1. Cardinality(Scheduled(m)) = 0
        BY <2>1, FS_EmptySet
      <3> QED
        BY <3>1
    <2>2. CASE Scheduled(m) # {}
      <3>1. PICK a \in Scheduled(m) : Scheduled(m) = {a}
        BY <2>2 DEF OneEach
      <3>2. Cardinality(Scheduled(m)) = 1
        BY <3>1, FS_Singleton
      <3> QED
        BY <3>2
    <2> QED
      BY <2>1, <2>2
  <1> QED
    BY <1>1, <1>2, <1>3, OfficeInvariant, PTL DEF Spec

-----------------------------------------------------------------------------
(* What follows a missed appointment *)

Follow(m)   == {t \in DOMAIN tasks : tasks[t].key = NoKey /\ tasks[t].who = {m}}
Promises(m) == {r \in Request : job[r].at = "followUp" /\ job[r].who = m}
Promised(m) == Cardinality(Missed(m)) <= Cardinality(Follow(m)) + Cardinality(Promises(m))
AllPromised == spent.fault = 0 => \A m \in Missionary : Promised(m)

AllFinite ==
  \A m \in Missionary : /\ IsFiniteSet(Missed(m)) /\ Cardinality(Missed(m)) \in Nat
                        /\ IsFiniteSet(Follow(m)) /\ Cardinality(Follow(m)) \in Nat
                        /\ IsFiniteSet(Promises(m)) /\ Cardinality(Promises(m)) \in Nat

LEMMA FinitelyMany == TypeInv => AllFinite
  <1> SUFFICES ASSUME TypeInv PROVE AllFinite
    OBVIOUS
  <1>1. IsFiniteSet(DOMAIN appts)
    BY AppointmentIs, FS_Interval DEF TypeInv
  <1>2. IsFiniteSet(DOMAIN tasks)
    BY TaskIs, FS_Interval DEF TypeInv, TasksOK
  <1>3. \A m : IsFiniteSet(Missed(m)) /\ IsFiniteSet(Follow(m)) /\ IsFiniteSet(Promises(m))
    BY <1>1, <1>2, OfficeAssumption, FS_Subset DEF Missed, Follow, Promises
  <1> QED
    BY <1>3, FS_CardinalityType DEF AllFinite

LEMMA StillFinitelyMany == TypeInv' => AllFinite'
  BY FinitelyMany, PTL

LEMMA FewerMissed ==
  ASSUME TypeInv, TypeInv', NEW m \in Missionary, Promised(m), Missed(m)' \subseteq Missed(m),
         Follow(m) \subseteq Follow(m)', Promises(m) \subseteq Promises(m)'
  PROVE  Promised(m)'
  <1>1. IsFiniteSet(Missed(m)) /\ IsFiniteSet(Follow(m)') /\ IsFiniteSet(Promises(m)')
        /\ Cardinality(Missed(m)') \in Nat /\ Cardinality(Follow(m)') \in Nat
        /\ Cardinality(Promises(m)') \in Nat
        /\ Cardinality(Missed(m)) \in Nat /\ Cardinality(Follow(m)) \in Nat
        /\ Cardinality(Promises(m)) \in Nat
    BY FinitelyMany, StillFinitelyMany DEF AllFinite
  <1>2. /\ Cardinality(Missed(m)') <= Cardinality(Missed(m))
        /\ Cardinality(Follow(m)) <= Cardinality(Follow(m)')
        /\ Cardinality(Promises(m)) <= Cardinality(Promises(m)')
    BY <1>1, FS_Subset
  <1> QED
    BY <1>1, <1>2 DEF Promised

LEMMA FollowStays ==
  ASSUME RowsStay(tasks, tasks'), NEW m
  PROVE  Follow(m) \subseteq Follow(m)'
  BY DEF RowsStay, Follow

(* A missed appointment has its follow-up task, or a request that is about *)
(* to create it, one for each, until a transaction fails or the server     *)
(* stops (miss_appointment writes the two in two sessions).                *)
THEOREM FollowUpsAreKept == Spec => []FollowUpPromised
  <1>1. Init => AllPromised
    <2> SUFFICES ASSUME Init, NEW m \in Missionary PROVE Promised(m)
      BY DEF AllPromised
    <2>1. TypeInv
      BY TypeInit
    <2>2. Missed(m) = {}
      BY DEF Init, Missed
    <2> QED
      BY <2>1, <2>2, FinitelyMany, FS_EmptySet DEF AllFinite, Promised
  <1>2. ASSUME TypeInv, AllPromised, [Next]_vars, spent'.fault = 0, NEW m \in Missionary
        PROVE  Promised(m)'
    <2>0. TypeInv' /\ RowsStay(tasks, tasks') /\ Follow(m) \subseteq Follow(m)'
      BY <1>2, TypeNext, FollowStays DEF TasksStep
    <2>1. ASSUME NEW r \in Request, SyncAppointments(r)
          PROVE  Promised(m)'
      <3>1. job[r].who \in Missionary /\ job[r].date \in Nat
        BY <1>2, <2>1, RequestIs, JobIs DEF SyncAppointments, Syncing
      <3>2. Missed(m)' = Missed(m)
        BY <1>2, <2>1, <3>1, SyncIs DEF SyncAppointments, TypeInv
      <3>3. Promises(m) \subseteq Promises(m)' /\ spent.fault = 0
        BY <1>2, <2>1 DEF SyncAppointments, Goes, Moves, Promises, TypeInv, JobsOK
      <3> QED
        BY <1>2, <2>0, <3>2, <3>3, FewerMissed DEF AllPromised
    <2>2. ASSUME NEW r \in Request, WriteMark(r)
          PROVE  Promised(m)'
      <3> DEFINE a == job[r].appt
      <3>0. job[r].at = "mark" /\ Mark(a, job[r].to, job[r].loaded) /\ spent.fault = 0 /\ UNCHANGED today
        BY <1>2, <2>2 DEF WriteMark, Goes
      <3>1. a \in DOMAIN appts /\ job[r].to \in {"COMPLETED", "MISSED"}
        BY <1>2, <2>2, <3>0, RequestIs, JobIs DEF Marking, Refers
      <3>2. /\ Missed(m)' \subseteq Missed(m) \cup {a}
            /\ a \in Missed(m)' => m = appts[a].who /\ job[r].to = "MISSED"
        BY <1>2, <3>0, <3>1, MarkIs DEF TypeInv
      <3>3. r \notin Promises(m) /\ Promises(m) \subseteq Promises(m)'
        BY <1>2, <2>2, <3>0 DEF WriteMark, Goes, Moves, Promises, TypeInv, JobsOK
      <3>4. Promised(m)
        BY <1>2, <3>0 DEF AllPromised
      <3>5. CASE a \notin Missed(m)'
        BY <1>2, <2>0, <3>2, <3>3, <3>4, <3>5, FewerMissed
      <3>6. CASE a \in Missed(m)'
        <4>1. job'[r] = [at |-> "followUp", who |-> appts[a].who]
          BY <1>2, <2>2, <3>2, <3>6 DEF WriteMark, Goes, Moves, TypeInv, JobsOK
        <4>2. Promises(m) \cup {r} \subseteq Promises(m)'
          BY <3>2, <3>3, <3>6, <4>1 DEF Promises
        <4>3. /\ IsFiniteSet(Missed(m)) /\ IsFiniteSet(Promises(m)) /\ IsFiniteSet(Follow(m)')
              /\ IsFiniteSet(Promises(m)')
              /\ Cardinality(Missed(m)) \in Nat /\ Cardinality(Follow(m)) \in Nat
              /\ Cardinality(Promises(m)) \in Nat /\ Cardinality(Follow(m)') \in Nat
              /\ Cardinality(Promises(m)') \in Nat /\ Cardinality(Missed(m)') \in Nat
          BY <1>2, <2>0, FinitelyMany, StillFinitelyMany DEF AllFinite
        <4>4. Cardinality(Promises(m)) + 1 <= Cardinality(Promises(m)')
          <5>1. Cardinality(Promises(m) \cup {r}) = Cardinality(Promises(m)) + 1
            BY <3>3, <4>3, FS_AddElement
          <5> QED
            BY <4>2, <4>3, <5>1, FS_Subset
        <4>5. Cardinality(Missed(m)') <= Cardinality(Missed(m)) + 1
          <5>1. IsFiniteSet(Missed(m) \cup {a}) /\ Cardinality(Missed(m) \cup {a}) <= Cardinality(Missed(m)) + 1
            <6>1. CASE a \in Missed(m)
              <7>1. Missed(m) \cup {a} = Missed(m)
                BY <6>1
              <7>2. IsFiniteSet(Missed(m)) /\ Cardinality(Missed(m)) <= Cardinality(Missed(m)) + 1
                BY <4>3
              <7> QED
                BY <7>1, <7>2
            <6>2. CASE a \notin Missed(m)
              <7>1. /\ IsFiniteSet(Missed(m) \cup {a})
                    /\ Cardinality(Missed(m) \cup {a}) = Cardinality(Missed(m)) + 1
                BY <4>3, <6>2, FS_AddElement
              <7> QED
                BY <4>3, <7>1
            <6> QED
              BY <6>1, <6>2
          <5>2. Cardinality(Missed(m)') <= Cardinality(Missed(m) \cup {a})
            BY <3>2, <5>1, FS_Subset
          <5>3. Cardinality(Missed(m) \cup {a}) \in Nat
            BY <5>1, FS_CardinalityType
          <5> QED
            BY <4>3, <5>1, <5>2, <5>3
        <4>6. Cardinality(Follow(m)) <= Cardinality(Follow(m)')
          BY <2>0, <4>3, FS_Subset
        <4> QED
          BY <3>4, <4>3, <4>4, <4>5, <4>6 DEF Promised
      <3> QED
        BY <3>5, <3>6
    <2>3. ASSUME NEW r \in Request, FollowUp(r)
          PROVE  Promised(m)'
      <3> DEFINE n == Len(tasks) + 1
      <3>1. job[r].at = "followUp" /\ job[r].who \in Missionary /\ UNCHANGED <<appts,
                                                                               spent, groups>>
            /\ InsertTask(NoKey, {job[r].who}, NoGroup) /\ Goes(r, Idle)
        BY <1>2, <2>3, RequestIs, JobIs DEF FollowUp, Telling, OnlyTasks, Goes
      <3>2. Missed(m)' = Missed(m) /\ Promised(m)
        BY <1>2, <3>1 DEF AllPromised, Missed
      <3>3. Promises(m) \ {r} \subseteq Promises(m)'
        BY <1>2, <3>1 DEF Goes, Moves, Promises, TypeInv, JobsOK
      <3>4. CASE r \notin Promises(m)
        BY <1>2, <2>0, <3>2, <3>3, <3>4, FewerMissed
      <3>5. CASE r \in Promises(m)
        <4>1. n \notin DOMAIN tasks /\ n \in DOMAIN tasks'
              /\ tasks'[n] = [key |-> NoKey, status |-> "OPEN", who |-> {job[r].who}, group |-> NoGroup]
          <5>1. CanInsert(NoGroup) /\ NoKey \in TaskKey /\ {job[r].who} \in SUBSET Missionary
                /\ NoGroup \in Nat
            BY <3>1 DEF CanInsert, Exists, TaskKey, NoGroup
          <5> QED
            BY <1>2, <3>1, <5>1, InsertIs DEF TypeInv
        <4>2. Follow(m) \cup {n} \subseteq Follow(m)' /\ n \notin Follow(m)
          BY <2>0, <3>5, <4>1 DEF Follow, Promises
        <4>3. /\ IsFiniteSet(Follow(m)) /\ IsFiniteSet(Promises(m)) /\ IsFiniteSet(Follow(m)')
              /\ IsFiniteSet(Promises(m)')
              /\ Cardinality(Missed(m)) \in Nat /\ Cardinality(Follow(m)) \in Nat
              /\ Cardinality(Promises(m)) \in Nat /\ Cardinality(Follow(m)') \in Nat
              /\ Cardinality(Promises(m)') \in Nat
          BY <1>2, <2>0, FinitelyMany, StillFinitelyMany DEF AllFinite
        <4>4. Cardinality(Follow(m)) + 1 <= Cardinality(Follow(m)')
          <5>1. Cardinality(Follow(m) \cup {n}) = Cardinality(Follow(m)) + 1
            BY <4>2, <4>3, FS_AddElement
          <5> QED
            BY <4>2, <4>3, <5>1, FS_Subset
        <4>5. Cardinality(Promises(m)) - 1 <= Cardinality(Promises(m)')
          <5>1. Cardinality(Promises(m) \ {r}) = Cardinality(Promises(m)) - 1
            BY <3>5, <4>3, FS_RemoveElement
          <5> QED
            BY <3>3, <4>3, <5>1, FS_Subset
        <4> QED
          BY <3>2, <4>3, <4>4, <4>5 DEF Promised
      <3> QED
        BY <3>4, <3>5
    <2>4. CASE /\ UNCHANGED appts
               /\ spent'.fault # spent.fault => spent'.fault # 0
               /\ spent'.fault = spent.fault =>
                    \A s \in Request : FollowsUp(job[s]) => job'[s] = job[s]
      <3>1. Missed(m)' = Missed(m) /\ Promised(m)
        BY <1>2, <2>4 DEF AllPromised, Missed
      <3>2. Promises(m) \subseteq Promises(m)'
        BY <1>2, <2>4 DEF Promises, FollowsUp
      <3> QED
        BY <1>2, <2>0, <3>1, <3>2, FewerMissed
    <2> QED
      BY <1>2, <2>1, <2>2, <2>3, <2>4, MostSteps
  <1>3. TypeInv /\ AllPromised /\ [Next]_vars => AllPromised'
    BY <1>2 DEF AllPromised
  <1>4. AllPromised => FollowUpPromised
    BY DEF AllPromised, FollowUpPromised, Promised, Missed, Follow, Promises
  <1> QED
    BY <1>1, <1>3, <1>4, OfficeInvariant, PTL DEF Spec

-----------------------------------------------------------------------------
(* A request that is alone *)

\* Only the request itself has taken a step if it is still alone afterwards.
LEMMA OwnStep ==
  ASSUME TypeInv, [Next]_vars, NEW r \in Request, alone'[r]
  PROVE  \/ UNCHANGED vars
         \/ Start(r) /\ job[r] = Idle
         \/ Serve(r) /\ alone[r]
  <1>0. SpentOK
    BY DEF TypeInv
  <1>1. ~ (DayPasses \/ Crash \/ \E m \in Missionary : Document(m))
    BY NobodyIsAlone DEF DayPasses, Crash, Document
  <1>2. \A s \in Request : ~ Fails(s)
    BY NobodyIsAlone DEF Fails
  <1>3. ASSUME NEW s \in Request, NEW next, Begins(s, next) PROVE s = r
    BY <1>0, <1>3, AloneIs
  <1>4. ASSUME NEW s \in Request, NEW next, Goes(s, next) PROVE s = r /\ alone[r]
    BY <1>0, <1>4, AloneIs DEF Goes
  <1>5. ASSUME NEW s \in Request, Start(s) PROVE s = r /\ job[s] = Idle
    BY <1>3, <1>5 DEF Start, Run, DeleteTask, ChangeTask, UpdateDate, MarkAppointment
  <1>6. ASSUME NEW s \in Request, Automation(s) PROVE s = r /\ alone[r]
    BY <1>4, <1>6 DEF Automation, ReplaceSingles, Look, FindGroup, EnsureGroup, Scope,
       Insert, Load,
                      Update, List, ArchiveObsolete
  <1>7. ASSUME NEW s \in Request, TaskWork(s) PROVE s = r /\ alone[r]
    BY <1>4, <1>7 DEF TaskWork, WriteStatus, Cleanup, CleanupGroup
  <1>8. ASSUME NEW s \in Request, Visit(s) PROVE s = r /\ alone[r]
    BY <1>4, <1>8 DEF Visit, WriteDate, ReadDate, SyncAppointments, WriteMark, FollowUp
  <1>9. ASSUME NEW s \in Request, Start(s) \/ Automation(s) \/ TaskWork(s) \/ Visit(s)
        PROVE  (Start(r) /\ job[r] = Idle) \/ (Serve(r) /\ alone[r])
    <2>1. s = r
      BY <1>5, <1>6, <1>7, <1>8, <1>9
    <2> QED
      BY <1>5, <1>6, <1>7, <1>8, <1>9, <2>1 DEF Serve
  <1> QED
    BY <1>1, <1>2, <1>9, StepIs

\* What a request is doing after a step of its own.
LEMMA JobAfter ==
  ASSUME TypeInv, NEW r \in Request, NEW next, Goes(r, next) \/ Begins(r, next)
  PROVE  job'[r] = next
  BY DEF TypeInv, JobsOK, Goes, Moves, Begins

\* Where a request is after its step.
Running == {"replace", "look", "list", "archive"} \cup Saving

LEMMA RunGoes ==
  ASSUME TypeInv, NEW r \in Request, Run(r) \/ Automation(r)
  PROVE  job'[r].at # "sync"
  <1>1. CASE Run(r)
    <2> DEFINE next == [at |-> "replace", replace |-> Replaced(Snapshot), todo |-> Payloads(Snapshot),
                        keys |-> KeysOf(Payloads(Snapshot))]
    <2>1. Begins(r, next) /\ next.at = "replace"
      BY <1>1 DEF Run
    <2> HIDE DEF next
    <2> QED
      BY <2>1, JobAfter
  <1>a. \A j, todo : Remaining(j, todo).at \in {"list", "look"}
    BY DEF Remaining
  <1>b. ASSUME NEW j, NEW at, NEW p, NEW task PROVE At(j, at, p, task).at = at
    BY DEF At
  <1>2. CASE ReplaceSingles(r) \/ Look(r)
    <2>1. CASE ReplaceSingles(r)
      <3>1. job[r] \in Replacing
        BY <2>1, RequestIs, JobIs DEF ReplaceSingles
      <3>2. ASSUME NEW keys PROVE [job[r] EXCEPT !.replace = @ \ {keys}].at = "replace"
        BY <3>1 DEF Replacing
      <3> QED
        BY <1>a, <2>1, <3>2, JobAfter DEF ReplaceSingles
    <2>2. CASE Look(r)
      <3>1. PICK p : Goes(r, IF RowOf(p.key) # NoTask /\ tasks[RowOf(p.key)].status # "OPEN"
                             THEN Remaining(job[r], job[r].todo \ {p})
                             ELSE At(job[r], IF HasGroup(p) THEN "findGroup"
                                             ELSE IF RowOf(p.key) = NoTask THEN "scope" ELSE "load",
                                     p, RowOf(p.key)))
        BY <2>2 DEF Look
      <3> QED
        BY <1>a, <1>b, <3>1, JobAfter
    <2> QED
      BY <1>2, <2>1, <2>2
  <1>3. CASE FindGroup(r) \/ EnsureGroup(r) \/ Scope(r) \/ Load(r)
    <2>1. job[r] \in Settling
      BY <1>3, RequestIs, JobIs DEF FindGroup, EnsureGroup, Scope, Load, Saving
    <2>2. CASE FindGroup(r)
      <3> DEFINE next == [job[r] EXCEPT !.at = "saveGroup", !.group = GroupFor(job[r].payload.key)]
      <3>1. Goes(r, next) /\ next.at = "saveGroup"
        BY <2>1, <2>2 DEF FindGroup, Settling
      <3> HIDE DEF next
      <3> QED
        BY <3>1, JobAfter
    <2>3. CASE EnsureGroup(r)
      <3> DEFINE next == [job[r] EXCEPT !.at = IF job[r].task = NoTask THEN "scope" ELSE "load",
                                        !.group = SavedGroup(job[r].group)]
      <3>1. Goes(r, next) \/ Goes(r, Remaining(job[r], job[r].todo))
        BY <2>3 DEF EnsureGroup
      <3>2. next.at \in {"scope", "load"}
        BY <2>1 DEF Settling
      <3> HIDE DEF next
      <3> QED
        BY <1>a, <3>1, <3>2, JobAfter
    <2>4. CASE Scope(r)
      <3> DEFINE next == [job[r] EXCEPT !.at = "insert",
                                        !.who = IF job[r].group = NoGroup THEN @ ELSE groups[job[r].group].who]
      <3>1. Goes(r, next) \/ Goes(r, Remaining(job[r], job[r].todo))
        BY <2>4 DEF Scope
      <3>2. next.at = "insert"
        BY <2>1 DEF Settling
      <3> HIDE DEF next
      <3> QED
        BY <1>a, <3>1, <3>2, JobAfter
    <2>5. CASE Load(r)
      <3> DEFINE g == tasks[job[r].task].group
                 next == [job[r] EXCEPT !.at = "save", !.loaded = g,
                                        !.who = IF job[r].group \in {NoGroup, g} THEN @
                                                ELSE groups[job[r].group].who]
      <3>1. Goes(r, next) \/ Goes(r, Remaining(job[r], job[r].todo))
        BY <2>5 DEF Load
      <3>2. next.at = "save"
        BY <2>1 DEF Settling
      <3> HIDE DEF next
      <3> QED
        BY <1>a, <3>1, <3>2, JobAfter
    <2> QED
      BY <1>3, <2>2, <2>3, <2>4, <2>5
  <1>4. CASE Insert(r) \/ Update(r) \/ List(r) \/ ArchiveObsolete(r)
    BY <1>a, <1>4, JobAfter DEF Insert, Update, List, ArchiveObsolete, Idle
  <1> QED
    BY <1>1, <1>2, <1>3, <1>4 DEF Automation

LEMMA OtherSteps ==
  ASSUME TypeInv, NEW r \in Request, (Start(r) /\ ~ Run(r)) \/ TaskWork(r) \/ Visit(r)
  PROVE  job'[r].at \notin Running /\ (job'[r].at = "sync" => ReadDate(r))
  <1> DEFINE ats == {"idle", "status", "cleanup", "remove", "date", "readDate", "mark", "followUp"}
  <1>0. ASSUME NEW next, next.at \in ats, Goes(r, next) \/ Begins(r, next) PROVE job'[r].at \in ats
    BY <1>0, JobAfter
  <1>1. ASSUME NEW t \in DOMAIN tasks, DeleteTask(r, t) PROVE job'[r].at \in ats
    BY <1>0, <1>1 DEF DeleteTask
  <1>2. ASSUME NEW t \in DOMAIN tasks, NEW to \in Status, ChangeTask(r, t, to) PROVE job'[r].at \in ats
    <2> DEFINE next == [at |-> "status", task |-> t, to |-> to, loaded |-> tasks[t].status]
    <2>1. next.at \in ats /\ Begins(r, next)
      BY <1>2 DEF ChangeTask
    <2> HIDE DEF next
    <2> QED
      BY <1>0, <2>1
  <1>3. ASSUME NEW m \in Missionary, NEW d \in Date, UpdateDate(r, m, d) PROVE job'[r].at \in ats
    <2> DEFINE next == [at |-> "date", who |-> m, date |-> d, loaded |-> file[m].date]
    <2>1. next.at \in ats /\ Begins(r, next)
      BY <1>3 DEF UpdateDate
    <2> HIDE DEF next
    <2> QED
      BY <1>0, <2>1
  <1>4. ASSUME NEW a \in DOMAIN appts, NEW to \in {"COMPLETED", "MISSED"}, MarkAppointment(r, a, to)
        PROVE  job'[r].at \in ats
    <2> DEFINE next == [at |-> "mark", appt |-> a, to |-> to, loaded |-> file[appts[a].who].date]
    <2>1. next.at \in ats /\ Begins(r, next)
      BY <1>4 DEF MarkAppointment
    <2> HIDE DEF next
    <2> QED
      BY <1>0, <2>1
  <1>5. Idle.at \in ats
    BY DEF Idle
  <1>6. ASSUME WriteStatus(r) PROVE job'[r].at \in ats
    <2>1. \/ Goes(r, Idle) \/ Goes(r, [at |-> "cleanup", task |-> job[r].task])
      BY <1>6 DEF WriteStatus
    <2> QED
      BY <1>5, <2>1, JobAfter
  <1>7. ASSUME Cleanup(r) PROVE job'[r].at \in ats
    <2> DEFINE go == [at |-> "remove", task |-> job[r].task, group |-> tasks[job[r].task].group]
    <2>1. (Goes(r, Idle) \/ Goes(r, go)) /\ go.at \in ats
      BY <1>7 DEF Cleanup
    <2> HIDE DEF go
    <2> QED
      BY <1>0, <1>5, <2>1
  <1>8. ASSUME CleanupGroup(r) \/ SyncAppointments(r) \/ FollowUp(r) PROVE job'[r].at \in ats
    BY <1>0, <1>5, <1>8 DEF CleanupGroup, SyncAppointments, FollowUp
  <1>9. ASSUME WriteDate(r) PROVE job'[r].at \in ats
    <2>1. Goes(r, [at |-> "readDate", who |-> job[r].who])
      BY <1>9 DEF WriteDate
    <2> QED
      BY <2>1, JobAfter
  <1>10. ASSUME ReadDate(r) PROVE job'[r].at \in {"idle", "sync"}
    <2> DEFINE go == [at |-> "sync", who |-> job[r].who, date |-> file[job[r].who].date]
    <2>1. (Goes(r, Idle) \/ Goes(r, go)) /\ go.at = "sync" /\ Idle.at = "idle"
      BY <1>10 DEF ReadDate, Idle
    <2> HIDE DEF go
    <2> QED
      BY <2>1, JobAfter
  <1>11. ASSUME WriteMark(r) PROVE job'[r].at \in ats
    <2> DEFINE go == [at |-> "followUp", who |-> appts[job[r].appt].who]
    <2>1. (Goes(r, Idle) \/ Goes(r, go)) /\ go.at \in ats
      BY <1>11 DEF WriteMark
    <2> HIDE DEF go
    <2> QED
      BY <1>0, <1>5, <2>1
  <1>12. job'[r].at \in ats \/ (ReadDate(r) /\ job'[r].at \in {"idle", "sync"})
    <2>1. CASE Start(r) /\ ~ Run(r)
      BY <2>1, <1>1, <1>2, <1>3, <1>4 DEF Start
    <2>2. CASE TaskWork(r) \/ Visit(r)
      BY <2>2, <1>6, <1>7, <1>8, <1>9, <1>10, <1>11 DEF TaskWork, Visit
    <2> QED
      BY <2>1, <2>2
  <1> QED
    BY <1>12 DEF Running, Saving

LEMMA OnlyReadDate ==
  ASSUME TypeInv, NEW r \in Request, Start(r) \/ Serve(r), job'[r].at = "sync"
  PROVE  ReadDate(r)
  <1>1. CASE Run(r) \/ Automation(r)
    BY <1>1, RunGoes
  <1>2. CASE (Start(r) /\ ~ Run(r)) \/ TaskWork(r) \/ Visit(r)
    BY <1>2, OtherSteps
  <1> QED
    BY <1>1, <1>2 DEF Serve

\* The date that is about to be scheduled is still the one in the missionary's row.
DateKnown == \A r \in Request : alone[r] /\ job[r].at = "sync" => file[job[r].who].date = job[r].date

(* A date that is set while nothing else happens is afterwards the one     *)
(* date scheduled, whatever was scheduled or half done before.             *)
THEOREM DatesAreScheduled == Spec => SyncSettles
  <1>1. Init => DateKnown
    BY DEF Init, DateKnown, Idle
  <1>2. ASSUME TypeInv, DateKnown, [Next]_vars, NEW r \in Request, alone'[r], job'[r].at = "sync"
        PROVE  file'[job'[r].who].date = job'[r].date
    <2>1. CASE UNCHANGED vars
      BY <1>2, <2>1 DEF vars, tables, DateKnown
    <2>2. CASE ReadDate(r)
      <3>1. PICK m : m = job[r].who
        OBVIOUS
      <3>2. job'[r] = IF file[m].date = NoDate THEN Idle
                      ELSE [at |-> "sync", who |-> m, date |-> file[m].date]
        BY <1>2, <2>2, <3>1, JobAfter DEF ReadDate
      <3>3. UNCHANGED file
        BY <2>2 DEF ReadDate, tables
      <3> QED
        BY <1>2, <3>2, <3>3 DEF Idle
    <2>3. ASSUME Serve(r) \/ Start(r), job'[r].at = "sync" PROVE ReadDate(r)
      BY <1>2, <2>3, OnlyReadDate
    <2> QED
      BY <1>2, <2>1, <2>2, <2>3, OwnStep
  <1>3. TypeInv /\ DateKnown /\ [Next]_vars => DateKnown'
    BY <1>2 DEF DateKnown
  <1>4. ASSUME TypeInv, DateKnown, [Next]_vars, NEW r \in Request, job[r].at = "sync", job'[r] = Idle, alone'[r],
               NEW m \in Missionary, m = job[r].who
        PROVE  ScheduledDates(m)' = {file'[m].date}
    <2>1. SyncAppointments(r) /\ alone[r]
      <3>1. ~ UNCHANGED vars /\ job[r] # Idle
        BY <1>4 DEF vars, Idle
      <3> QED
        BY <1>4, <3>1, OwnStep
           DEF Serve, Automation, TaskWork, Visit, ReplaceSingles, Look, FindGroup, EnsureGroup, Scope,
               Insert, Load, Update, List, ArchiveObsolete, WriteStatus, Cleanup, CleanupGroup, WriteDate,
               ReadDate, WriteMark, FollowUp
    <2>2. PICK d \in Nat : d = job[r].date
      BY <1>4, RequestIs, JobIs DEF Syncing
    <2>3. Sync(m, d) /\ UNCHANGED <<file, papers, today>>
      BY <1>4, <2>1, <2>2 DEF SyncAppointments
    <2>4. (\A a \in Scheduled(m)' : appts'[a].date = d) /\ Scheduled(m)' # {}
      BY <1>4, <2>3, SyncIs DEF TypeInv
    <2>5. ScheduledDates(m)' = {d}
      BY <2>4 DEF ScheduledDates
    <2>6. file'[m].date = d
      BY <1>4, <2>1, <2>2, <2>3 DEF DateKnown
    <2> QED
      BY <2>5, <2>6
  <1>5. TypeInv /\ DateKnown /\ [Next]_vars =>
          [\A r \in Request :
             job[r].at = "sync" /\ job'[r] = Idle /\ alone'[r] =>
               \A m \in Missionary : m = job[r].who => ScheduledDates(m)' = {file'[m].date}]_vars
    BY <1>4
  <1> QED
    BY <1>1, <1>3, <1>5, OfficeInvariant, PTL DEF Spec, SyncSettles

-----------------------------------------------------------------------------
(* No two payloads have one key *)

\* Clusters are the classes of those whose clusters start on one day.
LEMMA SameCluster ==
  ASSUME NEW snap \in Snap, NEW w \in {ProrrogaWindow, CriticalWindow},
         NEW c \in Clusters(snap, w), NEW d \in Clusters(snap, w),
         NEW m \in c, NEW n \in d, Expiry[m] = Expiry[n]
  PROVE  c = d
  <1> DEFINE W == Waiting(snap, w)
             start == Starts({Expiry[k] : k \in W})
  <1>1. PICK a \in W : c = {k \in W : start[Expiry[k]] = start[Expiry[a]]}
    BY DEF Clusters
  <1>2. PICK b \in W : d = {k \in W : start[Expiry[k]] = start[Expiry[b]]}
    BY DEF Clusters
  <1> HIDE DEF W, start
  <1>3. start[Expiry[a]] = start[Expiry[b]]
    BY <1>1, <1>2
  <1> QED
    BY <1>1, <1>2, <1>3

LEMMA ClusterKeys ==
  ASSUME NEW snap \in Snap,
         NEW v \in {ProrrogaWindow, CriticalWindow}, NEW c \in Clusters(snap, v),
         NEW w \in {ProrrogaWindow, CriticalWindow}, NEW d \in Clusters(snap, w),
         ClusterPayload(c, v).key = ClusterPayload(d, w).key
  PROVE  ClusterPayload(c, v) = ClusterPayload(d, w)
  <1>0. c \subseteq Missionary /\ c # {} /\ d \subseteq Missionary /\ d # {} /\ v \in Nat /\ w \in Nat
    BY ClusterIs, AutomationAssumption
  <1>1. \A m \in Missionary : m \in Nat /\ Expiry[m] \in Nat
    BY AutomationAssumption DEF Missionary
  <1>2. PICK m : m = CHOOSE k \in c : TRUE
    OBVIOUS
  <1>3. PICK n : n = CHOOSE k \in d : TRUE
    OBVIOUS
  <1>4. m \in c /\ n \in d
    BY <1>0, <1>2, <1>3
  <1>5. /\ ClusterPayload(c, v).key = IF Cardinality(c) = 1 THEN ProrrogaKey(m, v)
                                      ELSE Key("group", v, FirstDay(c, v))
        /\ ClusterPayload(d, w).key = IF Cardinality(d) = 1 THEN ProrrogaKey(n, w)
                                      ELSE Key("group", w, FirstDay(d, w))
    BY <1>2, <1>3 DEF ClusterPayload, Payload
  <1>6. \/ m = n /\ v = w
        \/ v = w /\ FirstDay(c, v) = FirstDay(d, w)
    <2>1. \A a, b, x, y : ProrrogaKey(a, x) = ProrrogaKey(b, y) => a = b /\ x = y
      <3> SUFFICES ASSUME NEW a, NEW b, NEW x, NEW y, ProrrogaKey(a, x) = ProrrogaKey(b, y)
                   PROVE  a = b /\ x = y
        OBVIOUS
      <3>1. ProrrogaKey(a, x).of = ProrrogaKey(b, y).of /\ ProrrogaKey(a, x).at = ProrrogaKey(b, y).at
        OBVIOUS
      <3> QED
        BY <3>1 DEF ProrrogaKey, Key
    <2>2. \A a, x, b, y : ProrrogaKey(a, x) # Key("group", b, y)
      <3> SUFFICES ASSUME NEW a, NEW x, NEW b, NEW y, ProrrogaKey(a, x) = Key("group", b, y) PROVE FALSE
        OBVIOUS
      <3>1. ProrrogaKey(a, x).rule = Key("group", b, y).rule
        OBVIOUS
      <3> QED
        BY <3>1 DEF ProrrogaKey, Key
    <2>3. \A a, b, x, y : Key("group", a, x) = Key("group", b, y) => a = b /\ x = y
      <3> SUFFICES ASSUME NEW a, NEW b, NEW x, NEW y, Key("group", a, x) = Key("group", b, y)
                   PROVE  a = b /\ x = y
        OBVIOUS
      <3>1. Key("group", a, x).of = Key("group", b, y).of /\ Key("group", a, x).at = Key("group", b, y).at
        OBVIOUS
      <3> QED
        BY <3>1 DEF Key
    <2>4. CASE Cardinality(c) = 1 /\ Cardinality(d) = 1
      <3>1. ProrrogaKey(m, v) = ProrrogaKey(n, w)
        BY <1>5, <2>4
      <3> QED
        BY <2>1, <3>1
    <2>5. CASE Cardinality(c) = 1 /\ Cardinality(d) # 1
      <3>1. ProrrogaKey(m, v) = Key("group", w, FirstDay(d, w))
        BY <1>5, <2>5
      <3> QED
        BY <2>2, <3>1
    <2>6. CASE Cardinality(c) # 1 /\ Cardinality(d) = 1
      <3>1. ProrrogaKey(n, w) = Key("group", v, FirstDay(c, v))
        BY <1>5, <2>6
      <3> QED
        BY <2>2, <3>1
    <2>7. CASE Cardinality(c) # 1 /\ Cardinality(d) # 1
      <3>1. Key("group", v, FirstDay(c, v)) = Key("group", w, FirstDay(d, w))
        BY <1>5, <2>7
      <3> QED
        BY <2>3, <3>1
    <2> QED
      BY <2>4, <2>5, <2>6, <2>7
  <1>7. CASE m = n /\ v = w
    BY <1>4, <1>7, SameCluster
  <1>8. CASE v = w /\ FirstDay(c, v) = FirstDay(d, w)
    <2>1. PICK x \in c : FirstDay(c, v) = Expiry[x] - v
      BY <1>0, FirstDayIs
    <2>2. PICK y \in d : FirstDay(d, w) = Expiry[y] - w
      BY <1>0, FirstDayIs
    <2>3. Expiry[x] = Expiry[y]
      <3>1. Expiry[x] \in Nat /\ Expiry[y] \in Nat
        BY <1>0, <1>1
      <3>2. Expiry[x] - v = Expiry[y] - v
        BY <1>8, <2>1, <2>2
      <3> QED
        BY <1>0, <3>1, <3>2
    <2> QED
      BY <1>8, <2>3, SameCluster
  <1> QED
    BY <1>6, <1>7, <1>8

LEMMA KeysDistinct ==
  ASSUME NEW snap \in Snap, NEW p \in Payloads(snap), NEW q \in Payloads(snap), p.key = q.key
  PROVE  p = q
  <1>1. ASSUME NEW x \in Payloads(snap)
        PROVE  \/ x.key.rule = "gvm" /\ x = Payload(x.key, {x.key.of})
               \/ x.key.rule = "ficha" /\ x = Payload(x.key, {x.key.of})
               \/ /\ x.key.rule \in {"prorroga", "group"}
                  /\ \E w \in {ProrrogaWindow, CriticalWindow} : \E c \in Clusters(snap, w) :
                       x = ClusterPayload(c, w)
    <2>1. CASE x \in GvmPayloads(snap)
      BY <2>1 DEF GvmPayloads, Payload, Key
    <2>2. CASE x \in FichaPayloads(snap)
      BY <2>2 DEF FichaPayloads, Payload, Key
    <2>3. CASE x \in ProrrogaPayloads(snap)
      <3>1. PICK w \in {ProrrogaWindow, CriticalWindow} : \E c \in Clusters(snap, w) : x = ClusterPayload(c, w)
        BY <2>3 DEF ProrrogaPayloads
      <3>2. PICK c \in Clusters(snap, w) : x = ClusterPayload(c, w)
        BY <3>1
      <3>3. x.key.rule \in {"prorroga", "group"}
        BY <3>2 DEF ClusterPayload, Payload, ProrrogaKey, Key
      <3> QED
        BY <3>2, <3>3
    <2> QED
      BY <2>1, <2>2, <2>3 DEF Payloads
  <1>2. CASE p.key.rule \in {"gvm", "ficha"}
    BY <1>1, <1>2
  <1>3. CASE p.key.rule \in {"prorroga", "group"}
    <2>1. PICK v \in {ProrrogaWindow, CriticalWindow} : \E c \in Clusters(snap, v) : p = ClusterPayload(c, v)
      BY <1>1, <1>3
    <2>2. PICK w \in {ProrrogaWindow, CriticalWindow} : \E c \in Clusters(snap, w) : q = ClusterPayload(c, w)
      BY <1>1, <1>3
    <2> QED
      BY <2>1, <2>2, ClusterKeys
  <1> QED
    BY <1>1, <1>2, <1>3

-----------------------------------------------------------------------------
(* A run that is alone *)

Right(g, p, gs) ==
  IF HasGroup(p) THEN g # NoGroup /\ g \in DOMAIN gs /\ gs[g].key = p.key /\ gs[g].who = p.who
  ELSE g = NoGroup
Linked(row, p, gs) == row.status = "OPEN" => row.who = p.who /\ Right(row.group, p, gs)
Done(p, ts, gs)    == \E t \in DOMAIN ts : FirstRow(t, p.key, ts) /\ Linked(ts[t], p, gs)
AllDone(P, ts, gs) == \A p \in P : Done(p, ts, gs)
Asked(j, P)        == j.keys = KeysOf(P) /\ j.todo \subseteq P
Stale(keys, ts)    == {t \in DOMAIN ts : /\ ts[t].status = "OPEN" /\ ts[t].key.rule \in Obsolescent
                                         /\ ts[t].key \notin keys}

\* What a run knows at each of its steps when nothing else has happened: the payloads P
\* are still the ones called for, and those it has dealt with have their tasks.
Settles(j, P, ts, gs) ==
  /\ j.at = "replace" => j.keys = KeysOf(P) /\ j.todo = P
  /\ j.at \in {"look", "list"} => Asked(j, P) /\ AllDone(P \ j.todo, ts, gs)
  /\ j.at = "list" => j.todo = {}
  /\ j.at \in Saving =>
       /\ Asked(j, P) /\ j.payload \in P \ j.todo /\ AllDone(P \ (j.todo \cup {j.payload}), ts, gs)
       /\ IF j.task = NoTask THEN \A t \in DOMAIN ts : ts[t].key # j.payload.key
                             ELSE FirstRow(j.task, j.payload.key, ts)
       /\ j.who = j.payload.who
  /\ j.at = "findGroup" => HasGroup(j.payload)
  /\ j.at = "saveGroup" =>
       /\ HasGroup(j.payload)
       /\ j.group # NoGroup => j.group \in DOMAIN gs /\ gs[j.group].key = j.payload.key
  /\ j.at \in {"scope", "insert", "load", "save"} => Right(j.group, j.payload, gs)
  /\ j.at \in {"scope", "insert"} => j.task = NoTask
  /\ j.at = "save" => j.loaded = ts[j.task].group
  /\ j.at = "archive" => /\ j.keys = KeysOf(P) /\ AllDone(P, ts, gs)
                         /\ j.listed = {[task |-> t, group |-> ts[t].group] : t \in Stale(j.keys, ts)}

Called   == Payloads(Snapshot)
RunKnown == \A r \in Request : alone[r] => Settles(job[r], Called, tasks, groups)

\* Where a run goes when it has dealt with the payload it was at.
LEMMA RemainingSettles ==
  ASSUME NEW j, NEW todo, NEW P, NEW ts, NEW gs, j.keys = KeysOf(P), todo \subseteq P, AllDone(P \ todo, ts, gs)
  PROVE  Settles(Remaining(j, todo), P, ts, gs)
  BY DEF Remaining, Settles, Asked, Saving

LEMMA DoneStays ==
  ASSUME NEW p, NEW ts, NEW gs, NEW us, NEW hs, Done(p, ts, gs), DOMAIN ts \subseteq DOMAIN us,
         \A t \in DOMAIN ts : ts[t].key = p.key => us[t] = ts[t],
         \A u \in DOMAIN us : us[u].key = p.key => u \in DOMAIN ts /\ ts[u].key = p.key,
         \A g \in DOMAIN gs : gs[g].key = p.key => g \in DOMAIN hs /\ hs[g] = gs[g]
  PROVE  Done(p, us, hs)
  <1>1. PICK t \in DOMAIN ts : FirstRow(t, p.key, ts) /\ Linked(ts[t], p, gs)
    BY DEF Done
  <1>2. us[t] = ts[t] /\ FirstRow(t, p.key, us)
    BY <1>1 DEF FirstRow
  <1>3. Linked(us[t], p, hs)
    BY <1>1, <1>2 DEF Linked, Right
  <1> QED
    BY <1>1, <1>2, <1>3 DEF Done

-----------------------------------------------------------------------------
(* The steps of a run that is alone *)

LEMMA OthersSettle ==
  ASSUME NEW j, j.at \notin Running, NEW P, NEW ts, NEW gs
  PROVE  Settles(j, P, ts, gs)
  BY DEF Settles, Running, Saving

LEMMA ReplaceSettles ==
  ASSUME TypeInv, NEW r \in Request, NEW P, Settles(job[r], P, tasks, groups), ReplaceSingles(r)
  PROVE  Settles(job'[r], P, tasks', groups')
  <1> DEFINE j == job[r]
  <1>1. j \in Replacing /\ j.at = "replace" /\ j.keys = KeysOf(P) /\ j.todo = P
    BY RequestIs, JobIs DEF ReplaceSingles, Settles
  <1>2. CASE Goes(r, Remaining(j, j.todo))
    <2>1. job'[r] = Remaining(j, j.todo)
      BY <1>2, JobAfter
    <2>2. AllDone(P \ j.todo, tasks', groups')
      BY <1>1 DEF AllDone
    <2> QED
      BY <1>1, <2>1, <2>2, RemainingSettles
  <1>3. ASSUME NEW keys \in j.replace, Goes(r, [j EXCEPT !.replace = @ \ {keys}])
        PROVE  Settles(job'[r], P, tasks', groups')
    <2> DEFINE next == [j EXCEPT !.replace = @ \ {keys}]
    <2>1. next.at = "replace" /\ next.keys = j.keys /\ next.todo = j.todo
      BY <1>1 DEF Replacing
    <2>2. Goes(r, next)
      BY <1>3
    <2> HIDE DEF next
    <2>3. job'[r] = next
      BY <2>2, JobAfter
    <2> QED
      BY <1>1, <2>1, <2>3 DEF Settles, Saving
  <1> QED
    BY <1>2, <1>3 DEF ReplaceSingles

LEMMA LookSettles ==
  ASSUME TypeInv, NEW r \in Request, NEW P, Settles(job[r], P, tasks, groups), Look(r)
  PROVE  Settles(job'[r], P, tasks', groups')
  <1> DEFINE j == job[r]
  <1>1. j \in Between /\ j.at = "look" /\ Asked(j, P) /\ AllDone(P \ j.todo, tasks, groups)
    BY RequestIs, JobIs DEF Look, Settles
  <1>2. PICK p \in First(j.todo) :
           Goes(r, IF RowOf(p.key) # NoTask /\ tasks[RowOf(p.key)].status # "OPEN"
                   THEN Remaining(j, j.todo \ {p})
                   ELSE At(j, IF HasGroup(p) THEN "findGroup" ELSE IF RowOf(p.key) = NoTask THEN "scope" ELSE "load",
                           p, RowOf(p.key)))
    BY DEF Look
  <1>3. p \in j.todo /\ j.keys = KeysOf(P) /\ j.todo \subseteq P
    BY <1>1 DEF First, Asked
  <1>4. UNCHANGED <<tasks, groups>>
    BY DEF Look, tables
  <1>5. /\ RowOf(p.key) # NoTask => FirstRow(RowOf(p.key), p.key, tasks)
        /\ RowOf(p.key) = NoTask => \A t \in DOMAIN tasks : tasks[t].key # p.key
    BY RowOfIs DEF TypeInv, TasksOK, TasksWith
  <1>6. CASE RowOf(p.key) # NoTask /\ tasks[RowOf(p.key)].status # "OPEN"
    <2>1. job'[r] = Remaining(j, j.todo \ {p})
      BY <1>2, <1>6, JobAfter
    <2>2. Done(p, tasks, groups)
      BY <1>5, <1>6 DEF Done, Linked, FirstRow
    <2>3. AllDone(P \ (j.todo \ {p}), tasks, groups)
      BY <1>1, <2>2 DEF AllDone
    <2> QED
      BY <1>3, <1>4, <2>1, <2>3, RemainingSettles
  <1>7. ASSUME NEW at \in {"findGroup", "scope", "load"}, job'[r] = At(j, at, p, RowOf(p.key)),
               at = "findGroup" <=> HasGroup(p), at = "scope" => RowOf(p.key) = NoTask
        PROVE  Settles(job'[r], P, tasks', groups')
    <2> DEFINE next == At(j, at, p, RowOf(p.key))
    <2>1. /\ next.at = at /\ next.todo = j.todo \ {p} /\ next.keys = j.keys /\ next.payload = p
          /\ next.task = RowOf(p.key) /\ next.group = NoGroup /\ next.who = p.who
      BY DEF At
    <2>2. job'[r] = next
      BY <1>7
    <2> HIDE DEF next
    <2>3. AllDone(P \ (next.todo \cup {p}), tasks, groups)
      BY <1>1, <1>3, <2>1 DEF AllDone
    <2>4. Asked(next, P) /\ next.payload \in P \ next.todo
      BY <1>3, <2>1 DEF Asked
    <2>5. at # "findGroup" => Right(next.group, p, groups)
      BY <1>7, <2>1 DEF Right
    <2>6. at \in Saving
      BY DEF Saving
    <2> QED
      BY <1>4, <1>5, <1>7, <2>1, <2>2, <2>3, <2>4, <2>5, <2>6 DEF Settles
  <1>8. CASE ~ (RowOf(p.key) # NoTask /\ tasks[RowOf(p.key)].status # "OPEN")
    <2>1. job'[r] = At(j, IF HasGroup(p) THEN "findGroup" ELSE IF RowOf(p.key) = NoTask THEN "scope" ELSE "load",
                       p, RowOf(p.key))
      BY <1>2, <1>8, JobAfter
    <2> QED
      BY <1>7, <2>1
  <1> QED
    BY <1>6, <1>8

LEMMA FindGroupSettles ==
  ASSUME TypeInv, NEW r \in Request, NEW P, Settles(job[r], P, tasks, groups), FindGroup(r)
  PROVE  Settles(job'[r], P, tasks', groups')
  <1> DEFINE j == job[r]
             next == [j EXCEPT !.at = "saveGroup", !.group = GroupFor(j.payload.key)]
  <1>1. j \in Settling /\ j.at = "findGroup" /\ j.at \in Saving
    BY RequestIs, JobIs DEF FindGroup, Saving
  <1>2. /\ Asked(j, P) /\ j.payload \in P \ j.todo /\ AllDone(P \ (j.todo \cup {j.payload}), tasks, groups)
        /\ IF j.task = NoTask THEN \A t \in DOMAIN tasks : tasks[t].key # j.payload.key
                              ELSE FirstRow(j.task, j.payload.key, tasks)
        /\ j.who = j.payload.who /\ HasGroup(j.payload)
    BY <1>1 DEF Settles
  <1>3. /\ next.at = "saveGroup" /\ next.todo = j.todo /\ next.keys = j.keys /\ next.payload = j.payload
        /\ next.task = j.task /\ next.who = j.who /\ next.group = GroupFor(j.payload.key)
    BY <1>1 DEF Settling
  <1>4. Goes(r, next) /\ UNCHANGED <<tasks, groups>>
    BY DEF FindGroup, tables
  <1> HIDE DEF next
  <1>5. job'[r] = next
    BY <1>4, JobAfter
  <1>6. next.group # NoGroup => next.group \in DOMAIN groups /\ groups[next.group].key = j.payload.key
    BY <1>3, GroupForIs DEF TypeInv
  <1> QED
    BY <1>2, <1>3, <1>4, <1>5, <1>6 DEF Settles, Asked, Saving

LEMMA EnsureGroupSettles ==
  ASSUME TypeInv, NEW r \in Request, NEW P, \A p, q \in P : p.key = q.key => p = q,
         Settles(job[r], P, tasks, groups), EnsureGroup(r)
  PROVE  Settles(job'[r], P, tasks', groups')
  <1> DEFINE j == job[r]
             p == j.payload
             g == SavedGroup(j.group)
             next == [j EXCEPT !.at = IF j.task = NoTask THEN "scope" ELSE "load", !.group = g]
  <1>1. j \in Settling /\ j.at = "saveGroup" /\ j.at \in Saving
    BY RequestIs, JobIs DEF EnsureGroup, Saving
  <1>2. /\ Asked(j, P) /\ p \in P \ j.todo /\ AllDone(P \ (j.todo \cup {p}), tasks, groups)
        /\ IF j.task = NoTask THEN \A t \in DOMAIN tasks : tasks[t].key # p.key
                              ELSE FirstRow(j.task, p.key, tasks)
        /\ j.who = p.who /\ HasGroup(p)
        /\ j.group # NoGroup => j.group \in DOMAIN groups /\ groups[j.group].key = p.key
    BY <1>1 DEF Settles
  <1>3. CanSaveGroup(j.group)
    BY <1>2 DEF CanSaveGroup, Exists
  <1>4. SaveGroup(j.group, p.key, p.who) /\ OnlyGroups /\ Goes(r, next)
    BY <1>3 DEF EnsureGroup
  <1>5. UNCHANGED tasks /\ j.group \in Nat /\ p.key \in AutoKey /\ p.who \in SUBSET Missionary
    BY <1>1, <1>4 DEF OnlyGroups, Settling, Demand
  <1>6. /\ g \in DOMAIN groups' /\ g \in Nat \ {NoGroup} /\ groups'[g].who = p.who
        /\ j.group = NoGroup \/ groups[j.group].key = p.key => groups'[g].key = p.key
        /\ DOMAIN groups \subseteq DOMAIN groups'
        /\ j.group = NoGroup => g \notin DOMAIN groups
        /\ \A h \in DOMAIN groups \ {g} : groups'[h] = groups[h]
    BY <1>3, <1>4, <1>5, SaveGroupIs DEF TypeInv
  <1>7. /\ next.at \in {"scope", "load"} /\ (next.at = "scope" => j.task = NoTask)
        /\ next.todo = j.todo /\ next.keys = j.keys /\ next.payload = p
        /\ next.task = j.task /\ next.who = j.who /\ next.group = g
    BY <1>1 DEF Settling
  <1>8. j.group # NoGroup => g = j.group
    BY DEF SavedGroup
  <1> HIDE DEF next, g
  <1>9. job'[r] = next
    BY <1>4, JobAfter
  <1>10. Right(next.group, p, groups')
    BY <1>2, <1>6, <1>7 DEF Right
  <1>11. ASSUME NEW q \in P \ (j.todo \cup {p}) PROVE Done(q, tasks', groups')
    <2>1. q.key # p.key /\ Done(q, tasks, groups)
      BY <1>2, <1>11 DEF AllDone
    <2>2. \A h \in DOMAIN groups : groups[h].key = q.key => h \in DOMAIN groups' /\ groups'[h] = groups[h]
      BY <1>2, <1>6, <1>8, <2>1
    <2> QED
      BY <1>5, <2>1, <2>2, DoneStays
  <1>12. next.at \in Saving
    BY <1>7 DEF Saving
  <1> QED
    BY <1>2, <1>5, <1>7, <1>9, <1>10, <1>11, <1>12 DEF Settles, Asked, AllDone

LEMMA ScopeSettles ==
  ASSUME TypeInv, NEW r \in Request, NEW P, Settles(job[r], P, tasks, groups), Scope(r)
  PROVE  Settles(job'[r], P, tasks', groups')
  <1> DEFINE j == job[r]
             who == IF j.group = NoGroup THEN j.who ELSE groups[j.group].who
             next == [j EXCEPT !.at = "insert", !.who = who]
  <1>1. j \in Settling /\ j.at = "scope" /\ j.at \in Saving
    BY RequestIs, JobIs DEF Scope, Saving
  <1>2. /\ Asked(j, P) /\ j.payload \in P \ j.todo /\ AllDone(P \ (j.todo \cup {j.payload}), tasks, groups)
        /\ j.task = NoTask /\ \A t \in DOMAIN tasks : tasks[t].key # j.payload.key
        /\ j.who = j.payload.who /\ Right(j.group, j.payload, groups)
    BY <1>1 DEF Settles
  <1>3. Exists(j.group) /\ who = j.payload.who
    BY <1>2 DEF Right, Exists
  <1>4. Goes(r, next) /\ UNCHANGED <<tasks, groups>>
    BY <1>3 DEF Scope, tables
  <1>5. /\ next.at = "insert" /\ next.todo = j.todo /\ next.keys = j.keys /\ next.payload = j.payload
        /\ next.task = j.task /\ next.who = who /\ next.group = j.group
    BY <1>1 DEF Settling
  <1> HIDE DEF next, who
  <1>6. job'[r] = next
    BY <1>4, JobAfter
  <1> QED
    BY <1>2, <1>3, <1>4, <1>5, <1>6 DEF Settles, Asked, Saving

LEMMA InsertSettles ==
  ASSUME TypeInv, NEW r \in Request, NEW P, \A p, q \in P : p.key = q.key => p = q,
         Settles(job[r], P, tasks, groups), Insert(r)
  PROVE  Settles(job'[r], P, tasks', groups')
  <1> DEFINE j == job[r]
             p == j.payload
             n == Len(tasks) + 1
  <1>1. j \in Settling /\ j.at = "insert" /\ j.at \in Saving
    BY RequestIs, JobIs DEF Insert, Saving
  <1>2. /\ Asked(j, P) /\ p \in P \ j.todo /\ AllDone(P \ (j.todo \cup {p}), tasks, groups)
        /\ j.task = NoTask /\ \A t \in DOMAIN tasks : tasks[t].key # p.key
        /\ j.who = p.who /\ Right(j.group, p, groups)
    BY <1>1 DEF Settles
  <1>3. CanInsert(j.group)
    BY <1>2 DEF Right, Exists, CanInsert
  <1>4. InsertTask(p.key, j.who, j.group) /\ OnlyTasks /\ Goes(r, Remaining(j, j.todo))
    BY <1>3 DEF Insert
  <1>5. UNCHANGED groups /\ p.key \in TaskKey /\ j.group \in Nat /\ j.who \in SUBSET Missionary
    BY <1>1, <1>4 DEF OnlyTasks, Settling, Demand, TaskKey
  <1>6. /\ DOMAIN tasks' = DOMAIN tasks \cup {n}
        /\ \A t \in DOMAIN tasks : tasks'[t] = tasks[t]
        /\ tasks'[n] = [key |-> p.key, status |-> "OPEN", who |-> j.who, group |-> j.group]
    BY <1>3, <1>4, <1>5, InsertIs DEF TypeInv
  <1>7. tasks'[n].key = p.key /\ tasks'[n].who = p.who /\ tasks'[n].group = j.group /\ n \in DOMAIN tasks'
    BY <1>2, <1>6
  <1>8. Done(p, tasks', groups')
    <2>1. n <= n
      BY TaskIs DEF TypeInv, TasksOK
    <2>2. FirstRow(n, p.key, tasks')
      BY <1>2, <1>6, <1>7, <2>1 DEF FirstRow
    <2> QED
      BY <1>2, <1>5, <1>7, <2>2 DEF Done, Linked
  <1>9. ASSUME NEW q \in P \ (j.todo \cup {p}) PROVE Done(q, tasks', groups')
    <2>1. q.key # p.key /\ Done(q, tasks, groups)
      BY <1>2, <1>9 DEF AllDone
    <2>2. \A u \in DOMAIN tasks' : tasks'[u].key = q.key => u \in DOMAIN tasks /\ tasks[u].key = q.key
      BY <1>6, <1>7, <2>1
    <2> QED
      BY <1>5, <1>6, <2>1, <2>2, DoneStays
  <1>10. AllDone(P \ j.todo, tasks', groups')
    BY <1>8, <1>9 DEF AllDone
  <1>11. job'[r] = Remaining(j, j.todo)
    BY <1>4, JobAfter
  <1> QED
    BY <1>2, <1>10, <1>11, RemainingSettles DEF Asked

LEMMA LoadSettles ==
  ASSUME TypeInv, NEW r \in Request, NEW P, Settles(job[r], P, tasks, groups), Load(r)
  PROVE  Settles(job'[r], P, tasks', groups')
  <1> DEFINE j == job[r]
             g == tasks[j.task].group
             who == IF j.group \in {NoGroup, g} THEN j.who ELSE groups[j.group].who
             next == [j EXCEPT !.at = "save", !.loaded = g, !.who = who]
  <1>1. j \in Settling /\ j.at = "load" /\ j.at \in Saving
    BY RequestIs, JobIs DEF Load, Saving
  <1>2. /\ Asked(j, P) /\ j.payload \in P \ j.todo /\ AllDone(P \ (j.todo \cup {j.payload}), tasks, groups)
        /\ IF j.task = NoTask THEN \A t \in DOMAIN tasks : tasks[t].key # j.payload.key
                              ELSE FirstRow(j.task, j.payload.key, tasks)
        /\ j.who = j.payload.who /\ Right(j.group, j.payload, groups)
    BY <1>1 DEF Settles
  <1>3. Exists(j.group) /\ who = j.payload.who
    BY <1>2 DEF Right, Exists
  <1>4. Goes(r, next) /\ UNCHANGED <<tasks, groups>>
    BY <1>3 DEF Load, tables
  <1>5. /\ next.at = "save" /\ next.todo = j.todo /\ next.keys = j.keys /\ next.payload = j.payload
        /\ next.task = j.task /\ next.who = who /\ next.group = j.group /\ next.loaded = g
    BY <1>1 DEF Settling
  <1>6. g = tasks[j.task].group
    OBVIOUS
  <1> HIDE DEF next, who, g
  <1>7. job'[r] = next
    BY <1>4, JobAfter
  <1> QED
    BY <1>2, <1>3, <1>4, <1>5, <1>6, <1>7 DEF Settles, Asked, Saving

LEMMA UpdateSettles ==
  ASSUME TypeInv, NEW r \in Request, NEW P, \A p, q \in P : p.key = q.key => p = q,
         Settles(job[r], P, tasks, groups), Update(r)
  PROVE  Settles(job'[r], P, tasks', groups')
  <1> DEFINE j == job[r]
             p == j.payload
             t == j.task
  <1>1. j \in Settling /\ j.at = "save" /\ j.at \in Saving /\ Refers(j, tasks, appts)
    BY RequestIs, JobIs DEF Update, Saving
  <1>2. /\ Asked(j, P) /\ p \in P \ j.todo /\ AllDone(P \ (j.todo \cup {p}), tasks, groups)
        /\ j.who = p.who /\ Right(j.group, p, groups) /\ j.loaded = tasks[t].group
    BY <1>1 DEF Settles
  <1>3. CanUpdate(j.group, j.loaded)
    BY <1>2 DEF Right, Exists, CanUpdate
  <1>4. UpdateTask(t, j.who, j.group, j.loaded) /\ OnlyTasks /\ Goes(r, Remaining(j, j.todo))
    BY <1>3 DEF Update
  <1>5. UNCHANGED groups /\ p.key \in AutoKey /\ j.group \in Nat /\ j.loaded \in Nat /\ j.who \in SUBSET Missionary
    BY <1>1, <1>4 DEF OnlyTasks, Settling, Demand
  <1>6. t \in DOMAIN tasks /\ tasks[t].key = p.key /\ tasks[t].key # NoKey
    BY <1>1, <1>5, KeysAre DEF Refers, Saving
  <1>7. /\ DOMAIN tasks' = DOMAIN tasks /\ Changes(tasks, tasks')
        /\ \A u \in DOMAIN tasks \ {t} : tasks'[u] = tasks[u]
        /\ tasks'[t].who = j.who
        /\ tasks'[t].group = IF j.group = j.loaded THEN tasks[t].group ELSE j.group
    <2>1. TasksOK
      BY DEF TypeInv
    <2>2. PICK u \in DOMAIN tasks, g \in Nat, l \in Nat, w \in SUBSET Missionary :
            u = t /\ g = j.group /\ l = j.loaded /\ w = j.who
      BY <1>5, <1>6
    <2>3. /\ DOMAIN tasks' = DOMAIN tasks /\ Changes(tasks, tasks')
          /\ \A v \in DOMAIN tasks \ {u} : tasks'[v] = tasks[v]
          /\ tasks'[u].who = w
          /\ tasks'[u].group = IF g = l THEN tasks[u].group ELSE g
      <3>1. CanUpdate(g, l) /\ UpdateTask(u, w, g, l) /\ UNCHANGED groups /\ tasks[u].key # NoKey
        BY <2>2, <1>3, <1>4, <1>5, <1>6
      <3>2. DOMAIN tasks' = DOMAIN tasks /\ Changes(tasks, tasks')
        BY <2>1, <3>1, UpdateIs
      <3>3. \A v \in DOMAIN tasks \ {u} : tasks'[v] = tasks[v]
        BY <2>1, <3>1, UpdateIs
      <3>4. tasks'[u].who = w
        BY <2>1, <3>1, UpdateIs
      <3>5. tasks'[u].group = IF g = l THEN tasks[u].group ELSE g
        BY <2>1, <3>1, UpdateIs
      <3> QED
        BY <3>2, <3>3, <3>4, <3>5
    <2> QED
      BY <2>2, <2>3
  <1>8. tasks'[t].key = p.key /\ tasks'[t].who = p.who /\ tasks'[t].group = j.group
    BY <1>2, <1>6, <1>7 DEF Changes, RowsStay
  <1>9. Done(p, tasks', groups')
    <2>1. t # NoTask
      BY <1>1 DEF Refers
    <2>2. FirstRow(t, p.key, tasks)
      BY <1>1, <2>1 DEF Settles
    <2>3. FirstRow(t, p.key, tasks')
      BY <1>7, <2>2 DEF FirstRow, Changes, RowsStay
    <2> QED
      BY <1>2, <1>5, <1>6, <1>7, <1>8, <2>3 DEF Done, Linked
  <1>10. ASSUME NEW q \in P \ (j.todo \cup {p}) PROVE Done(q, tasks', groups')
    <2>1. q.key # p.key /\ Done(q, tasks, groups)
      BY <1>2, <1>10 DEF AllDone
    <2>2. \A u \in DOMAIN tasks : tasks[u].key = q.key => tasks'[u] = tasks[u]
      BY <1>6, <1>7, <2>1
    <2>3. \A u \in DOMAIN tasks' : tasks'[u].key = q.key => u \in DOMAIN tasks /\ tasks[u].key = q.key
      BY <1>7 DEF Changes, RowsStay
    <2> QED
      BY <1>5, <1>7, <2>1, <2>2, <2>3, DoneStays
  <1>11. AllDone(P \ j.todo, tasks', groups')
    BY <1>9, <1>10 DEF AllDone
  <1>12. job'[r] = Remaining(j, j.todo)
    BY <1>4, JobAfter
  <1> QED
    BY <1>2, <1>11, <1>12, RemainingSettles DEF Asked

LEMMA ListSettles ==
  ASSUME TypeInv, NEW r \in Request, NEW P, Settles(job[r], P, tasks, groups), List(r)
  PROVE  Settles(job'[r], P, tasks', groups')
  <1> DEFINE j == job[r]
             listed == {[task |-> t, group |-> tasks[t].group] : t \in Obsolete(j.keys)}
             next == [at |-> "archive", keys |-> j.keys, listed |-> listed]
  <1>1. j \in Between /\ j.at = "list" /\ j.keys = KeysOf(P) /\ AllDone(P, tasks, groups)
    <2>1. j \in Between /\ j.at = "list" /\ Asked(j, P) /\ AllDone(P \ j.todo, tasks, groups) /\ j.todo = {}
      BY RequestIs, JobIs DEF List, Settles
    <2> QED
      BY <2>1 DEF Asked, AllDone
  <1>2. listed = {[task |-> t, group |-> tasks[t].group] : t \in Stale(j.keys, tasks)}
    BY DEF Obsolete, Stale
  <1>3. next.at = "archive" /\ next.keys = j.keys /\ next.listed = listed
    OBVIOUS
  <1>4. Goes(r, next) /\ UNCHANGED <<tasks, groups>>
    BY DEF List, tables
  <1> HIDE DEF next, listed
  <1>5. job'[r] = next
    BY <1>4, JobAfter
  <1> QED
    BY <1>1, <1>2, <1>3, <1>4, <1>5 DEF Settles, Saving

\* What the last step of a run leaves.
LEMMA ArchiveSettles ==
  ASSUME TypeInv, NEW r \in Request, NEW P, Settles(job[r], P, tasks, groups), ArchiveObsolete(r),
         CanArchive(job[r].listed)
  PROVE  AllDone(P, tasks', groups') /\ Stale(KeysOf(P), tasks') = {}
  <1> DEFINE j == job[r]
             listed == j.listed
  <1>1. /\ j.keys = KeysOf(P) /\ AllDone(P, tasks, groups)
        /\ listed = {[task |-> t, group |-> tasks[t].group] : t \in Stale(j.keys, tasks)}
    BY DEF ArchiveObsolete, Settles
  <1>2. Archive(listed)
    BY DEF ArchiveObsolete
  <1>3. \A t \in DOMAIN tasks : (\E l \in listed : l.task = t) <=> t \in Stale(j.keys, tasks)
    <2> DEFINE S == Stale(j.keys, tasks)
    <2>1. ASSUME NEW t \in S PROVE \E l \in listed : l.task = t
      <3>1. [task |-> t, group |-> tasks[t].group] \in listed
        BY <1>1, <2>1
      <3> QED
        BY <3>1
    <2>2. ASSUME NEW l \in listed PROVE l.task \in S
      <3>1. PICK t \in S : l = [task |-> t, group |-> tasks[t].group]
        BY <1>1, <2>2
      <3> QED
        BY <3>1
    <2> QED
      BY <2>1, <2>2
  <1>4. /\ DOMAIN tasks' = DOMAIN tasks /\ DOMAIN groups' = DOMAIN groups \ Gone(listed)
        /\ \A g \in DOMAIN groups' : groups'[g] = groups[g]
        /\ \A t \in DOMAIN tasks : tasks'[t] = Closed(listed)[t]
    BY <1>2 DEF Archive, Closed
  <1>5. ASSUME NEW t \in DOMAIN tasks
        PROVE  IF t \in Stale(j.keys, tasks) THEN tasks'[t].status = "ARCHIVED" /\ tasks'[t].key = tasks[t].key
               ELSE tasks'[t] = tasks[t] /\ tasks[t].group \notin Gone(listed)
    <2>0. tasks[t] \in TaskRow
      BY TaskIs DEF TypeInv, TasksOK
    <2>1. CASE t \in Stale(j.keys, tasks)
      <3>1. tasks'[t] = [tasks[t] EXCEPT !.status = "ARCHIVED",
                           !.group = IF \E l \in listed : l.task = t /\ l.group \in DOMAIN groups
                                     THEN NoGroup ELSE @]
        BY <1>3, <1>4, <2>1 DEF Closed
      <3> QED
        BY <2>0, <2>1, <3>1 DEF TaskRow
    <2>2. CASE t \notin Stale(j.keys, tasks)
      <3>1. Closed(listed)[t] = tasks[t]
        BY <1>3, <2>2 DEF Closed
      <3> QED
        BY <1>4, <2>2, <3>1 DEF CanArchive
    <2> QED
      BY <2>1, <2>2
  <1>6. Stale(KeysOf(P), tasks') = {}
    <2>1. ASSUME NEW t \in Stale(j.keys, tasks') PROVE FALSE
      <3>1. t \in DOMAIN tasks /\ tasks'[t].status = "OPEN"
        BY <1>4, <2>1 DEF Stale
      <3>2. CASE t \in Stale(j.keys, tasks)
        BY <1>5, <3>1, <3>2
      <3>3. CASE t \notin Stale(j.keys, tasks)
        <4>1. tasks'[t] = tasks[t]
          BY <1>5, <3>1, <3>3
        <4> QED
          BY <2>1, <3>1, <3>3, <4>1 DEF Stale
      <3> QED
        BY <3>2, <3>3
    <2> QED
      BY <1>1, <2>1
  <1>7. ASSUME NEW p \in P PROVE Done(p, tasks', groups')
    <2>1. PICK t \in DOMAIN tasks : FirstRow(t, p.key, tasks) /\ Linked(tasks[t], p, groups)
      BY <1>1, <1>7 DEF AllDone, Done
    <2>0. FirstRow(t, p.key, tasks')
      <3>1. \A u \in DOMAIN tasks : tasks'[u].key = tasks[u].key
        BY <1>5
      <3> QED
        BY <1>4, <2>1, <3>1 DEF FirstRow
    <2>2. CASE t \in Stale(j.keys, tasks)
      <3>1. tasks'[t].status = "ARCHIVED"
        BY <1>5, <2>2
      <3> QED
        BY <1>4, <2>0, <3>1 DEF Done, Linked
    <2>3. CASE t \notin Stale(j.keys, tasks)
      <3>1. tasks'[t] = tasks[t] /\ tasks[t].group \notin Gone(listed)
        BY <1>5, <2>3
      <3>2. Right(tasks[t].group, p, groups) => Right(tasks[t].group, p, groups')
        BY <1>4, <3>1 DEF Right
      <3>3. Linked(tasks'[t], p, groups')
        BY <2>1, <3>1, <3>2 DEF Linked
      <3> QED
        BY <1>4, <2>0, <3>3 DEF Done
    <2> QED
      BY <2>2, <2>3
  <1> QED
    BY <1>6, <1>7 DEF AllDone

LEMMA CalledIs ==
  ASSUME TypeInv
  PROVE  \A p, q \in Called : p.key = q.key => p = q
  <1>1. Snapshot \in Snap
    BY DEF TypeInv, VisitsOK, Snapshot, Snap
  <1> QED
    BY <1>1, KeysDistinct DEF Called

\* A step of a run that is alone, with what it knew before.
LEMMA RunSteps ==
  ASSUME TypeInv, NEW r \in Request, NEW P, \A p, q \in P : p.key = q.key => p = q,
         Settles(job[r], P, tasks, groups), Automation(r)
  PROVE  Settles(job'[r], P, tasks', groups') /\ UNCHANGED <<file, today>>
  <1>1. CASE ReplaceSingles(r)
    BY <1>1, ReplaceSettles DEF ReplaceSingles, tables, OnlyTasks
  <1>2. CASE Look(r) \/ FindGroup(r) \/ Scope(r) \/ Load(r) \/ List(r)
    BY <1>2, LookSettles, FindGroupSettles, ScopeSettles, LoadSettles, ListSettles
       DEF Look, FindGroup, Scope, Load, List, tables
  <1>3. CASE EnsureGroup(r)
    BY <1>3, EnsureGroupSettles DEF EnsureGroup, tables, OnlyGroups
  <1>4. CASE Insert(r)
    BY <1>4, InsertSettles DEF Insert, tables, OnlyTasks
  <1>5. CASE Update(r)
    BY <1>5, UpdateSettles DEF Update, tables, OnlyTasks
  <1>6. CASE ArchiveObsolete(r)
    <2>1. job'[r] = Idle /\ UNCHANGED <<file, today>>
      BY <1>6, JobAfter DEF ArchiveObsolete, tables, TasksAndGroups
    <2>2. Idle.at \notin Running
      BY DEF Idle, Running, Saving
    <2> QED
      BY <2>1, <2>2, OthersSettle
  <1> QED
    BY <1>1, <1>2, <1>3, <1>4, <1>5, <1>6 DEF Automation

LEMMA KnownStays ==
  ASSUME TypeInv, RunKnown, [Next]_vars
  PROVE  RunKnown'
  <1> SUFFICES ASSUME NEW r \in Request, alone'[r]
               PROVE  Settles(job'[r], Called', tasks', groups')
    BY DEF RunKnown
  <1>1. CASE UNCHANGED vars
    BY <1>1 DEF vars, tables, RunKnown, Called, Snapshot
  <1>2. CASE Run(r)
    <2> DEFINE next == [at |-> "replace", replace |-> Replaced(Snapshot), todo |-> Called,
                        keys |-> KeysOf(Called)]
    <2>1. Begins(r, next) /\ UNCHANGED tables
      BY <1>2 DEF Run, Called
    <2>2. next.at = "replace" /\ next.keys = KeysOf(Called) /\ next.todo = Called
      OBVIOUS
    <2> HIDE DEF next
    <2>3. job'[r] = next /\ UNCHANGED <<file, today>>
      BY <2>1, JobAfter DEF tables
    <2>4. Settles(next, Called, tasks', groups')
      BY <2>2 DEF Settles, Saving
    <2> QED
      BY <2>3, <2>4 DEF Called, Snapshot
  <1>3. CASE (Start(r) /\ ~ Run(r)) \/ TaskWork(r) \/ Visit(r)
    BY <1>3, OtherSteps, OthersSettle DEF Running
  <1>4. CASE Automation(r) /\ alone[r]
    <2>1. PICK P : P = Called
      OBVIOUS
    <2>2. Settles(job[r], P, tasks, groups) /\ \A p, q \in P : p.key = q.key => p = q
      BY <1>4, <2>1, CalledIs DEF RunKnown
    <2>3. Settles(job'[r], P, tasks', groups') /\ UNCHANGED <<file, today>>
      BY <1>4, <2>2, RunSteps
    <2>4. Called' = P
      BY <2>1, <2>3 DEF Called, Snapshot
    <2> QED
      BY <2>3, <2>4
  <1> QED
    BY <1>1, <1>2, <1>3, <1>4, OwnStep DEF Serve

\* The end of a run: everything is in order.
LEMMA EndOfRun ==
  ASSUME TypeInv, RunKnown, [Next]_vars, NEW r \in Request, job[r].at = "archive", job'[r] = Idle, alone'[r],
         CanArchive(job[r].listed)
  PROVE  InOrder'
  <1>1. ArchiveObsolete(r) /\ alone[r]
    <2>1. ~ UNCHANGED vars /\ job[r] # Idle
      BY DEF vars, Idle
    <2> QED
      BY <2>1, OwnStep
         DEF Serve, Automation, TaskWork, Visit, ReplaceSingles, Look, FindGroup, EnsureGroup, Scope,
             Insert, Load, Update, List, WriteStatus, Cleanup, CleanupGroup, WriteDate, ReadDate,
             SyncAppointments, WriteMark, FollowUp
  <1>2. PICK P : P = Called
    OBVIOUS
  <1>3. AllDone(P, tasks', groups') /\ Stale(KeysOf(P), tasks') = {}
    BY <1>1, <1>2, ArchiveSettles DEF RunKnown
  <1>4. Payloads(Snapshot)' = P
    BY <1>1, <1>2 DEF ArchiveObsolete, tables, TasksAndGroups, Called, Snapshot
  <1>5. Obsolete(KeysOf(P))' = {}
    BY <1>3 DEF Obsolete, Stale
  <1>6. ASSUME NEW p \in P
        PROVE  (/\ RowOf(p.key) # NoTask
                /\ tasks[RowOf(p.key)].status = "OPEN" => LinkedTo(RowOf(p.key), p))'
    <2>1. PICK t \in DOMAIN tasks' : FirstRow(t, p.key, tasks') /\ Linked(tasks'[t], p, groups')
      BY <1>3 DEF AllDone, Done
    <2>2. RowOf(p.key)' = t /\ t # NoTask
      <3>1. TasksOK'
        BY TypeNext DEF TypeInv
      <3>2. FirstRowsFound'
        BY <3>1, FirstRowIs, PTL
      <3> QED
        BY <2>1, <3>2 DEF FirstRowsFound
    <2>3. tasks'[t].status = "OPEN" => LinkedTo(t, p)'
      BY <2>1 DEF Linked, Right, LinkedTo
    <2> QED
      BY <2>2, <2>3
  <1> QED
    BY <1>4, <1>5, <1>6 DEF InOrder

LEMMA RunsKnow == Spec => []RunKnown
  <1>1. Init => RunKnown
    <2> SUFFICES ASSUME Init, NEW r \in Request PROVE Settles(job[r], Called, tasks, groups)
      BY DEF RunKnown
    <2>1. job[r].at \notin Running
      BY DEF Init, Idle, Running, Saving
    <2> QED
      BY <2>1, OthersSettle
  <1>2. TypeInv /\ RunKnown /\ [Next]_vars => RunKnown'
    BY KnownStays
  <1> QED
    BY <1>1, <1>2, OfficeInvariant, PTL DEF Spec

(* A run of the automation in which nothing else happens, and whose last   *)
(* transaction is not refused, leaves exactly the work that documents and  *)
(* dates call for: each key has its task, the one a lookup finds is linked *)
(* as its payload says, and no other automatic task is open                *)
(* (ProcessAutomationService.run), from whatever earlier runs, requests,   *)
(* failures and stops have left.                                           *)
THEOREM RunsSettle == Spec => RunSettles
  <1>1. TypeInv /\ RunKnown /\ [Next]_vars =>
          [\A r \in Request :
             job[r].at = "archive" /\ job'[r] = Idle /\ alone'[r] /\ CanArchive(job[r].listed) => InOrder']_vars
    BY EndOfRun
  <1> QED
    BY <1>1, RunsKnow, OfficeInvariant, PTL DEF Spec, RunSettles

(* A run in which nothing else happens adds no task for a key that has one *)
(* (create_or_update_automatic_task): where the index on automation_key is *)
(* missing, two tasks of one key come of runs that overlap, never of one   *)
(* run after another.                                                      *)
THEOREM RunsDoNotDouble == Spec => RunsAddNoDouble
  <1>1. ASSUME TypeInv, RunKnown, [Next]_vars, NEW r \in Request, job[r].at = "insert", job'[r] # job[r],
               alone'[r]
        PROVE  TasksWith(job[r].payload.key) = {}
    <2>1. alone[r]
      <3>1. ~ UNCHANGED vars /\ job[r] # Idle
        BY <1>1 DEF vars, Idle
      <3> QED
        BY <1>1, <3>1, OwnStep
    <2>2. Settles(job[r], Called, tasks, groups)
      BY <1>1, <2>1 DEF RunKnown
    <2> QED
      BY <1>1, <2>2 DEF Settles, Saving, TasksWith
  <1>2. TypeInv /\ RunKnown /\ [Next]_vars =>
          [\A r \in Request :
             job[r].at = "insert" /\ job'[r] # job[r] /\ alone'[r] /\ tasks' # tasks =>
               TasksWith(job[r].payload.key) = {}]_vars
    BY <1>1
  <1> QED
    BY <1>2, RunsKnow, OfficeInvariant, PTL DEF Spec, RunsAddNoDouble
=============================================================================
