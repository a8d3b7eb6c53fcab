--------------------------- MODULE WorkflowProofs ---------------------------
(***************************************************************************)
(* Proofs about Workflow, for any number of stages and of requests at a    *)
(* time.  The invariant says of a request in progress what it has read:    *)
(* its writes are meant for rows that are there, and those of a validation *)
(* or of an advance follow from what was COMPLETED then.                   *)
(***************************************************************************)
EXTENDS Workflow, WellFoundedInduction, SequenceTheorems, TLAPS

Op == {"idle", "initialize", "validate", "update", "advance", "reconcile",
       "import", "legalize", "shelve", "archive"}

ColumnType == [status  |-> {"ACTIVE", "ARCHIVED"},
               profile |-> Profile,
               current |-> 0 .. LastStage + 1]

\* What a request may want to write after it has seen these rows COMPLETED.
Sound(op, rows, seen) ==
  /\ op \notin {"validate", "update", "advance"} => DOMAIN rows = {}
  /\ op = "validate" => DOMAIN rows \cap seen = {}
  /\ op = "advance" =>
       \A i \in DOMAIN rows :
         \/ rows[i] = "COMPLETED"
         \/ /\ row[i].stage - 1 \in Stage
            /\ ~ Done(row[i].stage - 1, seen) \/ \A s \in Stage : Done(s, seen)

RequestOK(r) ==
  /\ r = [op |-> r.op, rows |-> r.rows, mis |-> r.mis, seen |-> r.seen]
  /\ r.op \in Op
  /\ \A i \in DOMAIN r.rows : i \in DOMAIN row /\ r.rows[i] \in Status
  /\ \A c \in DOMAIN r.mis : c \in DOMAIN ColumnType /\ r.mis[c] \in ColumnType[c]
  /\ r.seen \subseteq DOMAIN row
  /\ Sound(r.op, r.rows, r.seen)

TableOK ==
  /\ row \in Seq([stage : Stage, status : Status])
  /\ mis \in [status : {"ACTIVE", "ARCHIVED"}, profile : Profile, current : 0 .. LastStage + 1]
  /\ papers \subseteq Stage

WorkflowInv ==
  /\ TableOK
  /\ req = [h \in Handler |-> req[h]]
  /\ \A h \in Handler : \A r \in {req[h]} : RequestOK(r)

-----------------------------------------------------------------------------
(* The first and the last of a set of numbers, and of the rows of a stage. *)

LEMMA HasLeast ==
  ASSUME NEW S \in SUBSET Nat, S # {}
  PROVE  \E n \in S : \A m \in S : n <= m
<1> DEFINE Less == {ss \in Nat \X Nat : ss[1] < ss[2]}
<1>1. IsWellFoundedOn(Less, Nat)
  BY NatLessThanWellFounded DEF OpToRel
<1>2. \E n \in S : \A m \in S : ~ (<<m, n>> \in Less)
  BY <1>1, WFMin
<1>3. \A m, n \in Nat : m < n => <<m, n>> \in Less
  OBVIOUS
<1> HIDE DEF Less
<1>4. PICK n \in S : \A m \in S : ~ (<<m, n>> \in Less)
  BY <1>2
<1>5. ASSUME NEW m \in S PROVE n <= m
  <2>1. m \in Nat /\ n \in Nat
    BY <1>4
  <2>2. ~ (m < n)
    BY <1>3, <1>4, <2>1
  <2> QED
    BY <2>1, <2>2
<1> QED
  BY <1>4, <1>5

LEMMA MinIsIn ==
  ASSUME NEW S \in SUBSET Nat, S # {}
  PROVE  Min(S) \in S
<1>1. \E n \in S : \A m \in S : n <= m
  BY HasLeast
<1> QED
  BY <1>1 DEF Min

LEMMA MaxIsIn ==
  ASSUME NEW n \in Nat, NEW S \in SUBSET (1 .. n), S # {}
  PROVE  Max(S) \in S /\ \A y \in S : Max(S) >= y
<1> DEFINE T == {m \in 0 .. n : n - m \in S}
<1>1. T \in SUBSET Nat
  OBVIOUS
<1>2. T # {}
  <2>1. PICK x \in S : TRUE
    OBVIOUS
  <2>2. n - x \in 0 .. n /\ n - (n - x) = x
    BY <2>1
  <2> QED
    BY <2>1, <2>2
<1>3. PICK m \in T : \A k \in T : m <= k
  BY <1>1, <1>2, HasLeast
<1>4. \A y \in S : n - m >= y
  <2>1. SUFFICES ASSUME NEW y \in S PROVE n - m >= y
    OBVIOUS
  <2>2. n - y \in 0 .. n /\ n - (n - y) = y
    BY <2>1
  <2>3. m <= n - y
    BY <1>3, <2>2
  <2> QED
    BY <1>3, <2>2, <2>3
<1> QED
  BY <1>3, <1>4 DEF Max

LEMMA RowOfStage ==
  ASSUME TableOK, NEW s, Has(s)
  PROVE  RowOf(s) \in DOMAIN row /\ row[RowOf(s)].stage = s
<1>1. Len(row) \in Nat /\ DOMAIN row = 1 .. Len(row)
  BY DEF TableOK
<1>2. RowsOf(s) \in SUBSET (1 .. Len(row)) /\ RowsOf(s) # {}
  BY <1>1 DEF RowsOf, Has
<1>3. RowOf(s) \in RowsOf(s)
  BY <1>1, <1>2, MaxIsIn DEF RowOf
<1> QED
  BY <1>3 DEF RowsOf

LEMMA EarliestIsOpen ==
  ASSUME WorkflowAssumption, NEW set
  PROVE  /\ Earliest(set) \in 0 .. LastStage
         /\ Earliest(set) # New => Earliest(set) \in Open(set) /\ Earliest(set) \in Stage
         /\ Earliest(set) = New => Open(set) = {}
<1>1. Open(set) \in SUBSET Nat /\ Open(set) \subseteq 1 .. LastStage
  BY DEF Open, Stage, WorkflowAssumption
<1>2. CASE Open(set) = {}
  BY <1>2 DEF Earliest, New, WorkflowAssumption
<1>3. CASE Open(set) # {}
  <2>1. Min(Open(set)) \in Open(set)
    BY <1>1, <1>3, MinIsIn
  <2> QED
    BY <1>1, <1>3, <2>1 DEF Earliest, New, Stage, WorkflowAssumption
<1> QED
  BY <1>2, <1>3

-----------------------------------------------------------------------------
(* The steps. *)

LEMMA IdleIsOK == RequestOK(Idle) /\ RequestOK(Filling)
<1>1. Filling = [op |-> "initialize", rows |-> Nothing, mis |-> Nothing, seen |-> {}]
  BY DEF Filling, Idle
<1>2. DOMAIN Nothing = {}
  BY DEF Nothing
<1>3. Sound("idle", Nothing, {}) /\ Sound("initialize", Nothing, {})
  BY <1>2 DEF Sound
<1>4. RequestOK([op |-> "idle", rows |-> Nothing, mis |-> Nothing, seen |-> {}])
  BY <1>2, <1>3 DEF RequestOK, Op
<1>5. RequestOK([op |-> "initialize", rows |-> Nothing, mis |-> Nothing, seen |-> {}])
  BY <1>2, <1>3 DEF RequestOK, Op
<1> QED
  BY <1>1, <1>4, <1>5 DEF Idle

\* What a request has read stays as good as long as no row is added.
LEMMA KeptWithStages ==
  ASSUME NEW r, RequestOK(r), DOMAIN row' = DOMAIN row,
         \A i \in DOMAIN row : row'[i].stage = row[i].stage
  PROVE  RequestOK(r)'
<1>1. ASSUME NEW s PROVE RowsOf(s)' = RowsOf(s)
  BY DEF RowsOf
<1>2. ASSUME NEW s, NEW seen PROVE Done(s, seen)' <=> Done(s, seen)
  BY <1>1 DEF Done, Has, RowOf
<1>3. Sound(r.op, r.rows, r.seen)'
  BY <1>2 DEF RequestOK, Sound
<1> QED
  BY <1>3 DEF RequestOK

LEMMA InitHolds ==
  ASSUME WorkflowAssumption, Init
  PROVE  WorkflowInv
<1>1. TableOK
  BY DEF Init, TableOK, Profile, Dni, Stage, WorkflowAssumption
<1>2. PICK h \in Handler, profile \in Profile :
        req = [g \in Handler |-> IF g = h /\ profile = "LEGAL" THEN Filling ELSE Idle]
  BY DEF Init
<1>3. \A g \in Handler : RequestOK(req[g])
  BY <1>2, IdleIsOK
<1> QED
  BY <1>1, <1>2, <1>3 DEF WorkflowInv

\* Whatever a request has read, it only joins the others.
LEMMA ReadingHolds ==
  ASSUME WorkflowInv, NEW h \in Handler, NEW op \in Op \ {"idle", "initialize"}, NEW set, NEW columns,
         Reads(h, op, set, columns),
         \A i \in DOMAIN set : i \in DOMAIN row /\ set[i] \in Status,
         \A c \in DOMAIN columns : c \in DOMAIN ColumnType /\ columns[c] \in ColumnType[c],
         \A rows, seen :
           /\ rows = Restrict(set, {i \in DOMAIN set : set[i] # row[i].status})
           /\ seen = {i \in DOMAIN row : row[i].status = "COMPLETED"}
           => Sound(op, rows, seen)
  PROVE  WorkflowInv'
<1> DEFINE rows == Restrict(set, {i \in DOMAIN set : set[i] # row[i].status})
           news == Restrict(columns, {c \in DOMAIN columns : columns[c] # mis[c]})
           seen == {i \in DOMAIN row : row[i].status = "COMPLETED"}
           new  == [op |-> op, rows |-> rows, mis |-> news, seen |-> seen]
<1>1. req' = [req EXCEPT ![h] = new] /\ UNCHANGED <<row, mis, papers>>
  BY DEF Reads
<1>2. /\ DOMAIN rows \subseteq DOMAIN set
      /\ \A i \in DOMAIN rows : rows[i] = set[i]
      /\ DOMAIN news \subseteq DOMAIN columns
      /\ \A c \in DOMAIN news : news[c] = columns[c]
  BY DEF Restrict
<1>3. Sound(op, rows, seen)
  OBVIOUS
<1>4. RequestOK(new)
  <2> HIDE DEF rows, news, seen
  <2>1. \A i \in DOMAIN rows : i \in DOMAIN row /\ rows[i] \in Status
    BY <1>2
  <2>2. \A c \in DOMAIN news : c \in DOMAIN ColumnType /\ news[c] \in ColumnType[c]
    BY <1>2
  <2>3. seen \subseteq DOMAIN row
    BY DEF seen
  <2> QED
    BY <1>3, <2>1, <2>2, <2>3 DEF RequestOK
<1> HIDE DEF new
<1>5. \A g \in Handler : RequestOK(req'[g])
  BY <1>1, <1>4 DEF WorkflowInv
<1>6. ASSUME NEW g \in Handler, NEW r \in {req'[g]} PROVE RequestOK(r)'
  BY <1>1, <1>5, KeptWithStages
<1>7. TableOK' /\ (req = [g \in Handler |-> req[g]])'
  BY <1>1 DEF WorkflowInv, TableOK
<1> QED
  BY <1>6, <1>7 DEF WorkflowInv

LEMMA ValidateHolds ==
  ASSUME WorkflowAssumption, WorkflowInv, NEW h \in Handler, Validate(h)
  PROVE  WorkflowInv'
<1> DEFINE set == [i \in {RowOf(s) : s \in Ready} |-> "WAITING"]
           columns == [current |-> Max(Ready)]
<1>1. Reads(h, "validate", set, columns)
  BY DEF Validate
<1>2. \A s \in Ready : /\ RowOf(s) \in DOMAIN row
                       /\ row[RowOf(s)].status # "COMPLETED"
  BY RowOfStage DEF Ready, WorkflowInv
<1>3. Max(Ready) \in Stage
  <2>1. Ready \in SUBSET (1 .. LastStage) /\ Ready # {} /\ LastStage \in Nat
    BY DEF Ready, Validate, Stage, WorkflowAssumption
  <2> QED
    BY <2>1, MaxIsIn DEF Stage
<1>4. \A i \in DOMAIN set : i \in DOMAIN row /\ set[i] \in Status
  BY <1>2 DEF Status
<1>5. \A c \in DOMAIN columns : c \in DOMAIN ColumnType /\ columns[c] \in ColumnType[c]
  BY <1>3 DEF ColumnType, Stage, WorkflowAssumption
<1>6. ASSUME NEW rows, NEW seen,
             rows = Restrict(set, {i \in DOMAIN set : set[i] # row[i].status}),
             seen = {i \in DOMAIN row : row[i].status = "COMPLETED"}
      PROVE  Sound("validate", rows, seen)
  <2>1. DOMAIN rows \subseteq {RowOf(s) : s \in Ready}
    BY <1>6 DEF Restrict
  <2> QED
    BY <1>2, <1>6, <2>1 DEF Sound
<1> HIDE DEF set, columns
<1> QED
  BY <1>1, <1>4, <1>5, <1>6, ReadingHolds DEF Op

LEMMA UpdateHolds ==
  ASSUME WorkflowAssumption, WorkflowInv, NEW h \in Handler, Update(h)
  PROVE  WorkflowInv'
<1>1. PICK i \in DOMAIN row, status \in Status :
        LET set == [j \in {i} |-> status]
            archives == row[i].stage = LastStage /\ status = "COMPLETED" /\ mis.status = "ACTIVE"
        IN  Reads(h, "update", set,
                  [current |-> Earliest(set),
                   status  |-> IF archives THEN "ARCHIVED" ELSE mis.status])
  BY DEF Update
<1> DEFINE set == [j \in {i} |-> status]
           archives == row[i].stage = LastStage /\ status = "COMPLETED" /\ mis.status = "ACTIVE"
           columns == [current |-> Earliest(set),
                       status  |-> IF archives THEN "ARCHIVED" ELSE mis.status]
<1>2. Reads(h, "update", set, columns)
  BY <1>1
<1>3. \A j \in DOMAIN set : j \in DOMAIN row /\ set[j] \in Status
  OBVIOUS
<1>4. \A c \in DOMAIN columns : c \in DOMAIN ColumnType /\ columns[c] \in ColumnType[c]
  <2>1. Earliest(set) \in 0 .. LastStage + 1
    BY EarliestIsOpen DEF WorkflowAssumption
  <2>2. mis.status \in {"ACTIVE", "ARCHIVED"}
    BY DEF WorkflowInv, TableOK
  <2> HIDE DEF set, archives
  <2> QED
    BY <2>1, <2>2 DEF ColumnType
<1>5. \A rows, seen : Sound("update", rows, seen)
  BY DEF Sound
<1> HIDE DEF set, columns
<1> QED
  BY <1>2, <1>3, <1>4, <1>5, ReadingHolds DEF Op

LEMMA AdvanceHolds ==
  ASSUME WorkflowAssumption, WorkflowInv, NEW h \in Handler, Advance(h)
  PROVE  WorkflowInv'
<1> DEFINE stage == IF Earliest(Nothing) # New THEN Earliest(Nothing) ELSE mis.current
           touched == {RowOf(s) : s \in {t \in {stage, stage + 1} \cap Stage : Has(t)}}
           set == [i \in touched |->
                     IF row[i].stage = stage THEN "COMPLETED" ELSE "IN PROGRESS"]
           columns == [current |-> IF stage < LastStage THEN stage + 1 ELSE mis.current,
                       status  |-> IF stage < LastStage THEN mis.status ELSE "ARCHIVED"]
<1>1. Reads(h, "advance", set, columns) /\ stage \in Stage
  BY DEF Advance
<1>2. \A i \in touched : i \in DOMAIN row /\ row[i].stage \in {stage, stage + 1} \cap Stage
  BY RowOfStage DEF WorkflowInv
<1>3. \A i \in DOMAIN set : i \in DOMAIN row /\ set[i] \in Status
  <2> HIDE DEF touched, stage
  <2> QED
    BY <1>2 DEF Status
<1>4. \A c \in DOMAIN columns : c \in DOMAIN ColumnType /\ columns[c] \in ColumnType[c]
  <2>1. stage \in 1 .. LastStage /\ LastStage \in Nat
    BY <1>1 DEF Stage, WorkflowAssumption
  <2>2. mis.status \in {"ACTIVE", "ARCHIVED"} /\ mis.current \in 0 .. LastStage + 1
    BY DEF WorkflowInv, TableOK
  <2> HIDE DEF stage
  <2> QED
    BY <2>1, <2>2 DEF ColumnType
<1>5. ASSUME NEW rows, NEW seen,
             rows = Restrict(set, {i \in DOMAIN set : set[i] # row[i].status}),
             seen = {i \in DOMAIN row : row[i].status = "COMPLETED"}
      PROVE  Sound("advance", rows, seen)
  <2>1. ASSUME NEW i \in DOMAIN rows, rows[i] # "COMPLETED"
        PROVE  row[i].stage - 1 = stage
    <3>1. i \in touched /\ rows[i] = set[i] /\ row[i].stage # stage
      BY <1>5, <2>1 DEF Restrict
    <3> HIDE DEF stage, touched
    <3>2. row[i].stage \in {stage, stage + 1} /\ stage \in 1 .. LastStage
      BY <1>1, <1>2, <3>1 DEF Stage
    <3>3. stage \in Nat
      BY <3>2, SMT DEF WorkflowAssumption
    <3>4. row[i].stage = stage + 1
      BY <3>1, <3>2
    <3> QED
      BY <3>3, <3>4
  <2>2. SUFFICES ASSUME NEW i \in DOMAIN rows, rows[i] # "COMPLETED"
                 PROVE  ~ Done(stage, seen) \/ \A s \in Stage : Done(s, seen)
    BY <1>1, <2>1 DEF Sound
  <2>3. CASE Earliest(Nothing) # New
    <3>1. ~ Has(stage) \/ row[RowOf(stage)].status # "COMPLETED"
      BY <2>3, EarliestIsOpen DEF Open, StatusIn, Nothing
    <3> QED
      BY <1>5, <3>1 DEF Done
  <2>4. CASE Earliest(Nothing) = New
    <3>1. \A s \in Stage : Has(s) /\ row[RowOf(s)].status = "COMPLETED"
      BY <2>4, EarliestIsOpen DEF Open, StatusIn, Nothing
    <3>2. \A s \in Stage : RowOf(s) \in DOMAIN row
      BY <3>1, RowOfStage DEF WorkflowInv
    <3> QED
      BY <1>5, <3>1, <3>2 DEF Done
  <2> QED
    BY <2>3, <2>4
<1> HIDE DEF set, columns
<1> QED
  BY <1>1, <1>3, <1>4, <1>5, ReadingHolds DEF Op

LEMMA OtherReadsHold ==
  ASSUME WorkflowAssumption, WorkflowInv, NEW h \in Handler,
         Reconcile(h) \/ Import(h) \/ Shelve(h) \/ Archive(h)
  PROVE  WorkflowInv'
<1>1. DOMAIN Nothing = {}
  BY DEF Nothing
<1>2. mis.status \in {"ACTIVE", "ARCHIVED"} /\ mis.current \in 0 .. LastStage + 1
  BY DEF WorkflowInv, TableOK
<1>3. ASSUME NEW op \in {"reconcile", "import", "legalize", "shelve", "archive"}, NEW columns,
             Reads(h, op, Nothing, columns),
             \A c \in DOMAIN columns : c \in DOMAIN ColumnType /\ columns[c] \in ColumnType[c]
      PROVE  WorkflowInv'
  <2>1. ASSUME NEW rows, NEW seen,
               rows = Restrict(Nothing, {i \in DOMAIN Nothing : Nothing[i] # row[i].status})
        PROVE  Sound(op, rows, seen)
    <3>1. DOMAIN rows = {}
      BY <1>1, <2>1 DEF Restrict
    <3> QED
      BY <1>3, <3>1 DEF Sound
  <2> QED
    BY <1>1, <1>3, <2>1, ReadingHolds DEF Op
<1>4. CASE Reconcile(h)
  <2> DEFINE columns == [current |-> Earliest(Nothing)]
  <2>1. Reads(h, "reconcile", Nothing, columns)
    BY <1>4 DEF Reconcile
  <2>2. Earliest(Nothing) \in 0 .. LastStage + 1
    BY EarliestIsOpen DEF WorkflowAssumption
  <2>3. \A c \in DOMAIN columns : c \in DOMAIN ColumnType /\ columns[c] \in ColumnType[c]
    BY <2>2 DEF ColumnType
  <2> QED
    BY <1>3, <2>1, <2>3
<1>5. CASE Import(h)
  <2>1. PICK profile \in Profile :
          LET legal == profile = "LEGAL" /\ mis.profile = "PERUVIAN_DNI"
          IN  Reads(h, IF legal THEN "legalize" ELSE "import", Nothing,
                    [status  |-> "ACTIVE",
                     profile |-> profile,
                     current |-> IF profile = "PERUVIAN_DNI" THEN Dni
                                 ELSE IF legal THEN 1 ELSE mis.current])
    BY <1>5 DEF Import
  <2> DEFINE legal == profile = "LEGAL" /\ mis.profile = "PERUVIAN_DNI"
             columns == [status  |-> "ACTIVE",
                         profile |-> profile,
                         current |-> IF profile = "PERUVIAN_DNI" THEN Dni
                                     ELSE IF legal THEN 1 ELSE mis.current]
  <2>2. Reads(h, IF legal THEN "legalize" ELSE "import", Nothing, columns)
    BY <2>1
  <2>3. \A c \in DOMAIN columns : c \in DOMAIN ColumnType /\ columns[c] \in ColumnType[c]
    BY <1>2 DEF ColumnType, Dni, WorkflowAssumption
  <2> HIDE DEF columns
  <2> QED
    BY <1>3, <2>2, <2>3
<1>6. CASE Shelve(h)
  <2> DEFINE columns == [status |-> IF mis.status = "ACTIVE" THEN "ARCHIVED" ELSE "ACTIVE"]
  <2>1. Reads(h, "shelve", Nothing, columns)
    BY <1>6 DEF Shelve
  <2>2. \A c \in DOMAIN columns : c \in DOMAIN ColumnType /\ columns[c] \in ColumnType[c]
    BY DEF ColumnType
  <2> QED
    BY <1>3, <2>1, <2>2
<1>7. CASE Archive(h)
  <2> DEFINE columns == [status |-> "ARCHIVED"]
  <2>1. Reads(h, "archive", Nothing, columns)
    BY <1>7 DEF Archive
  <2>2. \A c \in DOMAIN columns : c \in DOMAIN ColumnType /\ columns[c] \in ColumnType[c]
    BY DEF ColumnType
  <2> QED
    BY <1>3, <2>1, <2>2
<1> QED
  BY <1>4, <1>5, <1>6, <1>7

LEMMA CommitHolds ==
  ASSUME WorkflowAssumption, WorkflowInv, NEW h \in Handler, Commit(h)
  PROVE  WorkflowInv'
<1> DEFINE r == req[h]
<1>1. RequestOK(r)
  BY DEF WorkflowInv
<1> DEFINE Row == [stage : Stage, status : Status]
<1>2. /\ Len(row) \in Nat /\ DOMAIN row = 1 .. Len(row)
      /\ \A i \in DOMAIN row : row[i] \in Row
  <2>1. row \in Seq(Row)
    BY DEF WorkflowInv, TableOK
  <2> HIDE DEF Row
  <2> QED
    BY <2>1, LenProperties, ElementOfSeq
<1>3. \A i \in DOMAIN row : StatusIn(i, r.rows) \in Status
  BY <1>1, <1>2 DEF StatusIn, RequestOK
<1>4. row' = [i \in 1 .. Len(row) |-> [row[i] EXCEPT !.status = StatusIn(i, r.rows)]]
  BY <1>2 DEF Commit
<1>5. \A i \in 1 .. Len(row) :
        [row[i] EXCEPT !.status = StatusIn(i, r.rows)] \in [stage : Stage, status : Status]
  BY <1>2, <1>3
<1>6. row' \in Seq([stage : Stage, status : Status]) /\ DOMAIN row' = DOMAIN row
  BY <1>2, <1>4, <1>5, IsASeq
<1>7. \A i \in DOMAIN row : row'[i].stage = row[i].stage
  BY <1>2, <1>4
<1>8. mis' \in [status : {"ACTIVE", "ARCHIVED"}, profile : Profile, current : 0 .. LastStage + 1]
  <2>1. mis \in [status : {"ACTIVE", "ARCHIVED"}, profile : Profile, current : 0 .. LastStage + 1]
    BY DEF WorkflowInv, TableOK
  <2>2. mis' = [c \in DOMAIN mis |-> IF c \in DOMAIN r.mis THEN r.mis[c] ELSE mis[c]]
    BY DEF Commit
  <2>3. \A c \in DOMAIN ColumnType : c \in DOMAIN r.mis => r.mis[c] \in ColumnType[c]
    BY <1>1 DEF RequestOK
  <2> HIDE DEF r
  <2> QED
    BY <2>1, <2>2, <2>3 DEF ColumnType
<1>9. ASSUME NEW g \in Handler, NEW q \in {req'[g]} PROVE RequestOK(q)'
  <2>1. CASE q = req[g]
    BY <1>6, <1>7, <2>1, KeptWithStages DEF WorkflowInv
  <2>2. CASE q \in {Idle, Filling}
    BY <1>6, <1>7, <2>2, IdleIsOK, KeptWithStages
  <2> QED
    BY <1>9, <2>1, <2>2 DEF Commit, WorkflowInv
<1>10. req' = [g \in Handler |-> req'[g]]
  BY DEF Commit, WorkflowInv
<1>11. TableOK'
  BY <1>6, <1>8 DEF Commit, WorkflowInv, TableOK
<1> QED
  BY <1>9, <1>10, <1>11 DEF WorkflowInv

LEMMA InitializeHolds ==
  ASSUME WorkflowAssumption, WorkflowInv, NEW h \in Handler, Initialize(h)
  PROVE  WorkflowInv'
<1> DEFINE Row == [stage : Stage, status : Status]
<1>1. /\ row \in Seq(Row) /\ Fresh \in Seq(Row)
      /\ Len(row) \in Nat /\ DOMAIN row = 1 .. Len(row) /\ Len(Fresh) = LastStage
  <2>1. row \in Seq(Row)
    BY DEF WorkflowInv, TableOK
  <2>2. Fresh \in [1 .. LastStage -> Row] /\ LastStage \in Nat
    BY DEF Fresh, Stage, Status, WorkflowAssumption
  <2> HIDE DEF Row
  <2>3. Fresh \in Seq(Row)
    BY <2>2
  <2>4. DOMAIN Fresh = 1 .. LastStage
    BY <2>2
  <2>5. Len(Fresh) = LastStage
    BY <2>2, <2>3, <2>4, LenProperties
  <2> QED
    BY <2>1, <2>3, <2>5, LenProperties
<1> HIDE DEF Row
<1>2. /\ row' \in Seq(Row) /\ DOMAIN row' = 1 .. Len(row) + LastStage
      /\ \A i \in DOMAIN row : row'[i] = row[i]
      /\ \A s \in Stage : row'[Len(row) + s] = Fresh[s]
  <2>1. row' = row \o Fresh
    BY DEF Initialize
  <2>2. /\ row' \in Seq(Row) /\ Len(row') = Len(row) + LastStage
        /\ \A i \in 1 .. Len(row) + LastStage :
             row'[i] = IF i <= Len(row) THEN row[i] ELSE Fresh[i - Len(row)]
    BY <1>1, <2>1, ConcatProperties
  <2>3. DOMAIN row' = 1 .. Len(row) + LastStage
    BY <2>2, LenProperties
  <2>4. LastStage \in Nat /\ Stage = 1 .. LastStage
    BY DEF Stage, WorkflowAssumption
  <2>5. ASSUME NEW s \in Stage PROVE row'[Len(row) + s] = Fresh[s]
    <3>1. /\ Len(row) + s \in 1 .. Len(row) + LastStage
          /\ ~ (Len(row) + s <= Len(row))
          /\ (Len(row) + s) - Len(row) = s
      BY <1>1, <2>4, SMT
    <3> QED
      BY <2>2, <3>1
  <2> QED
    BY <1>1, <2>2, <2>3, <2>4, <2>5
<1>3. ASSUME NEW s \in Stage, NEW seen, seen \subseteq DOMAIN row
      PROVE  ~ Done(s, seen)'
  <2>1. Len(row) + s \in RowsOf(s)'
    <3>1. Len(row) + s \in DOMAIN row'
      BY <1>1, <1>2 DEF Stage, WorkflowAssumption
    <3>2. row'[Len(row) + s] = Fresh[s]
      BY <1>2
    <3>3. Fresh[s].stage = s
      BY <1>3 DEF Fresh
    <3> QED
      BY <3>1, <3>2, <3>3 DEF RowsOf
  <2>2. RowsOf(s)' \in SUBSET (1 .. Len(row) + LastStage) /\ Len(row) + LastStage \in Nat
    BY <1>1, <1>2 DEF RowsOf, WorkflowAssumption
  <2>3. Max(RowsOf(s)') >= Len(row) + s /\ Max(RowsOf(s)') \in RowsOf(s)'
    BY <2>1, <2>2, MaxIsIn
  <2>4. Max(RowsOf(s)') \notin DOMAIN row
    BY <1>1, <2>2, <2>3 DEF Stage
  <2> QED
    BY <1>3, <2>4 DEF Done, RowOf
<1>4. ASSUME NEW r, RequestOK(r) PROVE RequestOK(r)'
  <2>1. DOMAIN row \subseteq DOMAIN row'
    BY <1>1, <1>2 DEF WorkflowAssumption
  <2>2. \A i \in DOMAIN r.rows : row'[i].stage = row[i].stage
    BY <1>2, <1>4 DEF RequestOK
  <2>3. \A s \in Stage : ~ Done(s, r.seen)'
    BY <1>3, <1>4 DEF RequestOK
  <2>4. Sound(r.op, r.rows, r.seen)'
    BY <1>4, <2>2, <2>3 DEF RequestOK, Sound
  <2> QED
    BY <1>4, <2>1, <2>4 DEF RequestOK
<1>5. ASSUME NEW g \in Handler, NEW q \in {req'[g]} PROVE RequestOK(q)'
  <2>1. q = Idle \/ q = req[g]
    BY <1>5 DEF Initialize, WorkflowInv
  <2> QED
    BY <1>4, <2>1, IdleIsOK DEF WorkflowInv
<1>6. req' = [g \in Handler |-> req'[g]]
  BY DEF Initialize, WorkflowInv
<1>7. TableOK'
  BY <1>2 DEF Initialize, WorkflowInv, TableOK, Row
<1> QED
  BY <1>5, <1>6, <1>7 DEF WorkflowInv

LEMMA QuietStepHolds ==
  ASSUME WorkflowInv, UNCHANGED vars \/ Paper \/ \E h \in Handler : Fail(h)
  PROVE  WorkflowInv'
<1>1. UNCHANGED <<row, mis>>
  BY DEF vars, Paper, Fail
<1>2. papers' \subseteq Stage
  BY DEF vars, Paper, Fail, WorkflowInv, TableOK
<1>3. req' = [g \in Handler |-> req'[g]] /\ \A g \in Handler : req'[g] = Idle \/ req'[g] = req[g]
  BY DEF vars, Paper, Fail, WorkflowInv
<1>4. ASSUME NEW g \in Handler, NEW q \in {req'[g]} PROVE RequestOK(q)'
  <2>1. RequestOK(q)
    BY <1>3, <1>4, IdleIsOK DEF WorkflowInv
  <2> QED
    BY <1>1, <2>1, KeptWithStages
<1> QED
  BY <1>1, <1>2, <1>3, <1>4 DEF WorkflowInv, TableOK

LEMMA StepHolds ==
  ASSUME WorkflowAssumption, WorkflowInv, [Next]_vars
  PROVE  WorkflowInv'
<1>1. CASE UNCHANGED vars \/ Paper \/ \E h \in Handler : Fail(h)
  BY <1>1, QuietStepHolds
<1>2. ASSUME NEW h \in Handler,
             \/ Validate(h) \/ Update(h) \/ Advance(h) \/ Reconcile(h) \/ Import(h) \/ Shelve(h) \/ Archive(h)
             \/ Serve(h)
      PROVE  WorkflowInv'
  BY <1>2, ValidateHolds, UpdateHolds, AdvanceHolds, OtherReadsHold, CommitHolds,
     InitializeHolds DEF Serve
<1> QED
  BY <1>1, <1>2 DEF Next

LEMMA InvariantHolds == Spec => []WorkflowInv
<1>1. Init => WorkflowInv
  BY InitHolds, WorkflowAssumption
<1>2. WorkflowInv /\ [Next]_vars => WorkflowInv'
  BY StepHolds, WorkflowAssumption
<1> QED
  BY <1>1, <1>2, PTL DEF Spec

-----------------------------------------------------------------------------
(* The theorems. *)

\* Rows, missionary and requests have their types: what a request is about to
\* write goes to rows that exist.
THEOREM TableIsTyped == Spec => []WorkflowTypeOK
<1>1. WorkflowInv => WorkflowTypeOK
  <2>1. SUFFICES ASSUME WorkflowInv PROVE WorkflowTypeOK
    OBVIOUS
  <2>2. ASSUME NEW h \in Handler
        PROVE  /\ DOMAIN req[h] = {"op", "rows", "mis", "seen"}
               /\ \A i \in DOMAIN req[h].rows : i \in DOMAIN row /\ req[h].rows[i] \in Status
    <3>1. PICK r \in {req[h]} : RequestOK(r)
      BY <2>1 DEF WorkflowInv
    <3>2. DOMAIN [op |-> r.op, rows |-> r.rows, mis |-> r.mis, seen |-> r.seen]
            = {"op", "rows", "mis", "seen"}
      OBVIOUS
    <3> QED
      BY <3>1, <3>2 DEF RequestOK
  <2> QED
    BY <2>1, <2>2 DEF WorkflowInv, TableOK, WorkflowTypeOK
<1> QED
  BY <1>1, InvariantHolds, PTL

\* A completed stage stays completed but for the four reasons that
\* CompletedStays lists, however the requests overlap.
THEOREM CompletedIsKept == Spec => CompletedStays
<1> DEFINE Kept ==
      \A i \in DOMAIN row :
        row[i].status = "COMPLETED" /\ row'[i].status # "COMPLETED" =>
          \E h \in Handler :
            /\ req'[h] # req[h]
            /\ i \in DOMAIN req[h].rows
            /\ \/ req[h].op = "update"
               \/ /\ req[h].op = "advance"
                  /\ \/ ~ Done(row[i].stage - 1, req[h].seen)
                     \/ \A s \in Stage : Done(s, req[h].seen)
               \/ i \notin req[h].seen
<1>1. WorkflowInv /\ [Next]_vars => Kept
  <2>1. SUFFICES ASSUME WorkflowInv, [Next]_vars,
                        NEW i \in DOMAIN row,
                        row[i].status = "COMPLETED", row'[i].status # "COMPLETED"
                 PROVE  \E h \in Handler :
                          /\ req'[h] # req[h]
                          /\ i \in DOMAIN req[h].rows
                          /\ \/ req[h].op = "update"
                             \/ /\ req[h].op = "advance"
                                /\ \/ ~ Done(row[i].stage - 1, req[h].seen)
                                   \/ \A s \in Stage : Done(s, req[h].seen)
                             \/ i \notin req[h].seen
    OBVIOUS
  <2>2. PICK h \in Handler : Commit(h) \/ Initialize(h)
    BY <2>1 DEF Next, vars, Paper, Validate, Update, Advance, Reconcile, Import, Shelve, Archive,
                Reads, Serve, Fail
  <2>3. ~ Initialize(h)
    <3>1. SUFFICES ASSUME Initialize(h) PROVE row'[i] = row[i]
      BY <2>1
    <3>2. row' = row \o Fresh /\ row \in Seq([stage : Stage, status : Status])
      BY <2>1, <3>1 DEF Initialize, WorkflowInv, TableOK
    <3> QED
      BY <3>2
  <2>4. Commit(h) /\ RequestOK(req[h])
    BY <2>1, <2>2, <2>3 DEF WorkflowInv
  <2>5. row'[i].status = StatusIn(i, req[h].rows)
    <3>1. row[i] \in [stage : Stage, status : Status]
      BY <2>1, ElementOfSeq, LenProperties DEF WorkflowInv, TableOK
    <3> QED
      BY <2>4, <3>1 DEF Commit
  <2>6. i \in DOMAIN req[h].rows /\ req[h].rows[i] # "COMPLETED"
    BY <2>1, <2>5 DEF StatusIn
  <2>7. req'[h] # req[h]
    BY <2>1, <2>4 DEF Commit, WorkflowInv, Idle, Filling
  <2>8. \/ req[h].op = "update"
        \/ /\ req[h].op = "advance"
           /\ \/ ~ Done(row[i].stage - 1, req[h].seen)
              \/ \A s \in Stage : Done(s, req[h].seen)
        \/ i \notin req[h].seen
    BY <2>4, <2>6 DEF RequestOK, Sound
  <2> QED
    BY <2>6, <2>7, <2>8
<1> QED
  BY <1>1, InvariantHolds, PTL DEF Spec, CompletedStays
=============================================================================
