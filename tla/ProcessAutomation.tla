------------------------- MODULE ProcessAutomation -------------------------
(***************************************************************************)
(* What services/process_automation_service.py asks for: the automatic     *)
(* tasks that a snapshot of the missionaries and their active documents    *)
(* calls for, one payload per task.  The module has no state; OfficeWork   *)
(* runs it against the tables.                                             *)
(*                                                                         *)
(* A key is [rule, of, at] for the automation_key of the code, which is    *)
(* built from the rule's name, a missionary or window, and a date.         *)
(***************************************************************************)
EXTENDS Integers, SequencesExt

CONSTANTS
  MaxMissionary,     \* missionaries are 1 .. MaxMissionary, in the order of their rows
  Expiry,            \* residency_expiration of each of them, a day
  ProrrogaWindow,    \* days before the expiration: 60 in the code
  CriticalWindow,    \* 30 in the code
  Span               \* a cluster covers its first work day and this many more: 6 in the code

Missionary == 1 .. MaxMissionary

ASSUME AutomationAssumption ==
  /\ MaxMissionary \in Nat
  /\ Expiry \in [Missionary -> Nat]
  /\ {ProrrogaWindow, CriticalWindow, Span} \subseteq Nat
  /\ CriticalWindow < ProrrogaWindow

NoDate == 0

(* A missionary's row and active documents, as far as the rules read them. *)
File == [date : Nat, ficha : BOOLEAN, approved : BOOLEAN]

Key(rule, of, at) == [rule |-> rule, of |-> of, at |-> at]
Payload(key, who) == [key |-> key, who |-> who]

(***************************************************************************)
(* Prorrogas.                                                              *)
(***************************************************************************)
OpenWindows(m, today) == {w \in {ProrrogaWindow, CriticalWindow} : Expiry[m] - w <= today}
Strongest(m, today)   == Min(OpenWindows(m, today))

(* The missionaries whose strongest open window is w and who have no approval. *)
Waiting(snap, w) ==
  {m \in Missionary : /\ ~ snap.file[m].approved
                      /\ OpenWindows(m, snap.today) # {}
                      /\ Strongest(m, snap.today) = w}

ProrrogaKey(m, w) == Key("prorroga", m, w)

(* The expiration of day d falls into the cluster that starts on this day, *)
(* greedily: a cluster starts at the first day that is more than Span days *)
(* after the start of the one before.                                      *)
Starts(days) ==
  LET start[d \in Nat] ==
        LET last == IF d = 0 THEN -(Span + 1) ELSE start[d - 1]
        IN  IF d \in days /\ d > last + Span THEN d ELSE last
  IN  start

Clusters(snap, w) ==
  LET start == Starts({Expiry[m] : m \in Waiting(snap, w)})
  IN  {{n \in Waiting(snap, w) : start[Expiry[n]] = start[Expiry[m]]} : m \in Waiting(snap, w)}

FirstDay(c, w) == Min({Expiry[m] : m \in c}) - w

ClusterPayload(c, w) ==
  IF Cardinality(c) = 1
  THEN Payload(ProrrogaKey(CHOOSE m \in c : TRUE, w), c)
  ELSE Payload(Key("group", w, FirstDay(c, w)), c)

ProrrogaPayloads(snap) ==
  UNION {{ClusterPayload(c, w) : c \in Clusters(snap, w)} : w \in {ProrrogaWindow, CriticalWindow}}

(* The keys of the single tasks that each group task replaces. *)
Replaced(snap) ==
  UNION {{{ProrrogaKey(m, w) : m \in c} : c \in {d \in Clusters(snap, w) : Cardinality(d) > 1}} :
           w \in {ProrrogaWindow, CriticalWindow}}

(***************************************************************************)
(* The other rules, and all of them.                                       *)
(***************************************************************************)
GvmPayloads(snap) ==
  {Payload(Key("gvm", m, 0), {m}) : m \in {n \in Missionary : snap.file[n].approved}}

Due(f, today) == f.date # NoDate /\ f.date < today /\ ~ f.ficha
FichaPayloads(snap) ==
  {Payload(Key("ficha", m, snap.file[m].date), {m}) :
     m \in {n \in Missionary : Due(snap.file[n], snap.today)}}

Payloads(snap) == GvmPayloads(snap) \cup FichaPayloads(snap) \cup ProrrogaPayloads(snap)

KeysOf(payloads) == {p.key : p \in payloads}

(* Which of them are next: those of one missionary after those of another, *)
(* the update before the ficha, and the prorrogas at last, in any order    *)
(* (that of the code, by their windows and work days, is one of them).     *)
Prorroga(p)  == p.key.rule \in {"prorroga", "group"}
Before(p, q) ==
  /\ ~ Prorroga(p)
  /\ \/ Prorroga(q) \/ p.key.of < q.key.of
     \/ p.key.of = q.key.of /\ p.key.rule = "gvm" /\ q # p
First(todo)  == {p \in todo : \A q \in todo : ~ Before(q, p)}

(* The rules whose tasks are archived when they are no longer asked for: not *)
(* the GVM updates, which stay until somebody completes them.               *)
Obsolescent == {"prorroga", "group", "ficha"}
=============================================================================
