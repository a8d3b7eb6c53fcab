---------------------------- MODULE FoldersProofs ----------------------------
(***************************************************************************)
(* Proofs about MissionaryFolders, for any number of missionaries, names,  *)
(* documents, requests at a time and faults: the type invariant, that no   *)
(* document loses its file but to a permanent delete of a missionary of    *)
(* its missionary's name, and that rows and files agree where a            *)
(* missionary's requests have come one after the other.                    *)
(*                                                                         *)
(* The invariant follows the names: whatever the folders are renamed to,   *)
(* the second part of a path begins with the name of the missionary it     *)
(* belongs to, in rows, on disk and in what the requests remember.  So a   *)
(* permanent delete, which takes all below one folder, only ever takes     *)
(* what belongs to that name.  The last part follows one missionary at a   *)
(* time through its request: what the rows, the folders and the files are  *)
(* at each of its steps, which the requests about others leave alone.      *)
(***************************************************************************)
EXTENDS MissionaryFolders, SequenceTheorems, FiniteSetTheorems,
        WellFoundedInduction, TLAPS

-----------------------------------------------------------------------------
(* Paths: what the operators of FolderTree return *)

Areas == {Active, Archive, Trash}

\* What names of folders are made of.
Word  == {"active", "archive", "trash"} \cup Nat
           \cup UNION {{f[m] : m \in Missionary} : f \in Naming}
Label == Seq(Word) \ {<<>>}

Path   == {p \in Seq(Label) : Len(p) >= 2 /\ p[1] \in Areas}
Folder == {p \in Path : Len(p) = 2}

\* The name a path belongs to, without the counters.
Home(p) == p[2][1]

LEMMA PathIs ==
  ASSUME NEW p \in Path
  PROVE  /\ p \in Seq(Label) /\ Len(p) \in Nat /\ Len(p) >= 2
         /\ p[1] \in Areas /\ p[1] \in Label /\ p[2] \in Label
         /\ \A i \in 1 .. Len(p) : p[i] \in Label
  <1>1. p \in Seq(Label) /\ Len(p) \in Nat /\ Len(p) >= 2 /\ p[1] \in Areas
    BY LenProperties DEF Path
  <1>2. \A i \in 1 .. Len(p) : p[i] \in Label
    BY <1>1, ElementOfSeq
  <1> QED
    BY <1>1, <1>2

LEMMA WithinIs ==
  ASSUME NEW p \in Path, NEW f \in Path
  PROVE  Within(p, f) <=> Len(f) <= Len(p) /\ \A i \in 1 .. Len(f) : p[i] = f[i]
  <1>1. /\ Len(p) \in Nat /\ Len(f) \in Nat
        /\ \A i \in 1 .. Len(p) : p[i] \in Label
        /\ \A i \in 1 .. Len(f) : f[i] \in Label
    BY PathIs
  <1>2. CASE Len(f) <= Len(p)
    <2> DEFINE a == SubSeq(f, 1, Len(f))
               b == SubSeq(p, 1, Len(f))
    <2>1. /\ a \in Seq(Label) /\ Len(a) = Len(f)
          /\ \A i \in 1 .. Len(f) : a[i] = f[i]
      <3>1. \A i \in 1 .. Len(f) : f[i] \in Label
        BY <1>1
      <3>2. /\ a \in Seq(Label)
            /\ Len(a) = IF 1 <= Len(f) THEN Len(f) - 1 + 1 ELSE 0
            /\ \A i \in 1 .. Len(f) - 1 + 1 : a[i] = f[1 + i - 1]
        BY <1>1, <3>1, SubSeqProperties
      <3> QED
        BY <1>1, <3>2, PathIs
    <2>2. /\ b \in Seq(Label) /\ Len(b) = Len(f)
          /\ \A i \in 1 .. Len(f) : b[i] = p[i]
      <3>1. \A i \in 1 .. Len(f) : p[i] \in Label
        BY <1>1, <1>2
      <3>2. /\ b \in Seq(Label)
            /\ Len(b) = IF 1 <= Len(f) THEN Len(f) - 1 + 1 ELSE 0
            /\ \A i \in 1 .. Len(f) - 1 + 1 : b[i] = p[1 + i - 1]
        BY <1>1, <3>1, SubSeqProperties
      <3> QED
        BY <1>1, <3>2, PathIs
    <2>3. a = b <=> \A i \in 1 .. Len(f) : p[i] = f[i]
      <3>1. a = b => \A i \in 1 .. Len(f) : p[i] = f[i]
        BY <2>1, <2>2
      <3>2. (\A i \in 1 .. Len(f) : p[i] = f[i]) => a = b
        BY <2>1, <2>2, SeqEqual
      <3> QED
        BY <3>1, <3>2
    <2> QED
      BY <1>2, <2>3 DEF Within, IsPrefix
  <1>3. CASE ~(Len(f) <= Len(p))
    BY <1>3 DEF Within, IsPrefix
  <1> QED
    BY <1>2, <1>3

LEMMA WithinHome ==
  ASSUME NEW p \in Path, NEW f \in Path, Within(p, f)
  PROVE  p[1] = f[1] /\ p[2] = f[2] /\ Home(p) = Home(f)
  BY WithinIs, PathIs DEF Home

LEMMA RebasedIs ==
  ASSUME NEW p \in Path, NEW from \in Path, NEW to \in Path, Within(p, from)
  PROVE  /\ Rebased(p, from, to) \in Path
         /\ Len(Rebased(p, from, to)) = Len(to) + Len(p) - Len(from)
         /\ \A i \in 1 .. Len(to) : Rebased(p, from, to)[i] = to[i]
         /\ Rebased(p, from, to)[2] = to[2]
         /\ Within(Rebased(p, from, to), to)
         /\ p = from => Rebased(p, from, to) = to
  <1> DEFINE m == Len(from) + 1
             n == Len(p)
             s == SubSeq(p, m, n)
             q == Rebased(p, from, to)
  <1>1. /\ to \in Seq(Label) /\ Len(p) \in Nat /\ Len(from) \in Nat /\ Len(to) \in Nat
        /\ Len(from) <= Len(p) /\ Len(to) >= 2 /\ Len(from) >= 2 /\ to[1] \in Areas
    BY PathIs, WithinIs
  <1>2. \A i \in m .. n : p[i] \in Label
    BY <1>1, PathIs
  <1>3. s \in Seq(Label) /\ Len(s) = (IF m <= n THEN n - m + 1 ELSE 0)
    BY <1>1, <1>2, SubSeqProperties
  <1>4. Len(s) = n - Len(from)
    BY <1>1, <1>3
  <1>5. /\ q \in Seq(Label) /\ Len(q) = Len(to) + Len(s)
        /\ \A i \in 1 .. Len(to) + Len(s) : q[i] = IF i <= Len(to) THEN to[i] ELSE s[i - Len(to)]
    BY <1>1, <1>3, ConcatProperties DEF Rebased
  <1>6. \A i \in 1 .. Len(to) : q[i] = to[i]
    BY <1>1, <1>4, <1>5
  <1>7. q \in Path /\ q[2] = to[2]
    BY <1>1, <1>4, <1>5, <1>6 DEF Path
  <1>8. Within(q, to)
    BY <1>1, <1>4, <1>5, <1>6, <1>7, WithinIs
  <1>9. p = from => q = to
    <2> SUFFICES ASSUME p = from PROVE q = to
      OBVIOUS
    <2>1. s = <<>>
      BY <1>1, SubSeqEmpty
    <2> QED
      BY <1>1, <2>1, ConcatEmptySeq DEF Rebased
  <1> QED
    BY <1>1, <1>4, <1>5, <1>6, <1>7, <1>8, <1>9

LEMMA AppendedPath ==
  ASSUME NEW p \in Path, NEW l \in Label
  PROVE  /\ Append(p, l) \in Path /\ Append(p, l)[1] = p[1] /\ Append(p, l)[2] = p[2]
         /\ Home(Append(p, l)) = Home(p)
  <1> DEFINE q == Append(p, l)
  <1>1. /\ q \in Seq(Label) /\ Len(q) = Len(p) + 1
        /\ \A i \in 1 .. Len(p) : q[i] = p[i]
    BY PathIs, AppendProperties
  <1>2. Len(p) \in Nat /\ Len(p) >= 2 /\ 1 \in 1 .. Len(p) /\ 2 \in 1 .. Len(p)
    BY PathIs
  <1> HIDE DEF q
  <1>3. q[1] = p[1] /\ q[2] = p[2] /\ Len(q) >= 2 /\ q[1] \in Areas
    BY <1>1, <1>2, PathIs
  <1>4. q \in Path
    BY <1>1, <1>3 DEF Path
  <1> QED
    BY <1>3, <1>4 DEF Home, q

LEMMA LandingIs ==
  ASSUME NEW S, NEW from \in Folder, NEW to \in Folder
  PROVE  /\ Landing(S, from, to) \in Path
         /\ Home(Landing(S, from, to)) = Home(to)
         /\ to \notin S => Landing(S, from, to) = to
  <1>1. Last(from) \in Label
    BY PathIs DEF Last, Folder
  <1> QED
    BY <1>1, AppendedPath DEF Landing, Folder

\* The path and the folders above it.
LEMMA ParentsAre ==
  ASSUME NEW p \in Path, NEW n \in 2 .. Len(p)
  PROVE  SubSeq(p, 1, n) \in Path /\ Home(SubSeq(p, 1, n)) = Home(p)
  <1>1. n \in Nat /\ n >= 2 /\ n <= Len(p) /\ \A i \in 1 .. n : p[i] \in Label
    BY PathIs
  <1>2. /\ SubSeq(p, 1, n) \in Seq(Label)
        /\ Len(SubSeq(p, 1, n)) = (IF 1 <= n THEN n - 1 + 1 ELSE 0)
        /\ \A i \in 1 .. n - 1 + 1 : SubSeq(p, 1, n)[i] = p[1 + i - 1]
    BY <1>1, SubSeqProperties
  <1>3. Len(SubSeq(p, 1, n)) = n /\ \A i \in 1 .. n : SubSeq(p, 1, n)[i] = p[i]
    BY <1>1, <1>2
  <1>4. 1 \in 1 .. n /\ 2 \in 1 .. n
    BY <1>1
  <1>5. SubSeq(p, 1, n)[1] = p[1] /\ SubSeq(p, 1, n)[2] = p[2]
    BY <1>3, <1>4
  <1> QED
    BY <1>1, <1>2, <1>3, <1>5, PathIs DEF Path, Home

LEMMA ItselfOfParents ==
  ASSUME NEW p \in Path
  PROVE  SubSeq(p, 1, Len(p)) = p
  BY PathIs, SubSeqFull

LEMMA TwoNames ==
  ASSUME NEW area \in Areas, NEW l \in Label
  PROVE  <<area, l>> \in Folder /\ <<area, l>>[1] = area /\ <<area, l>>[2] = l
  <1>1. Areas \subseteq Label
    <2>1. \A w \in Word : <<w>> \in Seq(Word) /\ <<w>> # <<>>
      OBVIOUS
    <2>2. "active" \in Word /\ "archive" \in Word /\ "trash" \in Word
      BY DEF Word
    <2> QED
      BY <2>1, <2>2 DEF Areas, Active, Archive, Trash, Label
  <1>2. <<area, l>> \in Seq(Label) /\ Len(<<area, l>>) = 2
    BY <1>1
  <1> QED
    BY <1>2 DEF Folder, Path

LEMMA MinIs ==
  ASSUME NEW S, S \subseteq Nat, S # {}
  PROVE  Min(S) \in S /\ \A k \in S : Min(S) <= k
  <1> DEFINE Less == {ss \in Nat \X Nat : ss[1] < ss[2]}
  <1>1. IsWellFoundedOn(Less, Nat)
    BY NatLessThanWellFounded DEF OpToRel
  <1>2. PICK x \in S : \A y \in S : ~(<<y, x>> \in Less)
    <2> HIDE DEF Less
    <2> QED
      BY <1>1, WFMin
  <1>3. ASSUME NEW y \in S PROVE x <= y
    <2>1. <<y, x>> \notin Less /\ x \in Nat /\ y \in Nat
      BY <1>2
    <2>2. <<y, x>> \in Nat \X Nat /\ <<y, x>>[1] = y /\ <<y, x>>[2] = x
      BY <2>1
    <2>3. ~(y < x)
      BY <2>1, <2>2
    <2> QED
      BY <2>1, <2>3
  <1> QED
    BY <1>3 DEF Min

\* With more counters than folders, one of the names is free.
LEMMA OneIsFree ==
  ASSUME NEW S, IsFiniteSet(S), NEW area, NEW l \in Label
  PROVE  \E k \in 1 .. Cardinality(S) + 1 : <<area, Append(l, k)>> \notin S
  <1> DEFINE n == Cardinality(S)
             f == [k \in 1 .. n + 1 |-> <<area, Append(l, k)>>]
  <1> SUFFICES ASSUME \A k \in 1 .. n + 1 : <<area, Append(l, k)>> \in S
               PROVE  FALSE
    OBVIOUS
  <1>1. n \in Nat
    BY FS_CardinalityType
  <1>2. f \in [1 .. n + 1 -> S]
    OBVIOUS
  <1>3. IsFiniteSet(1 .. n + 1) /\ Cardinality(1 .. n + 1) = n + 1
    BY <1>1, FS_Interval
  <1>4. PICK x, y \in 1 .. n + 1 : x # y /\ f[x] = f[y]
    <2> HIDE DEF f
    <2>1. Cardinality(S) < Cardinality(1 .. n + 1)
      BY <1>1, <1>3
    <2> QED
      BY <1>2, <1>3, <2>1, FS_PigeonHole
  <1>5. Append(l, x) = Append(l, y)
    BY <1>4
  <1>6. x \in Word /\ y \in Word /\ l \in Seq(Word)
    BY <1>1 DEF Word, Label
  <1> QED
    BY <1>4, <1>5, <1>6, AppendInjective

\* The folder that is chosen is free, in the area, and keeps the name.
LEMMA FreeFolderIs ==
  ASSUME NEW S, IsFiniteSet(S), NEW area \in Areas, NEW l \in Label
  PROVE  /\ FreeFolder(S, area, l) \in Folder \ S
         /\ FreeFolder(S, area, l)[1] = area
         /\ Home(FreeFolder(S, area, l)) = l[1]
  <1>1. CASE <<area, l>> \notin S
    BY <1>1, TwoNames DEF FreeFolder, Home
  <1>2. CASE <<area, l>> \in S
    <2> DEFINE K == {k \in 1 .. Cardinality(S) + 1 : <<area, Append(l, k)>> \notin S}
               k == Min(K)
    <2>1. Cardinality(S) \in Nat
      BY FS_CardinalityType
    <2>2. K # {} /\ K \subseteq Nat
      <3>1. PICK j \in 1 .. Cardinality(S) + 1 : <<area, Append(l, j)>> \notin S
        BY OneIsFree
      <3>2. j \in K
        BY <3>1, Zenon
      <3>3. K \subseteq Nat
        BY <2>1
      <3> QED
        BY <3>2, <3>3
    <2> HIDE DEF K
    <2>3. k \in K
      BY <2>2, MinIs
    <2> USE DEF K
    <2>4. k \in Word /\ <<area, Append(l, k)>> \notin S
      <3>1. <<area, Append(l, k)>> \notin S /\ k \in 1 .. Cardinality(S) + 1
        BY <2>3, Zenon
      <3> QED
        BY <2>1, <3>1 DEF Word
    <2> HIDE DEF k, K
    <2>5. Append(l, k) \in Label /\ Append(l, k)[1] = l[1]
      <3>1. l \in Seq(Word) /\ 1 \in 1 .. Len(l)
        BY EmptySeq, LenProperties DEF Label
      <3>2. /\ Append(l, k) \in Seq(Word) /\ Append(l, k) # <<>>
            /\ \A i \in 1 .. Len(l) : Append(l, k)[i] = l[i]
        BY <2>4, <3>1, AppendProperties
      <3> QED
        BY <3>1, <3>2 DEF Label
    <2> DEFINE p == <<area, Append(l, k)>>
    <2>6. FreeFolder(S, area, l) = p
      BY <1>2, Zenon DEF FreeFolder, k, K
    <2>7. p \in Folder /\ p[1] = area /\ p[2] = Append(l, k)
      BY <2>5, TwoNames
    <2> HIDE DEF p
    <2>8. Home(p) = l[1]
      BY <2>5, <2>7 DEF Home
    <2> QED
      BY <2>4, <2>6, <2>7, <2>8 DEF p
  <1> QED
    BY <1>1, <1>2

\* Finite sets of paths stay finite.
LEMMA ImageFinite ==
  ASSUME NEW S, IsFiniteSet(S), NEW f, DOMAIN f = S
  PROVE  IsFiniteSet({f[x] : x \in S})
  <1> DEFINE T == {f[x] : x \in S}
             g == [x \in S |-> f[x]]
  <1>1. g \in Surjection(S, T)
    BY DEF Surjection
  <1> QED
    BY <1>1, FS_Surjection

LEMMA RenamedFinite ==
  ASSUME NEW S, IsFiniteSet(S), NEW from, NEW to
  PROVE  IsFiniteSet(Renamed(S, from, to))
  <1> DEFINE f == [p \in S |-> IF Within(p, from) THEN Rebased(p, from, to) ELSE p]
  <1>1. IsFiniteSet({f[p] : p \in S})
    <2>1. DOMAIN f = S
      OBVIOUS
    <2> HIDE DEF f
    <2> QED
      BY <2>1, ImageFinite
  <1>2. Renamed(S, from, to) = {f[p] : p \in S}
    BY DEF Renamed
  <1> QED
    BY <1>1, <1>2

LEMMA ParentsFinite ==
  ASSUME NEW S, IsFiniteSet(S), NEW p \in Path
  PROVE  IsFiniteSet(WithParents(S, p))
  <1> DEFINE f == [n \in 2 .. Len(p) |-> SubSeq(p, 1, n)]
             T == {SubSeq(p, 1, n) : n \in 2 .. Len(p)}
  <1>1. IsFiniteSet(2 .. Len(p))
    BY PathIs, FS_Interval
  <1>2. IsFiniteSet({f[n] : n \in 2 .. Len(p)})
    <2>1. DOMAIN f = 2 .. Len(p)
      OBVIOUS
    <2> HIDE DEF f
    <2> QED
      BY <1>1, <2>1, ImageFinite
  <1>3. T = {f[n] : n \in 2 .. Len(p)}
    OBVIOUS
  <1> QED
    BY <1>2, <1>3, FS_Union DEF WithParents

-----------------------------------------------------------------------------
(* The inductive invariant *)

Statuses == {"none", "ACTIVE", "ARCHIVED", "TRASH"}

RowSet == [at : {"none", "row", "gone"}, status : Statuses, folder : Folder \cup {Nowhere}]

DocSet == [at : {"none"}] \cup [at : {"sent", "gone", "left"}, who : Missionary]
            \cup [at : {"row", "gone"}, who : Missionary, path : Path]

Rebasings == UNION {[S -> Path] : S \in SUBSET Document}

MoveSteps  == {"choose", "move", "rewrite", "commit", "log", "undo", "back"}
FileSteps  == {"install", "insert", "drop", "unlink"}
PurgeSteps == {"purge", "erase"}

MoveSet  == [at : MoveSteps, kind : Kind, who : Missionary, was : Statuses,
             from : Folder, to : Folder \cup {Nowhere}, docs : Rebasings \cup {<<>>}]
FileSet  == [at : FileSteps, who : Missionary, doc : Document, from : Path]
PurgeSet == [at : PurgeSteps, who : Missionary, from : Folder]

Request == {Idle} \cup MoveSet \cup FileSet \cup PurgeSet

RowsOK ==
  /\ row \in [Missionary -> RowSet]
  /\ \A m \in Missionary : Exists(m) =>
       row[m].status \in DOMAIN AreaOf /\ row[m].folder \in Folder /\ Home(row[m].folder) = name[m]

DocsOK ==
  /\ doc \in [Document -> DocSet]
  /\ \A d \in Document : Stored(d) =>
       doc[d].path \in Path /\ Home(doc[d].path) = name[doc[d].who]

\* The place of a file belongs to the name of its document's missionary.
TreeOK ==
  /\ dirs \subseteq Path /\ IsFiniteSet(dirs)
  /\ disk \in [Document -> SUBSET Path]
  /\ \A d \in Document : disk[d] \subseteq dirs
  /\ \A d \in Document : \A p \in disk[d] :
       doc[d].at # "none" /\ Home(p) = name[doc[d].who]

\* What a request knows of the documents dc and the names nm.
MoveOK(r, dc, nm) ==
  /\ Home(r.from) = nm[r.who]
  /\ r.at # "choose" => r.to \in Folder /\ Home(r.to) = nm[r.who]
  /\ r.at = "commit" => /\ r.docs \in Rebasings
                        /\ \A d \in DOMAIN r.docs :
                             dc[d].at \in {"row", "gone"} /\ dc[d].who = r.who
                               /\ Home(r.docs[d]) = nm[r.who]

FileOK(r, dc, nm) ==
  /\ dc[r.doc].who = r.who /\ Home(r.from) = nm[r.who]
  /\ r.at \in {"install", "insert"} => dc[r.doc].at = "sent"
  /\ r.at = "drop" => dc[r.doc].at \in {"row", "gone"}
  /\ r.at = "unlink" => dc[r.doc].at = "gone"

RequestOK(r, dc, nm) ==
  /\ r \in Request
  /\ r.at \in MoveSteps => MoveOK(r, dc, nm)
  /\ r.at \in FileSteps => FileOK(r, dc, nm)
  /\ r.at \in PurgeSteps => Home(r.from) = nm[r.who]

Uploading(r) == r.at \in {"install", "insert"}

RequestsOK ==
  /\ DOMAIN req = Handler
  /\ \A h \in Handler : RequestOK(req[h], doc, name)
  /\ \A h, g \in Handler :
       Uploading(req[h]) /\ Uploading(req[g]) /\ req[h].doc = req[g].doc => h = g

SeekOK ==
  seek # Idle =>
    /\ seek \in [at : {"repair"}, who : Missionary, doc : Document, path : Path]
    /\ doc[seek.doc].who = seek.who /\ doc[seek.doc].at \in {"row", "gone"}
    /\ Home(seek.path) = name[seek.who]

HistoryOK == upset \subseteq Missionary /\ purged \subseteq Missionary

TypeInv == /\ name \in Naming
           /\ RowsOK /\ DocsOK /\ TreeOK /\ RequestsOK /\ SeekOK /\ HistoryOK

\* A document with a row, or about to have one, has its file.
Held(d) == Stored(d) \/ \E h \in Handler : req[h].at = "insert" /\ req[h].doc = d
Taken(m) == \E n \in purged : name[n] = name[m]

FilesKept == \A d \in Document : Held(d) => disk[d] # {} \/ Taken(doc[d].who)

-----------------------------------------------------------------------------
(* Requests *)

LEMMA RequestIs ==
  ASSUME NEW r \in Request
  PROVE  /\ r.at \in MoveSteps <=> r \in MoveSet
         /\ r.at \in FileSteps <=> r \in FileSet
         /\ r.at \in PurgeSteps <=> r \in PurgeSet
         /\ r.at = "idle" <=> r = Idle
         /\ r.at \in {"idle"} \cup MoveSteps \cup FileSteps \cup PurgeSteps
         /\ r # Idle => r.who \in Missionary
  BY DEF Request, MoveSet, FileSet, PurgeSet, MoveSteps, FileSteps, PurgeSteps, Idle

LEMMA IdleOK ==
  ASSUME NEW dc, NEW nm
  PROVE  RequestOK(Idle, dc, nm) /\ Idle.at = "idle"
  BY DEF RequestOK, Request, Idle, MoveSteps, FileSteps, PurgeSteps

\* Documents are never forgotten, and only go from sent to row to gone.
DocsGo(dc, new) ==
  \A d \in Document :
    /\ dc[d].at # "none" => new[d].at # "none" /\ new[d].who = dc[d].who
    /\ dc[d].at \in {"row", "gone"} => new[d].at \in {"row", "gone"}
    /\ dc[d].at = "gone" => new[d].at = "gone"

LEMMA RequestStays ==
  ASSUME NEW dc, NEW new, NEW nm, NEW r, RequestOK(r, dc, nm), DocsGo(dc, new),
         Uploading(r) => new[r.doc].at = dc[r.doc].at
  PROVE  RequestOK(r, new, nm)
  <1>1. r \in Request
    BY DEF RequestOK
  <1>2. r.at \in MoveSteps => MoveOK(r, new, nm)
    <2> SUFFICES ASSUME r.at \in MoveSteps PROVE MoveOK(r, new, nm)
      OBVIOUS
    <2>1. MoveOK(r, dc, nm)
      BY DEF RequestOK
    <2>2. r.at = "commit" => DOMAIN r.docs \subseteq Document
      BY <2>1 DEF MoveOK, Rebasings
    <2> QED
      BY <2>1, <2>2 DEF MoveOK, DocsGo
  <1>3. r.at \in FileSteps => FileOK(r, new, nm)
    <2> SUFFICES ASSUME r.at \in FileSteps PROVE FileOK(r, new, nm)
      OBVIOUS
    <2>1. FileOK(r, dc, nm) /\ r.doc \in Document
      BY <1>1, RequestIs DEF RequestOK, FileSet
    <2>2. r.at \in {"install", "insert", "drop", "unlink"}
      BY DEF FileSteps
    <2> QED
      BY <2>1, <2>2 DEF FileOK, DocsGo, Uploading
  <1> QED
    BY <1>1, <1>2, <1>3 DEF RequestOK

\* A handler goes on to a request that is known to fit the new documents.
LEMMA RequestsStep ==
  ASSUME RequestsOK, UNCHANGED name, NEW h \in Handler, NEW n,
         RequestOK(n, doc', name), req' = [req EXCEPT ![h] = n],
         DocsGo(doc, doc'),
         \A g \in Handler : g # h /\ Uploading(req[g]) =>
           /\ doc'[req[g].doc].at = doc[req[g].doc].at
           /\ Uploading(n) => req[g].doc # n.doc
  PROVE  RequestsOK'
  <1>1. DOMAIN req = Handler /\ DOMAIN req' = Handler /\ req'[h] = n
        /\ \A g \in Handler : g # h => req'[g] = req[g]
    BY DEF RequestsOK
  <1>2. ASSUME NEW g \in Handler PROVE RequestOK(req'[g], doc', name')
    <2>1. CASE g = h
      BY <1>1, <2>1
    <2>2. CASE g # h
      <3>1. RequestOK(req[g], doc, name)
        BY DEF RequestsOK
      <3>2. RequestOK(req[g], doc', name)
        BY <2>2, <3>1, RequestStays
      <3> QED
        BY <1>1, <2>2, <3>2
    <2> QED
      BY <2>1, <2>2
  <1>3. ASSUME NEW a \in Handler, NEW b \in Handler, Uploading(req'[a]), Uploading(req'[b]),
               req'[a].doc = req'[b].doc
        PROVE  a = b
    BY <1>1, <1>3 DEF RequestsOK
  <1> QED
    BY <1>1, <1>2, <1>3 DEF RequestsOK

LEMMA SameDocs == DocsGo(doc, doc)
  BY DEF DocsGo

\* Without a change of the documents.
LEMMA RequestsStepOnly ==
  ASSUME RequestsOK, UNCHANGED <<name, doc>>, NEW h \in Handler, NEW n,
         RequestOK(n, doc, name), req' = [req EXCEPT ![h] = n],
         Uploading(n) => Uploading(req[h]) /\ n.doc = req[h].doc
  PROVE  RequestsOK'
  <1>1. \A g \in Handler : g # h /\ Uploading(req[g]) =>
          /\ doc'[req[g].doc].at = doc[req[g].doc].at
          /\ Uploading(n) => req[g].doc # n.doc
    BY DEF RequestsOK
  <1>2. RequestOK(n, doc', name) /\ DocsGo(doc, doc') /\ UNCHANGED name
    BY SameDocs
  <1> QED
    BY <1>1, <1>2, RequestsStep

-----------------------------------------------------------------------------
(* Parts that only the documents can disturb *)

LEMMA TreeStays ==
  ASSUME TreeOK, UNCHANGED <<name, dirs, disk>>, DocsGo(doc, doc')
  PROVE  TreeOK'
  BY DEF TreeOK, DocsGo

LEMMA SeekStays ==
  ASSUME SeekOK, UNCHANGED <<name, seek>>, DocsGo(doc, doc')
  PROVE  SeekOK'
  BY DEF SeekOK, DocsGo

LEMMA HistoryStays ==
  ASSUME TypeInv, UNCHANGED purged, upset' \subseteq upset \cup Missionary
  PROVE  HistoryOK'
  BY DEF TypeInv, HistoryOK

-----------------------------------------------------------------------------
(* Requests that change no files *)

LEMMA RowsStay ==
  ASSUME RowsOK, UNCHANGED <<name, row>>
  PROVE  RowsOK'
  BY DEF RowsOK, Exists

LEMMA DocsStay ==
  ASSUME DocsOK, UNCHANGED <<name, doc>>
  PROVE  DocsOK'
  BY DEF DocsOK, Stored

LEMMA DocIs ==
  ASSUME DocsOK, NEW d \in Document
  PROVE  /\ doc[d].at \in {"none", "sent", "row", "gone", "left"}
         /\ doc[d].at # "none" => doc[d].who \in Missionary
         /\ Stored(d) => doc[d].path \in Path /\ Home(doc[d].path) = name[doc[d].who]
  <1>1. doc[d] \in DocSet
    BY DEF DocsOK
  <1>2. /\ doc[d].at \in {"none", "sent", "row", "gone", "left"}
        /\ doc[d].at # "none" => doc[d].who \in Missionary
    BY <1>1 DEF DocSet
  <1> QED
    BY <1>2 DEF DocsOK

LEMMA HeldIs ==
  ASSUME TypeInv, NEW d \in Document, Held(d)
  PROVE  doc[d].at \in {"sent", "row"} /\ doc[d].who \in Missionary
  <1>1. CASE Stored(d)
    BY <1>1, DocIs DEF TypeInv, Stored
  <1>2. ASSUME NEW h \in Handler, req[h].at = "insert", req[h].doc = d
        PROVE  doc[d].at = "sent"
    BY <1>2 DEF TypeInv, RequestsOK, RequestOK, FileOK, FileSteps
  <1> QED
    BY <1>1, <1>2, DocIs DEF Held, TypeInv

\* A step of a handler that changes neither rows nor files.
LEMMA QuietStep ==
  ASSUME TypeInv, FilesKept, NEW h \in Handler, NEW n,
         RequestOK(n, doc, name), ~Uploading(n), req' = [req EXCEPT ![h] = n],
         UNCHANGED <<name, row, doc, dirs, disk, seek, purged>>,
         upset' \subseteq upset \cup Missionary
  PROVE  TypeInv' /\ FilesKept'
  <1>1. RequestsOK'
    BY RequestsStepOnly DEF TypeInv
  <1>2. TypeInv'
    BY <1>1, RowsStay, DocsStay, TreeStays, SeekStays, HistoryStays, SameDocs
       DEF TypeInv
  <1>3. \A d \in Document : Held(d)' => Held(d)
    <2>1. DOMAIN req = Handler
      BY DEF TypeInv, RequestsOK
    <2> QED
      BY <2>1 DEF Held, Stored, Uploading
  <1> QED
    BY <1>2, <1>3 DEF FilesKept, Taken

\* What requests add to the history is missionaries.
LEMMA WhoIs ==
  ASSUME TypeInv, NEW h \in Handler, req[h] # Idle
  PROVE  /\ req[h].who \in Missionary /\ req[h] \in Request
         /\ RequestOK(req[h], doc, name)
  BY RequestIs DEF TypeInv, RequestsOK, RequestOK

LEMMA BusyIs ==
  ASSUME TypeInv, NEW h \in Handler, req[h].at # "idle"
  PROVE  /\ req[h] # Idle /\ req[h].who \in Missionary /\ req[h] \in Request
         /\ RequestOK(req[h], doc, name)
         /\ req[h].at \in MoveSteps => req[h] \in MoveSet /\ MoveOK(req[h], doc, name)
         /\ req[h].at \in FileSteps => req[h] \in FileSet /\ FileOK(req[h], doc, name)
         /\ req[h].at \in PurgeSteps => req[h] \in PurgeSet /\ Home(req[h].from) = name[req[h].who]
  BY WhoIs, RequestIs, IdleOK DEF RequestOK

LEMMA FlightIs == InFlight \subseteq Missionary
  BY DEF InFlight

LEMMA BeginMoveKeeps ==
  ASSUME TypeInv, FilesKept, NEW h \in Handler, NEW m \in Missionary, BeginMove(h, m)
  PROVE  TypeInv' /\ FilesKept'
  <1>1. PICK kind \in Kind :
          Begins(h, [at |-> "choose", kind |-> kind, who |-> m, was |-> row[m].status,
                     from |-> row[m].folder, to |-> Nowhere, docs |-> <<>>])
    BY DEF BeginMove
  <1> DEFINE n == [at |-> "choose", kind |-> kind, who |-> m, was |-> row[m].status,
                   from |-> row[m].folder, to |-> Nowhere, docs |-> <<>>]
  <1>2. row[m].folder \in Folder /\ row[m].status \in Statuses /\ Home(row[m].folder) = name[m]
    BY DEF BeginMove, TypeInv, RowsOK, RowSet
  <1>3. RequestOK(n, doc, name) /\ ~Uploading(n)
    <2>1. n \in MoveSet
      BY <1>2 DEF MoveSet, MoveSteps
    <2>2. n.at = "choose" /\ n.who = m /\ n.from = row[m].folder
      OBVIOUS
    <2> HIDE DEF n
    <2> QED
      BY <1>2, <2>1, <2>2 DEF RequestOK, Request, MoveOK, MoveSteps, FileSteps,
         PurgeSteps,
                              Uploading
  <1>4. req' = [req EXCEPT ![h] = n] /\ upset' \subseteq upset \cup Missionary
    BY <1>1, FlightIs DEF Begins
  <1> HIDE DEF n
  <1> QED
    BY <1>3, <1>4, QuietStep DEF BeginMove, SameRows, SameFiles, Others, rows, files

LEMMA AreaIs ==
  ASSUME NEW kind \in Kind
  PROVE  Area(kind) \in Areas
  BY DEF Kind, Area, Areas

LEMMA ChooseKeeps ==
  ASSUME TypeInv, FilesKept, NEW h \in Handler, Choose(h)
  PROVE  TypeInv' /\ FilesKept'
  <1>1. /\ req[h].at = "choose" /\ UNCHANGED <<name, row, doc, dirs, disk, seek,
                                               purged, upset>>
    BY DEF Choose, SameRows, SameFiles, Others, rows, files, Ends, Goes
  <1>2. CASE Ends(h)
    BY <1>1, <1>2, QuietStep, IdleOK DEF Ends, Goes, Uploading
  <1> DEFINE free == FreeFolder(dirs, Area(req[h].kind), Last(req[h].from))
             n == [req[h] EXCEPT !.at = "move", !.to = free]
  <1>3. CASE Goes(h, n)
    <2>1. req[h] \in MoveSet /\ MoveOK(req[h], doc, name)
      BY <1>1, BusyIs DEF MoveSteps
    <2>2. free \in Folder /\ Home(free) = Home(req[h].from)
      <3>1. req[h].from \in Folder /\ req[h].kind \in Kind
        BY <2>1 DEF MoveSet
      <3>2. Last(req[h].from) = req[h].from[2] /\ req[h].from[2] \in Label
        BY <3>1, PathIs DEF Last, Folder
      <3> QED
        BY <3>1, <3>2, AreaIs, FreeFolderIs DEF TypeInv, TreeOK, Home
    <2> HIDE DEF free
    <2>3. /\ n \in MoveSet /\ n.at = "move" /\ n.to = free /\ n.from = req[h].from
          /\ n.who = req[h].who
      BY <2>1, <2>2 DEF MoveSet, MoveSteps
    <2> HIDE DEF n
    <2>4. RequestOK(n, doc, name) /\ ~Uploading(n)
      BY <2>1, <2>2, <2>3 DEF RequestOK, Request, MoveOK, MoveSteps, FileSteps,
         PurgeSteps,
                              Uploading
    <2> QED
      BY <1>1, <1>3, <2>4, QuietStep DEF Goes
  <1> QED
    BY <1>2, <1>3 DEF Choose

\* The request goes on with nothing but its next step.
LEMMA NextStepOK ==
  ASSUME NEW r \in MoveSet, NEW dc, NEW nm, MoveOK(r, dc, nm), r.at # "choose",
         NEW step \in {"rewrite", "log", "undo", "back"}
  PROVE  LET n == [r EXCEPT !.at = step] IN
         /\ n \in MoveSet /\ n.at = step /\ RequestOK(n, dc, nm) /\ ~Uploading(n)
         /\ n.who = r.who /\ n.from = r.from /\ n.to = r.to /\ n.kind = r.kind /\ n.was = r.was
         /\ n.docs = r.docs
  <1> DEFINE n == [r EXCEPT !.at = step]
  <1>1. /\ n \in MoveSet /\ n.at = step /\ n.who = r.who /\ n.from = r.from /\ n.to = r.to
        /\ n.kind = r.kind /\ n.was = r.was /\ n.docs = r.docs
    BY DEF MoveSet, MoveSteps
  <1> HIDE DEF n
  <1>2. RequestOK(n, dc, nm) /\ ~Uploading(n)
    BY <1>1 DEF RequestOK, Request, MoveOK, MoveSteps, FileSteps, PurgeSteps, Uploading
  <1> QED
    BY <1>1, <1>2 DEF n

LEMMA RewriteKeeps ==
  ASSUME TypeInv, FilesKept, NEW h \in Handler, Rewrite(h)
  PROVE  TypeInv' /\ FilesKept'
  <1> DEFINE r == req[h]
             Moved == {d \in Document :
                         Stored(d) /\ doc[d].who = r.who /\ Within(doc[d].path, r.from)}
             S == IF r.from = r.to THEN {} ELSE Moved
             paths == [d \in S |-> Rebased(doc[d].path, r.from, r.to)]
             n == [r EXCEPT !.at = "commit", !.docs = paths]
  <1>1. /\ r.at = "rewrite" /\ req' = [req EXCEPT ![h] = n]
        /\ UNCHANGED <<name, row, doc, dirs, disk, seek, purged, upset>>
    BY DEF Rewrite, SameRows, SameFiles, Others, rows, files, Goes
  <1>2. r \in MoveSet /\ MoveOK(r, doc, name)
    BY <1>1, BusyIs DEF MoveSteps
  <1>3. /\ r.from \in Folder /\ r.to \in Folder /\ Home(r.to) = name[r.who]
    BY <1>1, <1>2 DEF MoveSet, MoveOK
  <1>4. ASSUME NEW d \in S
        PROVE  /\ d \in Document /\ Stored(d) /\ doc[d].who = r.who
               /\ Rebased(doc[d].path, r.from, r.to) \in Path
               /\ Home(Rebased(doc[d].path, r.from, r.to)) = name[r.who]
    <2>1. d \in Document /\ Stored(d) /\ doc[d].who = r.who /\ Within(doc[d].path, r.from)
      OBVIOUS
    <2>2. doc[d].path \in Path
      BY <2>1, DocIs DEF TypeInv
    <2> QED
      BY <1>3, <2>1, <2>2, RebasedIs DEF Folder, Home
  <1>5. paths \in Rebasings /\ DOMAIN paths = S
    <2>1. S \in SUBSET Document
      BY <1>4
    <2>2. paths \in [S -> Path]
      BY <1>4
    <2> QED
      BY <2>1, <2>2 DEF Rebasings
  <1>6. \A d \in S : Home(paths[d]) = name[r.who]
    BY <1>4
  <1> HIDE DEF paths
  <1>7. /\ n \in MoveSet /\ n.at = "commit" /\ n.docs = paths /\ n.who = r.who
        /\ n.from = r.from /\ n.to = r.to
    BY <1>2, <1>5 DEF MoveSet, MoveSteps
  <1> HIDE DEF n
  <1>8. MoveOK(n, doc, name)
    BY <1>2, <1>3, <1>4, <1>5, <1>6, <1>7 DEF MoveOK, Stored
  <1>9. RequestOK(n, doc, name) /\ ~Uploading(n)
    BY <1>7, <1>8 DEF RequestOK, Request, MoveSteps, FileSteps, PurgeSteps, Uploading
  <1> QED
    BY <1>1, <1>9, QuietStep

LEMMA CommitFailsKeeps ==
  ASSUME TypeInv, FilesKept, NEW h \in Handler, CommitFails(h)
  PROVE  TypeInv' /\ FilesKept'
  <1>1. /\ req[h].at \in {"rewrite", "commit"}
        /\ req' = [req EXCEPT ![h] = [req[h] EXCEPT !.at = "undo"]]
        /\ UNCHANGED <<name, row, doc, dirs, disk, seek, purged, upset>>
    BY DEF CommitFails, SameRows, SameFiles, Others, rows, files, Goes
  <1>2. req[h] \in MoveSet /\ MoveOK(req[h], doc, name)
    BY <1>1, BusyIs DEF MoveSteps
  <1> QED
    BY <1>1, <1>2, NextStepOK, QuietStep

LEMMA LogKeeps ==
  ASSUME TypeInv, FilesKept, NEW h \in Handler, Log(h)
  PROVE  TypeInv' /\ FilesKept'
  <1>1. /\ req[h].at = "log"
        /\ UNCHANGED <<name, row, doc, dirs, disk, seek, purged, upset>>
        /\ \/ req' = [req EXCEPT ![h] = Idle]
           \/ req' = [req EXCEPT ![h] = [req[h] EXCEPT !.at = "undo"]]
    BY DEF Log, SameRows, SameFiles, Others, rows, files, Goes, Ends
  <1>2. req[h] \in MoveSet /\ MoveOK(req[h], doc, name)
    BY <1>1, BusyIs DEF MoveSteps
  <1> QED
    BY <1>1, <1>2, NextStepOK, IdleOK, QuietStep DEF Uploading

LEMMA UndoKeeps ==
  ASSUME TypeInv, FilesKept, NEW h \in Handler, Undo(h)
  PROVE  TypeInv' /\ FilesKept'
  <1>1. /\ req[h].at = "undo" /\ upset' \subseteq upset \cup {req[h].who}
        /\ UNCHANGED <<name, row, doc, dirs, disk, seek, purged>>
        /\ \/ req' = [req EXCEPT ![h] = Idle]
           \/ req' = [req EXCEPT ![h] = [req[h] EXCEPT !.at = "back"]]
    BY DEF Undo, GivesUp, SameRows, SameFiles, Others, rows, files, Goes, Ends, Breaks
  <1>2. /\ req[h] \in MoveSet /\ MoveOK(req[h], doc, name) /\ req[h].who \in Missionary
    BY <1>1, BusyIs DEF MoveSteps
  <1>3. upset' \subseteq upset \cup Missionary
    BY <1>1, <1>2
  <1>4. CASE req' = [req EXCEPT ![h] = Idle]
    BY <1>1, <1>3, <1>4, IdleOK, QuietStep DEF Uploading
  <1>5. CASE req' = [req EXCEPT ![h] = [req[h] EXCEPT !.at = "back"]]
    BY <1>1, <1>2, <1>3, <1>5, NextStepOK, QuietStep
  <1> QED
    BY <1>1, <1>4, <1>5

LEMMA BeginDeleteKeeps ==
  ASSUME TypeInv, FilesKept, NEW h \in Handler, NEW d \in Document, BeginDelete(h, d)
  PROVE  TypeInv' /\ FilesKept'
  <1> DEFINE n == [at |-> "drop", who |-> doc[d].who, doc |-> d, from |-> doc[d].path]
  <1>1. /\ Stored(d) /\ req' = [req EXCEPT ![h] = n] /\ upset' \subseteq upset \cup Missionary
        /\ UNCHANGED <<name, row, doc, dirs, disk, seek, purged>>
    BY FlightIs DEF BeginDelete, Begins, SameRows, SameFiles, Others, rows, files
  <1>2. doc[d].who \in Missionary /\ doc[d].path \in Path /\ Home(doc[d].path) = name[doc[d].who]
    BY <1>1, DocIs DEF TypeInv, Stored
  <1>3. n \in FileSet /\ n.at = "drop" /\ n.doc = d /\ n.who = doc[d].who /\ n.from = doc[d].path
    BY <1>2 DEF FileSet, FileSteps
  <1> HIDE DEF n
  <1>4. RequestOK(n, doc, name) /\ ~Uploading(n)
    BY <1>1, <1>2, <1>3 DEF RequestOK, Request, FileOK, MoveSteps, FileSteps,
       PurgeSteps,
                            Uploading, Stored
  <1> QED
    BY <1>1, <1>4, QuietStep

LEMMA BeginHardDeleteKeeps ==
  ASSUME TypeInv, FilesKept, NEW h \in Handler, NEW m \in Missionary, BeginHardDelete(h, m)
  PROVE  TypeInv' /\ FilesKept'
  <1> DEFINE n == [at |-> "purge", who |-> m, from |-> row[m].folder]
  <1>1. /\ Exists(m) /\ req' = [req EXCEPT ![h] = n] /\ upset' \subseteq upset \cup Missionary
        /\ UNCHANGED <<name, row, doc, dirs, disk, seek, purged>>
    BY FlightIs DEF BeginHardDelete, Begins, SameRows, SameFiles, Others, rows, files
  <1>2. row[m].folder \in Folder /\ Home(row[m].folder) = name[m]
    BY <1>1 DEF TypeInv, RowsOK
  <1>3. n \in PurgeSet /\ n.at = "purge" /\ n.who = m /\ n.from = row[m].folder
    BY <1>2 DEF PurgeSet, PurgeSteps
  <1> HIDE DEF n
  <1>4. RequestOK(n, doc, name) /\ ~Uploading(n)
    BY <1>1, <1>2, <1>3 DEF RequestOK, Request, MoveSteps, FileSteps, PurgeSteps,
       Uploading
  <1> QED
    BY <1>1, <1>4, QuietStep

-----------------------------------------------------------------------------
(* Rows that come and change *)

LEMMA StatusesAre == DOMAIN AreaOf = {"ACTIVE", "ARCHIVED", "TRASH"}
  BY DEF AreaOf

LEMMA BeginRosterKeeps ==
  ASSUME TypeInv, FilesKept, NEW h \in Handler, NEW m \in Missionary, BeginRoster(h, m)
  PROVE  TypeInv' /\ FilesKept'
  <1> DEFINE n == [at |-> "choose", kind |-> "roster", who |-> m, was |-> "ACTIVE",
                   from |-> row[m].folder, to |-> Nowhere, docs |-> <<>>]
  <1>1. /\ Exists(m) /\ row' = [row EXCEPT ![m].status = "ACTIVE"]
        /\ req' = [req EXCEPT ![h] = n] /\ upset' \subseteq upset \cup Missionary
        /\ UNCHANGED <<name, doc, dirs, disk, seek, purged>>
    BY FlightIs DEF BeginRoster, Begins, SameFiles, Others, files
  <1>2. row[m].folder \in Folder /\ Home(row[m].folder) = name[m] /\ row[m] \in RowSet
    BY <1>1 DEF TypeInv, RowsOK
  <1>3. /\ n \in MoveSet /\ n.at = "choose" /\ n.who = m /\ n.from = row[m].folder
    BY <1>2 DEF MoveSet, MoveSteps, Kind, Statuses
  <1> HIDE DEF n
  <1>4. RequestOK(n, doc, name) /\ ~Uploading(n)
    BY <1>2, <1>3 DEF RequestOK, Request, MoveOK, MoveSteps, FileSteps, PurgeSteps,
       Uploading
  <1>5. RequestsOK'
    BY <1>1, <1>4, RequestsStepOnly DEF TypeInv
  <1>6. RowsOK'
    <2>1. row' \in [Missionary -> RowSet]
      BY <1>1, <1>2 DEF TypeInv, RowsOK, RowSet, Statuses
    <2>2. ASSUME NEW k \in Missionary, row'[k].at = "row"
          PROVE  /\ row'[k].status \in DOMAIN AreaOf /\ row'[k].folder \in Folder
                 /\ Home(row'[k].folder) = name[k]
      <3>1. row[k].at = "row" /\ row'[k].folder = row[k].folder
        BY <1>1, <1>2, <2>2 DEF TypeInv, RowsOK, RowSet
      <3>2. row'[k].status = row[k].status \/ row'[k].status = "ACTIVE"
        BY <1>1, <1>2, <2>2 DEF TypeInv, RowsOK, RowSet
      <3> QED
        BY <3>1, <3>2, StatusesAre DEF TypeInv, RowsOK, Exists
    <2> QED
      BY <1>1, <2>1, <2>2 DEF RowsOK, Exists
  <1>7. TypeInv'
    BY <1>1, <1>5, <1>6, DocsStay, TreeStays, SeekStays, HistoryStays, SameDocs
       DEF TypeInv
  <1>8. \A d \in Document : Held(d)' => Held(d)
    <2>1. DOMAIN req = Handler
      BY DEF TypeInv, RequestsOK
    <2> QED
      BY <1>1, <1>4, <2>1 DEF Held, Stored, Uploading
  <1> QED
    BY <1>1, <1>7, <1>8 DEF FilesKept, Taken

LEMMA RequestsStay ==
  ASSUME RequestsOK, UNCHANGED <<name, doc, req>>
  PROVE  RequestsOK'
  BY DEF RequestsOK

LEMMA WithParentsIs ==
  ASSUME NEW S, S \subseteq Path, IsFiniteSet(S), NEW p \in Path
  PROVE  /\ WithParents(S, p) \subseteq Path /\ IsFiniteSet(WithParents(S, p))
         /\ S \subseteq WithParents(S, p) /\ p \in WithParents(S, p)
         /\ \A q \in WithParents(S, p) \ S : Home(q) = Home(p)
  <1>1. Len(p) \in 2 .. Len(p)
    BY PathIs
  <1>2. p \in {SubSeq(p, 1, n) : n \in 2 .. Len(p)}
    BY <1>1, ItselfOfParents
  <1>3. \A q \in {SubSeq(p, 1, n) : n \in 2 .. Len(p)} : q \in Path /\ Home(q) = Home(p)
    BY ParentsAre
  <1> QED
    BY <1>2, <1>3, ParentsFinite DEF WithParents

LEMMA FirstFolder ==
  ASSUME TypeInv, NEW m \in Missionary
  PROVE  /\ <<Active, <<name[m]>>>> \in Folder /\ Home(<<Active, <<name[m]>>>>) = name[m]
         /\ <<Active, <<name[m]>>>>[1] = Active
  <1>1. name[m] \in Word
    BY DEF TypeInv, Word
  <1>2. <<name[m]>> \in Label /\ <<name[m]>>[1] = name[m]
    BY <1>1 DEF Label
  <1>3. Active \in Areas
    BY DEF Areas
  <1> QED
    BY <1>2, <1>3, TwoNames DEF Home

LEMMA CreateKeeps ==
  ASSUME TypeInv, FilesKept, NEW m \in Missionary, Create(m)
  PROVE  TypeInv' /\ FilesKept'
  <1> DEFINE f == <<Active, <<name[m]>>>>
  <1>1. /\ row[m] = Absent /\ dirs' = WithParents(dirs, f)
        /\ \/ row' = [row EXCEPT ![m] = [at |-> "row", status |-> "ACTIVE", folder |-> f]]
           \/ row' = [row EXCEPT ![m].at = "gone"]
        /\ UNCHANGED <<name, doc, disk, req, upset, seek, purged>>
    BY DEF Create, Others
  <1>2. f \in Folder /\ Home(f) = name[m] /\ f \in Path
    BY FirstFolder DEF Folder
  <1> HIDE DEF f
  <1>3. RowsOK'
    <2>1. CASE row' = [row EXCEPT ![m] = [at |-> "row", status |-> "ACTIVE", folder |-> f]]
      <3> DEFINE w == [at |-> "row", status |-> "ACTIVE", folder |-> f]
      <3>1. w \in RowSet /\ w.status = "ACTIVE" /\ w.folder = f
        BY <1>2 DEF RowSet, Statuses
      <3> HIDE DEF w
      <3>2. row' \in [Missionary -> RowSet]
        BY <2>1, <3>1 DEF TypeInv, RowsOK, w
      <3>3. row'[m] = w /\ \A k \in Missionary : k # m => row'[k] = row[k]
        BY <2>1 DEF TypeInv, RowsOK, w
      <3> QED
        BY <1>1, <1>2, <3>1, <3>2, <3>3, StatusesAre DEF TypeInv, RowsOK, Exists
    <2>2. CASE row' = [row EXCEPT ![m].at = "gone"]
      <3>1. row[m] \in RowSet
        BY DEF TypeInv, RowsOK
      <3>2. /\ row' \in [Missionary -> RowSet] /\ row'[m].at = "gone"
            /\ \A k \in Missionary : k # m => row'[k] = row[k]
        BY <2>2, <3>1 DEF TypeInv, RowsOK, RowSet
      <3> QED
        BY <1>1, <3>2 DEF TypeInv, RowsOK, Exists
    <2> QED
      BY <1>1, <2>1, <2>2
  <1>4. TreeOK'
    BY <1>1, <1>2, WithParentsIs DEF TypeInv, TreeOK
  <1>5. HistoryOK'
    BY <1>1 DEF TypeInv, HistoryOK
  <1>6. TypeInv'
    BY <1>1, <1>3, <1>4, <1>5, DocsStay, RequestsStay, SeekStays, SameDocs DEF TypeInv
  <1> QED
    BY <1>1, <1>6 DEF FilesKept, Held, Stored, Taken

-----------------------------------------------------------------------------
(* The folder moves *)

LEMMA RenamedIs ==
  ASSUME NEW S, S \subseteq Path, NEW from \in Path, NEW to \in Path, Home(from) = Home(to)
  PROVE  /\ Renamed(S, from, to) \subseteq Path
         /\ \A q \in Renamed(S, from, to) :
              \/ q \in S /\ ~Within(q, from)
              \/ Within(q, to) /\ \E p \in S : Within(p, from) /\ q = Rebased(p, from, to)
         /\ \A q \in Renamed(S, from, to) : \E p \in S : Home(p) = Home(q)
         /\ S # {} => Renamed(S, from, to) # {}
  <1> DEFINE New(p) == IF Within(p, from) THEN Rebased(p, from, to) ELSE p
  <1>1. ASSUME NEW p \in S, Within(p, from)
        PROVE  /\ New(p) = Rebased(p, from, to) /\ New(p) \in Path
               /\ Within(New(p), to) /\ Home(New(p)) = Home(p)
    <2>1. /\ Rebased(p, from, to) \in Path /\ Within(Rebased(p, from, to), to)
          /\ Rebased(p, from, to)[2] = to[2]
      BY <1>1, RebasedIs
    <2>2. Home(p) = Home(from)
      BY <1>1, WithinHome
    <2> QED
      BY <1>1, <2>1, <2>2 DEF Home
  <1>2. ASSUME NEW p \in S, ~Within(p, from)
        PROVE  New(p) = p
    BY <1>2
  <1>3. Renamed(S, from, to) = {New(p) : p \in S}
    BY DEF Renamed
  <1> HIDE DEF New
  <1> QED
    BY <1>1, <1>2, <1>3

LEMMA RenamedMonotone ==
  ASSUME NEW S, NEW T, T \subseteq S, NEW from, NEW to
  PROVE  Renamed(T, from, to) \subseteq Renamed(S, from, to)
  BY DEF Renamed

LEMMA RenameTree ==
  ASSUME TreeOK, UNCHANGED <<name, doc>>, NEW from \in Path, NEW to \in Path,
         Home(from) = Home(to), Rename(from, to)
  PROVE  TreeOK' /\ \A d \in Document : disk[d] # {} => disk'[d] # {}
  <1>1. dirs' = Renamed(dirs, from, to) /\ disk' = [d \in Document |-> Renamed(disk[d], from, to)]
    BY DEF Rename
  <1>2. dirs' \subseteq Path /\ IsFiniteSet(dirs')
    BY <1>1, RenamedIs, RenamedFinite DEF TreeOK
  <1>3. ASSUME NEW d \in Document
        PROVE  /\ disk'[d] \subseteq dirs'
               /\ \A p \in disk'[d] : doc[d].at # "none" /\ Home(p) = name[doc[d].who]
               /\ disk[d] # {} => disk'[d] # {}
    <2>1. disk[d] \subseteq Path /\ disk[d] \subseteq dirs /\ disk'[d] = Renamed(disk[d], from, to)
      BY <1>1 DEF TreeOK
    <2>2. disk'[d] \subseteq dirs'
      BY <1>1, <2>1, RenamedMonotone
    <2>3. /\ \A q \in disk'[d] : \E p \in disk[d] : Home(p) = Home(q)
          /\ disk[d] # {} => disk'[d] # {}
      BY <2>1, RenamedIs
    <2> QED
      BY <2>2, <2>3 DEF TreeOK
  <1>4. disk' \in [Document -> SUBSET Path]
    <2>1. \A d \in Document : Renamed(disk[d], from, to) \subseteq Path
      BY <1>1, <1>2, <1>3
    <2> QED
      BY <1>1, <2>1
  <1> QED
    BY <1>2, <1>3, <1>4 DEF TreeOK

\* What a move has in its hands.
LEMMA MoveIs ==
  ASSUME TypeInv, NEW h \in Handler, req[h].at \in MoveSteps
  PROVE  /\ req[h] \in MoveSet /\ MoveOK(req[h], doc, name) /\ req[h].who \in Missionary
         /\ req[h].from \in Folder /\ req[h].from \in Path /\ Home(req[h].from) = name[req[h].who]
         /\ req[h].at # "choose" =>
              /\ req[h].to \in Folder /\ req[h].to \in Path
              /\ Home(req[h].to) = name[req[h].who]
              /\ Landing(dirs, req[h].from, req[h].to) \in Path
              /\ Home(Landing(dirs, req[h].from, req[h].to)) = name[req[h].who]
              /\ Landing(dirs, req[h].to, req[h].from) \in Path
              /\ Home(Landing(dirs, req[h].to, req[h].from)) = name[req[h].who]
  <1>1. req[h] \in MoveSet /\ MoveOK(req[h], doc, name) /\ req[h].who \in Missionary
    BY BusyIs DEF MoveSteps
  <1>2. req[h].from \in Folder
    BY <1>1 DEF MoveSet
  <1> QED
    BY <1>1, <1>2, LandingIs DEF MoveOK, Folder

\* A step of a handler that changes the folders, but no rows.
LEMMA TreeStep ==
  ASSUME TypeInv, FilesKept, NEW h \in Handler, NEW n,
         RequestOK(n, doc, name), ~Uploading(n), req' = [req EXCEPT ![h] = n],
         UNCHANGED <<name, row, doc, seek>>, TreeOK',
         purged \subseteq purged', HistoryOK',
         \A d \in Document : Held(d) /\ disk[d] # {} => disk'[d] # {} \/ Taken(doc[d].who)'
  PROVE  TypeInv' /\ FilesKept'
  <1>1. RequestsOK'
    BY RequestsStepOnly DEF TypeInv
  <1>2. TypeInv'
    BY <1>1, RowsStay, DocsStay, SeekStays, SameDocs DEF TypeInv
  <1>3. \A d \in Document : Held(d)' => Held(d)
    <2>1. DOMAIN req = Handler
      BY DEF TypeInv, RequestsOK
    <2> QED
      BY <2>1 DEF Held, Stored, Uploading
  <1> QED
    BY <1>2, <1>3 DEF FilesKept, Taken

LEMMA MoveKeeps ==
  ASSUME TypeInv, FilesKept, NEW h \in Handler, Move(h)
  PROVE  TypeInv' /\ FilesKept'
  <1> DEFINE r == req[h]
             to == Landing(dirs, r.from, r.to)
             n == [r EXCEPT !.at = "rewrite"]
  <1>1. /\ r.at = "move" /\ req' = [req EXCEPT ![h] = n]
        /\ UNCHANGED <<dirs, disk>> \/ Rename(r.from, to)
        /\ UNCHANGED <<name, row, doc, seek, purged, upset>>
    BY DEF Move, SameRows, SameFiles, Others, rows, files, Goes
  <1>2. /\ r \in MoveSet /\ MoveOK(r, doc, name) /\ r.from \in Path /\ to \in Path
        /\ Home(r.from) = Home(to)
    BY <1>1, MoveIs DEF MoveSteps
  <1>3. RequestOK(n, doc, name) /\ ~Uploading(n)
    BY <1>1, <1>2, NextStepOK
  <1> HIDE DEF n, to
  <1>4. TreeOK' /\ \A d \in Document : disk[d] # {} => disk'[d] # {}
    <2>1. CASE UNCHANGED <<dirs, disk>>
      BY <1>1, <2>1, TreeStays, SameDocs DEF TypeInv
    <2>2. CASE Rename(r.from, to)
      BY <1>1, <1>2, <2>2, RenameTree DEF TypeInv
    <2> QED
      BY <1>1, <2>1, <2>2
  <1>5. HistoryOK'
    BY <1>1 DEF TypeInv, HistoryOK
  <1> QED
    BY <1>1, <1>3, <1>4, <1>5, TreeStep

LEMMA MoveBackKeeps ==
  ASSUME TypeInv, FilesKept, NEW h \in Handler, MoveBack(h)
  PROVE  TypeInv' /\ FilesKept'
  <1> DEFINE r == req[h]
             to == Landing(dirs, r.to, r.from)
  <1>1. /\ r.at = "back" /\ req' = [req EXCEPT ![h] = Idle] /\ Rename(r.to, to)
        /\ upset' \subseteq upset \cup {r.who}
        /\ UNCHANGED <<name, row, doc, seek, purged>>
    BY DEF MoveBack, GivesUp, SameRows, Others, rows, Goes, Ends, Breaks
  <1>2. /\ r.to \in Path /\ to \in Path /\ Home(r.to) = Home(to) /\ r.who \in Missionary
    BY <1>1, MoveIs DEF MoveSteps
  <1> HIDE DEF to
  <1>3. TreeOK' /\ \A d \in Document : disk[d] # {} => disk'[d] # {}
    BY <1>1, <1>2, RenameTree DEF TypeInv
  <1>4. HistoryOK'
    BY <1>1, <1>2 DEF TypeInv, HistoryOK
  <1>5. RequestOK(Idle, doc, name) /\ ~Uploading(Idle)
    BY IdleOK DEF Uploading
  <1> QED
    BY <1>1, <1>3, <1>4, <1>5, TreeStep

-----------------------------------------------------------------------------
(* A move that fails half-way *)

LEMMA CopyIs ==
  ASSUME NEW from, NEW to, CopyPartly(from, to), NEW d \in Document
  PROVE  LET Copies == {Rebased(p, from, to) : p \in {q \in disk[d] : Within(q, from)}}
             Rest   == {q \in disk[d] : ~Within(q, from)}
         IN  \/ disk'[d] = disk[d] \/ disk'[d] = disk[d] \cup Copies
             \/ disk'[d] = Copies \cup disk[d] \/ disk'[d] = Copies \cup Rest
  BY DEF CopyPartly

LEMMA CopyTree ==
  ASSUME TreeOK, UNCHANGED <<name, doc>>, NEW from \in Path, NEW to \in Path,
         Home(from) = Home(to), CopyPartly(from, to)
  PROVE  TreeOK' /\ \A d \in Document : disk[d] # {} => disk'[d] # {}
  <1> DEFINE Copies(d) == {Rebased(p, from, to) : p \in {q \in disk[d] : Within(q, from)}}
             Rest(d) == {q \in disk[d] : ~Within(q, from)}
  <1>1. \A d \in Document : Copies(d) \subseteq Renamed(disk[d], from, to)
    BY DEF Renamed
  <1>2. \A d \in Document : disk[d] # {} => Copies(d) \cup Rest(d) # {}
    OBVIOUS
  <1>3. ASSUME NEW d \in Document
        PROVE  /\ disk'[d] \subseteq disk[d] \cup Renamed(disk[d], from, to)
               /\ disk[d] # {} => disk'[d] # {}
    <2>1. \/ disk'[d] = disk[d] \/ disk'[d] = disk[d] \cup Copies(d)
          \/ disk'[d] = Copies(d) \cup disk[d] \/ disk'[d] = Copies(d) \cup Rest(d)
      BY CopyIs
    <2>2. Rest(d) \subseteq disk[d]
      OBVIOUS
    <2> HIDE DEF Copies, Rest
    <2> QED
      BY <1>1, <1>2, <2>1, <2>2
  <1>4. dirs' = dirs \cup Renamed(dirs, from, to) /\ disk' = [d \in Document |-> disk'[d]]
    BY DEF CopyPartly
  <1>5. /\ Renamed(dirs, from, to) \subseteq Path /\ IsFiniteSet(Renamed(dirs, from, to))
    BY RenamedIs, RenamedFinite DEF TreeOK
  <1>6. dirs' \subseteq Path /\ IsFiniteSet(dirs')
    BY <1>4, <1>5, FS_Union DEF TreeOK
  <1>7. ASSUME NEW d \in Document
        PROVE  /\ disk'[d] \subseteq dirs'
               /\ \A p \in disk'[d] : doc[d].at # "none" /\ Home(p) = name[doc[d].who]
    <2>1. /\ disk[d] \subseteq Path /\ disk[d] \subseteq dirs
          /\ \A p \in disk[d] : doc[d].at # "none" /\ Home(p) = name[doc[d].who]
      BY DEF TreeOK
    <2>2. /\ Renamed(disk[d], from, to) \subseteq Renamed(dirs, from, to)
          /\ \A q \in Renamed(disk[d], from, to) : \E p \in disk[d] : Home(p) = Home(q)
      BY <2>1, RenamedMonotone, RenamedIs
    <2> QED
      BY <1>3, <1>4, <2>1, <2>2
  <1>8. disk' \in [Document -> SUBSET Path]
    BY <1>4, <1>6, <1>7
  <1> QED
    BY <1>3, <1>6, <1>7, <1>8 DEF TreeOK

LEMMA BreakKeeps ==
  ASSUME TypeInv, FilesKept, NEW h \in Handler, Breaks(h), req[h].who \in Missionary,
         UNCHANGED <<name, row, doc, seek, purged>>,
         NEW from \in Path, NEW to \in Path, Home(from) = Home(to),
         UNCHANGED <<dirs, disk>> \/ CopyPartly(from, to)
  PROVE  TypeInv' /\ FilesKept'
  <1>1. TreeOK' /\ \A d \in Document : disk[d] # {} => disk'[d] # {}
    <2>1. CASE UNCHANGED <<dirs, disk>>
      BY <2>1, TreeStays, SameDocs DEF TypeInv
    <2>2. CASE CopyPartly(from, to)
      BY <2>2, CopyTree DEF TypeInv
    <2> QED
      BY <2>1, <2>2
  <1>2. HistoryOK'
    BY DEF TypeInv, HistoryOK, Breaks
  <1>3. RequestOK(Idle, doc, name) /\ ~Uploading(Idle)
    BY IdleOK DEF Uploading
  <1>4. req' = [req EXCEPT ![h] = Idle]
    BY DEF Breaks
  <1> QED
    BY <1>1, <1>2, <1>3, <1>4, TreeStep

LEMMA MoveFailsKeeps ==
  ASSUME TypeInv, FilesKept, NEW h \in Handler, MoveFails(h)
  PROVE  TypeInv' /\ FilesKept'
  <1> DEFINE r == req[h]
             to == Landing(dirs, r.from, r.to)
  <1>1. /\ r.at = "move" /\ Breaks(h) /\ UNCHANGED <<name, row, doc, seek, purged>>
        /\ UNCHANGED <<dirs, disk>> \/ CopyPartly(r.from, to)
    BY DEF MoveFails, SameRows, SameFiles, Others, rows, files
  <1>2. /\ r.from \in Path /\ to \in Path /\ Home(r.from) = Home(to) /\ r.who \in Missionary
    BY <1>1, MoveIs DEF MoveSteps
  <1> HIDE DEF to
  <1> QED
    BY <1>1, <1>2, BreakKeeps

LEMMA MoveBackFailsKeeps ==
  ASSUME TypeInv, FilesKept, NEW h \in Handler, MoveBackFails(h)
  PROVE  TypeInv' /\ FilesKept'
  <1> DEFINE r == req[h]
             to == Landing(dirs, r.to, r.from)
  <1>1. /\ r.at = "back" /\ Breaks(h) /\ UNCHANGED <<name, row, doc, seek, purged>>
        /\ UNCHANGED <<dirs, disk>> \/ CopyPartly(r.to, to)
    BY DEF MoveBackFails, SameRows, SameFiles, Others, rows, files
  <1>2. /\ r.to \in Path /\ to \in Path /\ Home(r.to) = Home(to) /\ r.who \in Missionary
    BY <1>1, MoveIs DEF MoveSteps
  <1> HIDE DEF to
  <1> QED
    BY <1>1, <1>2, BreakKeeps

-----------------------------------------------------------------------------
(* Documents *)

LEMMA GoneDoc ==
  ASSUME DocsOK, UNCHANGED name, NEW d \in Document, doc[d].at \in {"sent", "row", "gone"}, Gone(d)
  PROVE  /\ DocsOK' /\ DocsGo(doc, doc') /\ doc'[d].at = "gone" /\ doc'[d].who = doc[d].who
         /\ \A c \in Document : c # d => doc'[c] = doc[c]
  <1>1. doc[d] \in DocSet /\ DOMAIN doc = Document
    BY DEF DocsOK
  <1>2. [doc[d] EXCEPT !.at = "gone"] \in DocSet
    BY <1>1 DEF DocSet
  <1>3. doc' = [doc EXCEPT ![d] = [doc[d] EXCEPT !.at = "gone"]]
    BY DEF Gone
  <1>4. doc'[d].at = "gone" /\ doc'[d].who = doc[d].who
    BY <1>1, <1>3 DEF DocSet
  <1>5. \A c \in Document : c # d => doc'[c] = doc[c]
    BY <1>1, <1>3
  <1>6. doc' \in [Document -> DocSet]
    BY <1>2, <1>3 DEF DocsOK
  <1>7. DocsOK'
    BY <1>4, <1>5, <1>6 DEF DocsOK, Stored
  <1>8. DocsGo(doc, doc')
    BY <1>4, <1>5 DEF DocsGo
  <1> QED
    BY <1>4, <1>5, <1>7, <1>8

\* What a request about a file has in its hands.
LEMMA FileIs ==
  ASSUME TypeInv, NEW h \in Handler, req[h].at \in FileSteps
  PROVE  /\ req[h] \in FileSet /\ FileOK(req[h], doc, name) /\ req[h].who \in Missionary
         /\ req[h].doc \in Document /\ req[h].from \in Path
         /\ Home(req[h].from) = name[req[h].who] /\ doc[req[h].doc].who = req[h].who
  <1>1. req[h] \in FileSet /\ FileOK(req[h], doc, name) /\ req[h].who \in Missionary
    BY BusyIs DEF FileSteps
  <1> QED
    BY <1>1 DEF FileSet, FileOK

\* Another upload has another document.
LEMMA OtherUploads ==
  ASSUME TypeInv, NEW h \in Handler, NEW g \in Handler, g # h, Uploading(req[g]),
         req[h].at \in FileSteps
  PROVE  req[g].doc # req[h].doc /\ req[g].doc \in Document
  <1>1. FileOK(req[h], doc, name) /\ FileOK(req[g], doc, name) /\ req[g].doc \in Document
    BY FileIs DEF Uploading, FileSteps
  <1>2. CASE Uploading(req[h])
    BY <1>1, <1>2 DEF TypeInv, RequestsOK
  <1>3. CASE ~Uploading(req[h])
    BY <1>1, <1>3 DEF FileOK, FileSteps, Uploading
  <1> QED
    BY <1>2, <1>3

LEMMA BeginUploadKeeps ==
  ASSUME TypeInv, FilesKept, NEW h \in Handler, NEW m \in Missionary, BeginUpload(h, m)
  PROVE  TypeInv' /\ FilesKept'
  <1>1. PICK d \in Document :
          /\ doc[d].at = "none"
          /\ doc' = [doc EXCEPT ![d] = [at |-> "sent", who |-> m]]
          /\ Begins(h, [at |-> "install", who |-> m, doc |-> d, from |-> row[m].folder])
    BY DEF BeginUpload
  <1> DEFINE n == [at |-> "install", who |-> m, doc |-> d, from |-> row[m].folder]
             s == [at |-> "sent", who |-> m]
  <1>2. /\ Exists(m) /\ req' = [req EXCEPT ![h] = n] /\ upset' \subseteq upset \cup Missionary
        /\ UNCHANGED <<name, row, dirs, disk, seek, purged>>
    BY <1>1, FlightIs DEF BeginUpload, Begins, SameFiles, Others, files
  <1>3. row[m].folder \in Path /\ Home(row[m].folder) = name[m]
    BY <1>2 DEF TypeInv, RowsOK, Folder
  <1>4. /\ n \in FileSet /\ n.at = "install" /\ n.who = m /\ n.doc = d /\ n.from = row[m].folder
    BY <1>3 DEF FileSet, FileSteps
  <1>5. s \in DocSet /\ s.at = "sent" /\ s.who = m
    BY DEF DocSet
  <1> HIDE DEF n, s
  <1>6. /\ doc' \in [Document -> DocSet] /\ doc'[d] = s
        /\ \A c \in Document : c # d => doc'[c] = doc[c]
    BY <1>1, <1>5 DEF TypeInv, DocsOK, s
  <1>7. DocsOK' /\ DocsGo(doc, doc')
    BY <1>1, <1>2, <1>5, <1>6 DEF TypeInv, DocsOK, Stored, DocsGo
  <1>8. RequestOK(n, doc', name)
    BY <1>3, <1>4, <1>5, <1>6 DEF RequestOK, Request, FileOK, MoveSteps, FileSteps,
       PurgeSteps
  <1>9. \A g \in Handler : Uploading(req[g]) => req[g].doc # d /\ req[g].doc \in Document
    BY <1>1, FileIs DEF FileOK, Uploading, FileSteps
  <1>10. RequestsOK'
    BY <1>2, <1>4, <1>6, <1>7, <1>8, <1>9, RequestsStep DEF TypeInv
  <1>11. TypeInv'
    BY <1>2, <1>7, <1>10, RowsStay, TreeStays, SeekStays, HistoryStays DEF TypeInv
  <1>12. \A c \in Document : Held(c)' => Held(c) /\ c # d
    <2>1. DOMAIN req = Handler
      BY DEF TypeInv, RequestsOK
    <2>2. \A g \in Handler : req'[g].at = "insert" => req'[g] = req[g] /\ req[g].doc # d
      BY <1>2, <1>4, <1>9, <2>1 DEF Uploading
    <2>3. ASSUME NEW c \in Document, doc'[c].at = "row"
          PROVE  c # d /\ doc[c].at = "row"
      BY <1>5, <1>6, <2>3
    <2> QED
      BY <2>2, <2>3 DEF Held, Stored
  <1> QED
    BY <1>2, <1>6, <1>11, <1>12 DEF FilesKept, Taken

LEMMA InstallKeeps ==
  ASSUME TypeInv, FilesKept, NEW h \in Handler, Install(h)
  PROVE  TypeInv' /\ FilesKept'
  <1> DEFINE r == req[h]
             n == [r EXCEPT !.at = "insert"]
  <1>1. /\ r.at = "install" /\ dirs' = WithParents(dirs, r.from)
        /\ \/ /\ disk' = [disk EXCEPT ![r.doc] = {r.from}] /\ UNCHANGED doc
              /\ req' = [req EXCEPT ![h] = n]
           \/ UNCHANGED disk /\ Gone(r.doc) /\ req' = [req EXCEPT ![h] = Idle]
        /\ UNCHANGED <<name, row, seek, purged, upset>>
    BY DEF Install, Others, Goes, Ends
  <1>2. /\ r \in FileSet /\ FileOK(r, doc, name) /\ r.doc \in Document /\ r.from \in Path
        /\ Home(r.from) = name[r.who] /\ doc[r.doc].who = r.who /\ doc[r.doc].at = "sent"
    BY <1>1, FileIs DEF FileSteps, FileOK
  <1>3. /\ dirs' \subseteq Path /\ IsFiniteSet(dirs') /\ dirs \subseteq dirs' /\ r.from \in dirs'
    BY <1>1, <1>2, WithParentsIs DEF TypeInv, TreeOK
  <1>4. HistoryOK'
    BY <1>1 DEF TypeInv, HistoryOK
  <1>5. DOMAIN req = Handler
    BY DEF TypeInv, RequestsOK
  <1>6. CASE /\ UNCHANGED doc /\ req' = [req EXCEPT ![h] = n]
             /\ disk' = [disk EXCEPT ![r.doc] = {r.from}]
    <2>1. n \in FileSet /\ n.at = "insert" /\ n.doc = r.doc /\ n.who = r.who /\ n.from = r.from
      BY <1>2 DEF FileSet, FileSteps
    <2> HIDE DEF n
    <2>2. RequestOK(n, doc, name)
      BY <1>2, <2>1 DEF RequestOK, Request, FileOK, MoveSteps, FileSteps, PurgeSteps
    <2>3. RequestsOK'
      BY <1>1, <1>6, <2>1, <2>2, RequestsStepOnly DEF TypeInv, Uploading
    <2>4. /\ disk'[r.doc] = {r.from} /\ disk' \in [Document -> SUBSET Path]
          /\ \A d \in Document : d # r.doc => disk'[d] = disk[d]
      BY <1>2, <1>6 DEF TypeInv, TreeOK
    <2>5. TreeOK'
      BY <1>1, <1>2, <1>3, <1>6, <2>4 DEF TypeInv, TreeOK
    <2>6. TypeInv'
      BY <1>1, <1>4, <1>6, <2>3, <2>5, RowsStay, DocsStay, SeekStays, SameDocs
         DEF TypeInv
    <2>7. \A d \in Document : Held(d)' => Held(d) \/ d = r.doc
      BY <1>5, <1>6, <2>1 DEF Held, Stored
    <2> QED
      BY <1>1, <1>6, <2>4, <2>6, <2>7 DEF FilesKept, Taken
  <1>7. CASE UNCHANGED disk /\ Gone(r.doc) /\ req' = [req EXCEPT ![h] = Idle]
    <2>1. /\ DocsOK' /\ DocsGo(doc, doc') /\ doc'[r.doc].at = "gone"
          /\ \A c \in Document : c # r.doc => doc'[c] = doc[c]
      BY <1>1, <1>2, <1>7, GoneDoc DEF TypeInv
    <2>2. \A g \in Handler : g # h /\ Uploading(req[g]) =>
            req[g].doc # r.doc /\ req[g].doc \in Document
      BY <1>1, OtherUploads DEF FileSteps
    <2>3. RequestsOK'
      <3>1. RequestOK(Idle, doc', name) /\ ~Uploading(Idle)
        BY IdleOK DEF Uploading
      <3>2. \A g \in Handler : g # h /\ Uploading(req[g]) =>
              /\ doc'[req[g].doc].at = doc[req[g].doc].at
              /\ Uploading(Idle) => req[g].doc # Idle.doc
        BY <2>1, <2>2, <3>1
      <3>3. RequestsOK /\ UNCHANGED name
        BY <1>1 DEF TypeInv
      <3> QED
        BY <1>7, <2>1, <3>1, <3>2, <3>3, RequestsStep
    <2>4. TreeOK'
      <3>1. TreeOK /\ name' = name /\ disk' = disk /\ DocsGo(doc, doc')
        BY <1>1, <1>7, <2>1 DEF TypeInv
      <3> QED
        BY <1>3, <3>1 DEF TreeOK, DocsGo
    <2>5. TypeInv'
      BY <1>1, <1>4, <2>1, <2>3, <2>4, RowsStay, SeekStays DEF TypeInv
    <2>6. \A d \in Document : Held(d)' => Held(d) /\ d # r.doc
      <3>1. \A g \in Handler : req'[g].at = "insert" => req'[g] = req[g] /\ req[g].doc # r.doc
        BY <1>5, <1>7, <2>2, IdleOK DEF Uploading
      <3> QED
        BY <2>1, <3>1 DEF Held, Stored
    <2> QED
      BY <1>1, <1>7, <2>1, <2>5, <2>6 DEF FilesKept, Taken
  <1> QED
    BY <1>1, <1>6, <1>7

\* A handler is done with a request whose document is gone.
LEMMA GoneStep ==
  ASSUME TypeInv, FilesKept, NEW h \in Handler, req[h].at \in {"insert", "drop"},
         doc[req[h].doc].at \in {"sent", "row"}, Gone(req[h].doc),
         req' = [req EXCEPT ![h] = [req[h] EXCEPT !.at = "unlink"]],
         UNCHANGED <<name, row, dirs, disk, seek, purged, upset>>
  PROVE  TypeInv' /\ FilesKept'
  <1> DEFINE r == req[h]
             n == [r EXCEPT !.at = "unlink"]
  <1>1. /\ r \in FileSet /\ FileOK(r, doc, name) /\ r.doc \in Document /\ r.from \in Path
        /\ Home(r.from) = name[r.who] /\ doc[r.doc].who = r.who
    BY FileIs DEF FileSteps
  <1>2. /\ DocsOK' /\ DocsGo(doc, doc') /\ doc'[r.doc].at = "gone" /\ doc'[r.doc].who = r.who
        /\ \A c \in Document : c # r.doc => doc'[c] = doc[c]
    BY <1>1, GoneDoc DEF TypeInv
  <1>3. n \in FileSet /\ n.at = "unlink" /\ n.doc = r.doc /\ n.who = r.who /\ n.from = r.from
    BY <1>1 DEF FileSet, FileSteps
  <1> HIDE DEF n
  <1>4. RequestOK(n, doc', name) /\ ~Uploading(n)
    BY <1>1, <1>2, <1>3 DEF RequestOK, Request, FileOK, MoveSteps, FileSteps,
       PurgeSteps,
                            Uploading
  <1>5. \A g \in Handler : g # h /\ Uploading(req[g]) =>
          req[g].doc # r.doc /\ req[g].doc \in Document
    BY OtherUploads DEF FileSteps
  <1>6. RequestsOK'
    <2>1. \A g \in Handler : g # h /\ Uploading(req[g]) =>
            /\ doc'[req[g].doc].at = doc[req[g].doc].at
            /\ Uploading(n) => req[g].doc # n.doc
      BY <1>2, <1>4, <1>5
    <2>2. RequestsOK /\ req' = [req EXCEPT ![h] = n]
      BY DEF TypeInv, n
    <2> QED
      BY <1>2, <1>4, <2>1, <2>2, RequestsStep
  <1>7. HistoryOK'
    BY DEF TypeInv, HistoryOK
  <1>8. TypeInv'
    BY <1>2, <1>6, <1>7, RowsStay, TreeStays, SeekStays DEF TypeInv
  <1>9. \A d \in Document : Held(d)' => Held(d) /\ d # r.doc
    <2>1. DOMAIN req = Handler /\ req'[h] = n
      BY DEF TypeInv, RequestsOK, n
    <2>2. \A g \in Handler : req'[g].at = "insert" => req'[g] = req[g] /\ req[g].doc # r.doc
      BY <1>3, <1>5, <2>1 DEF Uploading
    <2>3. ASSUME NEW c \in Document, doc'[c].at = "row"
          PROVE  c # r.doc /\ doc[c].at = "row"
      BY <1>2, <2>3
    <2> QED
      BY <2>2, <2>3 DEF Held, Stored
  <1> QED
    BY <1>2, <1>8, <1>9 DEF FilesKept, Taken

\* A document that is no longer about to have a row: its file is left.
LEMMA LeftDoc ==
  ASSUME DocsOK, UNCHANGED name, NEW d \in Document, doc[d].at = "sent",
         doc' = [doc EXCEPT ![d].at = "left"]
  PROVE  /\ DocsOK' /\ DocsGo(doc, doc') /\ doc'[d].at = "left" /\ doc'[d].who = doc[d].who
         /\ \A c \in Document : c # d => doc'[c] = doc[c]
  <1>1. doc[d] \in DocSet /\ DOMAIN doc = Document
    BY DEF DocsOK
  <1>2. [doc[d] EXCEPT !.at = "left"] \in DocSet
    BY <1>1 DEF DocSet
  <1>3. doc' = [doc EXCEPT ![d] = [doc[d] EXCEPT !.at = "left"]]
    OBVIOUS
  <1>4. doc'[d].at = "left" /\ doc'[d].who = doc[d].who
    BY <1>1, <1>3 DEF DocSet
  <1>5. \A c \in Document : c # d => doc'[c] = doc[c]
    BY <1>1, <1>3
  <1>6. doc' \in [Document -> DocSet]
    BY <1>2, <1>3 DEF DocsOK
  <1>7. DocsOK'
    BY <1>4, <1>5, <1>6 DEF DocsOK, Stored
  <1>8. DocsGo(doc, doc')
    BY <1>4, <1>5 DEF DocsGo
  <1> QED
    BY <1>4, <1>5, <1>7, <1>8

LEMMA KeepFileKeeps ==
  ASSUME TypeInv, FilesKept, NEW h \in Handler, req[h].at = "insert", KeepFile(h, req[h]),
         UNCHANGED <<name, row, dirs, disk, seek, purged>>
  PROVE  TypeInv' /\ FilesKept'
  <1> DEFINE r == req[h]
  <1>1. r.doc \in Document /\ doc[r.doc].at = "sent"
    BY FileIs DEF FileSteps, FileOK
  <1>2. doc' = [doc EXCEPT ![r.doc].at = "left"] /\ req' = [req EXCEPT ![h] = Idle]
        /\ UNCHANGED upset
    BY DEF KeepFile, Ends, Goes
  <1>3. /\ DocsOK' /\ DocsGo(doc, doc') /\ doc'[r.doc].at = "left"
        /\ \A c \in Document : c # r.doc => doc'[c] = doc[c]
        /\ doc'[r.doc].who = doc[r.doc].who
    BY <1>1, <1>2, LeftDoc DEF TypeInv
  <1>4. \A g \in Handler : g # h /\ Uploading(req[g]) =>
          req[g].doc # r.doc /\ req[g].doc \in Document
    BY OtherUploads DEF FileSteps
  <1>5. RequestOK(Idle, doc', name) /\ ~Uploading(Idle)
    BY IdleOK DEF Uploading
  <1>6. RequestsOK'
    <2>1. \A g \in Handler : g # h /\ Uploading(req[g]) =>
            /\ doc'[req[g].doc].at = doc[req[g].doc].at
            /\ Uploading(Idle) => req[g].doc # Idle.doc
      BY <1>3, <1>4, <1>5
    <2> QED
      BY <1>2, <1>3, <1>5, <2>1, RequestsStep DEF TypeInv
  <1>7. HistoryOK'
    BY <1>2 DEF TypeInv, HistoryOK
  <1>8. TypeInv'
    BY <1>3, <1>6, <1>7, RowsStay, TreeStays, SeekStays DEF TypeInv
  <1>9. \A d \in Document : Held(d)' => Held(d) /\ d # r.doc
    <2>1. DOMAIN req = Handler
      BY DEF TypeInv, RequestsOK
    <2>2. \A g \in Handler : req'[g].at = "insert" => req'[g] = req[g] /\ req[g].doc # r.doc
      BY <1>2, <1>4, <2>1, IdleOK DEF Uploading
    <2>3. ASSUME NEW c \in Document, doc'[c].at = "row"
          PROVE  c # r.doc /\ doc[c].at = "row"
      BY <1>3, <2>3
    <2> QED
      BY <2>2, <2>3 DEF Held, Stored
  <1> QED
    BY <1>3, <1>8, <1>9 DEF FilesKept, Taken

LEMMA InsertKeeps ==
  ASSUME TypeInv, FilesKept, NEW h \in Handler, Insert(h)
  PROVE  TypeInv' /\ FilesKept'
  <1> DEFINE r == req[h]
             w == [at |-> "row", who |-> r.who, path |-> r.from]
  <1>1. /\ r.at = "insert" /\ UNCHANGED <<name, row, dirs, disk, seek, purged, upset>>
        /\ \/ doc' = [doc EXCEPT ![r.doc] = w] /\ req' = [req EXCEPT ![h] = Idle]
           \/ Gone(r.doc) /\ req' = [req EXCEPT ![h] = [r EXCEPT !.at = "unlink"]]
           \/ KeepFile(h, r)
    BY DEF Insert, KeepFile, SameFiles, Others, files, Goes, Ends
  <1>2. /\ r \in FileSet /\ FileOK(r, doc, name) /\ r.doc \in Document /\ r.from \in Path
        /\ Home(r.from) = name[r.who] /\ doc[r.doc].who = r.who /\ doc[r.doc].at = "sent"
        /\ r.who \in Missionary
    BY <1>1, FileIs DEF FileSteps, FileOK
  <1>3. CASE doc' = [doc EXCEPT ![r.doc] = w] /\ req' = [req EXCEPT ![h] = Idle]
    <2>1. w \in DocSet /\ w.at = "row" /\ w.who = r.who /\ w.path = r.from
      BY <1>2 DEF DocSet
    <2> HIDE DEF w
    <2>2. /\ doc' \in [Document -> DocSet] /\ doc'[r.doc] = w
          /\ \A c \in Document : c # r.doc => doc'[c] = doc[c]
      BY <1>2, <1>3, <2>1 DEF TypeInv, DocsOK
    <2>3. DocsOK' /\ DocsGo(doc, doc')
      BY <1>1, <1>2, <2>1, <2>2 DEF TypeInv, DocsOK, Stored, DocsGo
    <2>4. \A g \in Handler : g # h /\ Uploading(req[g]) =>
            req[g].doc # r.doc /\ req[g].doc \in Document
      BY <1>1, OtherUploads DEF FileSteps
    <2>5. RequestsOK'
      <3>1. RequestOK(Idle, doc', name) /\ ~Uploading(Idle)
        BY IdleOK DEF Uploading
      <3>2. \A g \in Handler : g # h /\ Uploading(req[g]) =>
              /\ doc'[req[g].doc].at = doc[req[g].doc].at
              /\ Uploading(Idle) => req[g].doc # Idle.doc
        BY <2>2, <2>4, <3>1
      <3>3. RequestsOK /\ UNCHANGED name
        BY <1>1 DEF TypeInv
      <3> QED
        BY <1>3, <2>3, <3>1, <3>2, <3>3, RequestsStep
    <2>6. HistoryOK'
      BY <1>1 DEF TypeInv, HistoryOK
    <2>7. TypeInv'
      BY <1>1, <2>3, <2>5, <2>6, RowsStay, TreeStays, SeekStays DEF TypeInv
    <2>8. Held(r.doc)
      BY <1>1 DEF Held
    <2>9. \A d \in Document : Held(d)' => Held(d)
      <3>1. DOMAIN req = Handler
        BY DEF TypeInv, RequestsOK
      <3>2. \A g \in Handler : req'[g].at = "insert" => req'[g] = req[g]
        BY <1>3, <3>1, IdleOK
      <3>3. \A c \in Document : doc'[c].at = "row" => c = r.doc \/ doc[c].at = "row"
        BY <2>2
      <3> QED
        BY <2>8, <3>2, <3>3 DEF Held, Stored
    <2>10. \A d \in Document : doc'[d].who = doc[d].who \/ doc[d].at = "none"
      BY <2>3 DEF DocsGo
    <2>11. \A d \in Document : Held(d)' => doc'[d].who = doc[d].who
      BY <2>9, <2>10, HeldIs
    <2> QED
      BY <1>1, <2>7, <2>9, <2>11 DEF FilesKept, Taken
  <1>4. CASE Gone(r.doc) /\ req' = [req EXCEPT ![h] = [r EXCEPT !.at = "unlink"]]
    BY <1>1, <1>2, <1>4, GoneStep
  <1>5. CASE KeepFile(h, r)
    BY <1>1, <1>5, KeepFileKeeps
  <1> QED
    BY <1>1, <1>3, <1>4, <1>5

LEMMA DropKeeps ==
  ASSUME TypeInv, FilesKept, NEW h \in Handler, Drop(h)
  PROVE  TypeInv' /\ FilesKept'
  <1>1. /\ req[h].at = "drop" /\ UNCHANGED <<name, row, dirs, disk, seek, purged,
                                             upset>>
        /\ \/ /\ Stored(req[h].doc) /\ Gone(req[h].doc)
              /\ req' = [req EXCEPT ![h] = [req[h] EXCEPT !.at = "unlink"]]
           \/ req' = [req EXCEPT ![h] = Idle] /\ UNCHANGED doc
    BY DEF Drop, SameFiles, Others, files, Goes, Ends
  <1>2. CASE /\ Stored(req[h].doc) /\ Gone(req[h].doc)
             /\ req' = [req EXCEPT ![h] = [req[h] EXCEPT !.at = "unlink"]]
    BY <1>1, <1>2, GoneStep DEF Stored
  <1>3. CASE req' = [req EXCEPT ![h] = Idle] /\ UNCHANGED doc
    BY <1>1, <1>3, IdleOK, QuietStep DEF Uploading
  <1> QED
    BY <1>1, <1>2, <1>3

LEMMA UnlinkKeeps ==
  ASSUME TypeInv, FilesKept, NEW h \in Handler, Unlink(h)
  PROVE  TypeInv' /\ FilesKept'
  <1> DEFINE r == req[h]
  <1>1. /\ r.at = "unlink" /\ UNCHANGED <<name, row, doc, dirs, seek, purged>>
        /\ disk' = disk \/ disk' = [disk EXCEPT ![r.doc] = @ \ {r.from}]
        /\ req' = [req EXCEPT ![h] = Idle] /\ upset' \subseteq upset \cup {r.who}
    BY DEF Unlink, SameRows, Others, rows, Ends, Goes, Breaks
  <1>2. r.doc \in Document /\ r.who \in Missionary /\ doc[r.doc].at = "gone"
    BY <1>1, FileIs DEF FileSteps, FileOK
  <1>3. /\ disk' \in [Document -> SUBSET Path]
        /\ \A d \in Document : disk'[d] \subseteq disk[d] /\ (d # r.doc => disk'[d] = disk[d])
    BY <1>1, <1>2 DEF TypeInv, TreeOK
  <1>4. TreeOK'
    BY <1>1, <1>3 DEF TypeInv, TreeOK
  <1>5. HistoryOK'
    BY <1>1, <1>2 DEF TypeInv, HistoryOK
  <1>6. \A d \in Document : Held(d) => d # r.doc
    BY <1>2, HeldIs
  <1>7. RequestOK(Idle, doc, name) /\ ~Uploading(Idle)
    BY IdleOK DEF Uploading
  <1> QED
    BY <1>1, <1>3, <1>4, <1>5, <1>6, <1>7, TreeStep

LEMMA CommitKeeps ==
  ASSUME TypeInv, FilesKept, NEW h \in Handler, Commit(h)
  PROVE  TypeInv' /\ FilesKept'
  <1> DEFINE r == req[h]
             status == IF r.was = Target[r.kind] THEN row[r.who].status ELSE Target[r.kind]
             folder == IF r.from = r.to THEN row[r.who].folder ELSE r.to
  <1>1. /\ r.at = "commit" /\ Fits(r)
        /\ row' = [row EXCEPT ![r.who].status =
                                IF r.was = Target[r.kind] THEN @ ELSE Target[r.kind],
                              ![r.who].folder = IF r.from = r.to THEN @ ELSE r.to]
        /\ doc' = [d \in Document |-> IF d \in DOMAIN r.docs
                                      THEN [doc[d] EXCEPT !.path = r.docs[d]] ELSE doc[d]]
        /\ \/ req' = [req EXCEPT ![h] = Idle]
           \/ req' = [req EXCEPT ![h] = [r EXCEPT !.at = "log"]]
        /\ UNCHANGED <<name, dirs, disk, seek, purged, upset>>
    BY DEF Commit, SameFiles, Others, files, Goes, Ends
  <1>2. /\ r \in MoveSet /\ MoveOK(r, doc, name) /\ r.who \in Missionary /\ r.to \in Folder
        /\ Home(r.to) = name[r.who] /\ r.kind \in Kind
    BY <1>1, MoveIs DEF MoveSteps, MoveSet
  <1>3. RowsOK'
    <2>1. row[r.who] \in RowSet /\ row[r.who].at = "row"
      BY <1>1, <1>2 DEF TypeInv, RowsOK, Fits, Exists
    <2>2. Target[r.kind] \in {"TRASH", "ARCHIVED", "ACTIVE"}
      BY <1>2 DEF Kind, Target
    <2>3. status \in DOMAIN AreaOf /\ folder \in Folder /\ Home(folder) = name[r.who]
      BY <1>2, <2>1, <2>2, StatusesAre DEF TypeInv, RowsOK, Exists
    <2>4. row' = [row EXCEPT ![r.who].status = status, ![r.who].folder = folder]
      BY <1>1
    <2> HIDE DEF status, folder
    <2>5. status \in Statuses
      BY <2>3, StatusesAre DEF Statuses
    <2>6. /\ row' \in [Missionary -> RowSet] /\ row'[r.who].status = status
          /\ row'[r.who].folder = folder /\ row'[r.who].at = "row"
          /\ \A k \in Missionary : k # r.who => row'[k] = row[k]
      BY <1>2, <2>1, <2>3, <2>4, <2>5 DEF TypeInv, RowsOK, RowSet
    <2> QED
      BY <1>1, <2>3, <2>6 DEF TypeInv, RowsOK, Exists
  <1>4. DOMAIN r.docs \subseteq Document /\ \A d \in DOMAIN r.docs :
          /\ Stored(d) /\ r.docs[d] \in Path /\ Home(r.docs[d]) = name[r.who]
          /\ doc[d].who = r.who
    BY <1>1, <1>2 DEF MoveOK, Rebasings, Fits
  <1>5. ASSUME NEW d \in DOMAIN r.docs
        PROVE  /\ doc'[d] \in DocSet /\ doc'[d].at = "row" /\ doc'[d].who = doc[d].who
               /\ doc'[d].path = r.docs[d]
    <2>1. doc[d] \in DocSet /\ doc[d].at = "row" /\ doc'[d] = [doc[d] EXCEPT !.path = r.docs[d]]
      BY <1>1, <1>4 DEF TypeInv, DocsOK, Stored
    <2> QED
      BY <1>4, <2>1 DEF DocSet
  <1>6. \A d \in Document : d \notin DOMAIN r.docs => doc'[d] = doc[d]
    BY <1>1
  <1>7. doc' \in [Document -> DocSet]
    <2>1. \A d \in Document : doc'[d] \in DocSet
      BY <1>5, <1>6 DEF TypeInv, DocsOK
    <2>2. doc' = [d \in Document |-> doc'[d]]
      BY <1>1
    <2> QED
      BY <2>1, <2>2
  <1>8. \A d \in Document : doc'[d].at = doc[d].at /\ doc'[d].who = doc[d].who
    BY <1>4, <1>5, <1>6 DEF Stored
  <1>9. DocsOK'
    <2>1. UNCHANGED name /\ DocsOK
      BY <1>1 DEF TypeInv
    <2> QED
      BY <1>4, <1>5, <1>6, <1>7, <2>1 DEF DocsOK, Stored
  <1>10. DocsGo(doc, doc')
    BY <1>8 DEF DocsGo
  <1>11. PICK n : req' = [req EXCEPT ![h] = n] /\ RequestOK(n, doc, name) /\ ~Uploading(n)
    <2>1. CASE req' = [req EXCEPT ![h] = Idle]
      BY <2>1, IdleOK DEF Uploading
    <2>2. CASE req' = [req EXCEPT ![h] = [r EXCEPT !.at = "log"]]
      BY <1>1, <1>2, <2>2, NextStepOK
    <2> QED
      BY <1>1, <2>1, <2>2
  <1>12. RequestsOK'
    <2>1. RequestOK(n, doc', name)
      BY <1>10, <1>11, RequestStays
    <2>2. \A g \in Handler : g # h /\ Uploading(req[g]) =>
            /\ doc'[req[g].doc].at = doc[req[g].doc].at
            /\ Uploading(n) => req[g].doc # n.doc
      BY <1>8, <1>11, FileIs DEF Uploading, FileSteps
    <2>3. RequestsOK /\ UNCHANGED name
      BY <1>1 DEF TypeInv
    <2> QED
      BY <1>10, <1>11, <2>1, <2>2, <2>3, RequestsStep
  <1>13. HistoryOK'
    BY <1>1 DEF TypeInv, HistoryOK
  <1>14. TypeInv'
    BY <1>1, <1>3, <1>9, <1>10, <1>12, <1>13, TreeStays, SeekStays DEF TypeInv
  <1>15. \A d \in Document : Held(d)' => Held(d)
    <2>1. DOMAIN req = Handler
      BY DEF TypeInv, RequestsOK
    <2>2. \A g \in Handler : req'[g].at = "insert" => req'[g] = req[g]
      BY <1>11, <2>1 DEF Uploading
    <2> QED
      BY <1>8, <2>2 DEF Held, Stored
  <1> QED
    BY <1>1, <1>8, <1>14, <1>15 DEF FilesKept, Taken

-----------------------------------------------------------------------------
(* Permanent deletes, repairs and stops *)

\* Only files below the purged folder go, and they belong to its name.
LEMMA PurgeKeeps ==
  ASSUME TypeInv, FilesKept, NEW h \in Handler, Purge(h)
  PROVE  TypeInv' /\ FilesKept'
  <1> DEFINE r == req[h]
             n == [r EXCEPT !.at = "erase"]
             Rest(d) == {p \in disk[d] : ~Within(p, r.from)}
  <1>1. /\ r.at = "purge" /\ purged' = purged \cup {r.who}
        /\ \/ dirs' = dirs \ Below(r.from) /\ disk' = [d \in Document |-> Rest(d)]
           \/ /\ dirs' = dirs
              /\ \E some \in SUBSET Document :
                   disk' = [d \in Document |-> IF d \in some THEN disk[d] ELSE Rest(d)]
        /\ req' = [req EXCEPT ![h] = n] /\ upset' \subseteq upset \cup {r.who}
        /\ UNCHANGED <<name, row, doc, seek>>
    BY DEF Purge, SameRows, rows, Goes
  <1>2. /\ r \in PurgeSet /\ Home(r.from) = name[r.who] /\ r.who \in Missionary
        /\ r.from \in Folder /\ r.from \in Path
    BY <1>1, BusyIs DEF PurgeSteps, PurgeSet, Folder
  <1>3. n \in PurgeSet /\ n.at = "erase" /\ n.who = r.who /\ n.from = r.from
    BY <1>2 DEF PurgeSet, PurgeSteps
  <1> HIDE DEF n
  <1>4. RequestOK(n, doc, name) /\ ~Uploading(n)
    BY <1>2, <1>3 DEF RequestOK, Request, MoveSteps, FileSteps, PurgeSteps, Uploading
  <1>5. ASSUME NEW d \in Document
        PROVE  /\ disk'[d] \subseteq disk[d] /\ disk'[d] \subseteq dirs'
               /\ disk[d] # {} /\ doc[d].at # "none" => disk'[d] # {} \/ Taken(doc[d].who)'
    <2>1. \/ disk'[d] = Rest(d)
          \/ disk'[d] = disk[d] /\ dirs' = dirs
      <3>1. CASE disk' = [c \in Document |-> Rest(c)]
        BY <3>1
      <3>2. ASSUME dirs' = dirs, NEW some \in SUBSET Document,
                   disk' = [c \in Document |-> IF c \in some THEN disk[c] ELSE Rest(c)]
            PROVE  disk'[d] = Rest(d) \/ disk'[d] = disk[d]
        BY <3>2
      <3> QED
        BY <1>1, <3>1, <3>2
    <2>2. disk[d] \subseteq dirs /\ disk[d] \subseteq Path
      BY DEF TypeInv, TreeOK
    <2>3. Rest(d) \subseteq dirs'
      BY <1>1, <2>2 DEF Below
    <2>4. ASSUME disk[d] # {}, Rest(d) = {}, doc[d].at # "none" PROVE Taken(doc[d].who)'
      <3>1. PICK p \in disk[d] : Within(p, r.from)
        BY <2>4
      <3>2. Home(p) = Home(r.from) /\ Home(p) = name[doc[d].who]
        BY <1>2, <2>2, <3>1, WithinHome DEF TypeInv, TreeOK
      <3>3. r.who \in purged' /\ name'[r.who] = name'[doc'[d].who]
        BY <1>1, <1>2, <3>2
      <3> QED
        BY <1>1, <3>3 DEF Taken
    <2> QED
      BY <2>1, <2>2, <2>3, <2>4
  <1>6. dirs' \subseteq dirs
    BY <1>1
  <1>7. TreeOK'
    <2>1. disk' \in [Document -> SUBSET Path]
      <3>1. disk' = [d \in Document |-> disk'[d]]
        BY <1>1
      <3>2. \A d \in Document : disk'[d] \subseteq Path
        BY <1>5 DEF TypeInv, TreeOK
      <3> QED
        BY <3>1, <3>2
    <2>2. dirs' \subseteq Path /\ IsFiniteSet(dirs')
      BY <1>6, FS_Subset DEF TypeInv, TreeOK
    <2>3. name' = name /\ doc' = doc
      BY <1>1
    <2> QED
      BY <1>5, <2>1, <2>2, <2>3 DEF TypeInv, TreeOK
  <1>8. HistoryOK'
    BY <1>1, <1>2 DEF TypeInv, HistoryOK
  <1>9. \A d \in Document : Held(d) /\ disk[d] # {} => disk'[d] # {} \/ Taken(doc[d].who)'
    BY <1>5, HeldIs
  <1> QED
    BY <1>1, <1>4, <1>7, <1>8, <1>9, TreeStep

\* A step that lets documents go, with their rows or by a stop.
LEMMA LetGo ==
  ASSUME DocsOK, UNCHANGED name, NEW S \in SUBSET Document,
         \A d \in S : doc[d].at \in {"sent", "row"},
         doc' = [d \in Document |-> IF d \in S THEN [doc[d] EXCEPT !.at = "gone"] ELSE doc[d]]
  PROVE  /\ DocsOK' /\ DocsGo(doc, doc')
         /\ \A d \in Document : /\ doc'[d].at = "row" => Stored(d) /\ d \notin S
                                /\ d \notin S => doc'[d] = doc[d]
                                /\ doc'[d].who = doc[d].who \/ doc[d].at = "none"
  <1>1. ASSUME NEW d \in S
        PROVE  doc'[d] \in DocSet /\ doc'[d].at = "gone" /\ doc'[d].who = doc[d].who
    <2>1. doc[d] \in DocSet /\ doc'[d] = [doc[d] EXCEPT !.at = "gone"]
      BY DEF DocsOK
    <2> QED
      BY <2>1 DEF DocSet
  <1>2. \A d \in Document : d \notin S => doc'[d] = doc[d]
    OBVIOUS
  <1>3. doc' \in [Document -> DocSet]
    <2>1. \A d \in Document : doc'[d] \in DocSet
      BY <1>1, <1>2 DEF DocsOK
    <2>2. doc' = [d \in Document |-> doc'[d]]
      OBVIOUS
    <2> QED
      BY <2>1, <2>2
  <1>4. DocsOK'
    BY <1>1, <1>2, <1>3 DEF DocsOK, Stored
  <1>5. DocsGo(doc, doc')
    BY <1>1, <1>2 DEF DocsGo
  <1> QED
    BY <1>1, <1>2, <1>4, <1>5 DEF Stored

LEMMA EraseKeeps ==
  ASSUME TypeInv, FilesKept, NEW h \in Handler, Erase(h)
  PROVE  TypeInv' /\ FilesKept'
  <1> DEFINE r == req[h]
             S == {d \in Document : Stored(d) /\ doc[d].who = r.who}
  <1>1. /\ r.at = "erase" /\ UNCHANGED <<name, dirs, disk, seek, purged, upset>>
        /\ req' = [req EXCEPT ![h] = Idle]
        /\ \/ /\ row' = [row EXCEPT ![r.who].at = "gone"]
              /\ doc' = [d \in Document |-> IF Stored(d) /\ doc[d].who = r.who
                                            THEN [doc[d] EXCEPT !.at = "gone"] ELSE doc[d]]
           \/ UNCHANGED <<row, doc>>
    BY DEF Erase, SameFiles, Others, files, Ends, Goes
  <1>2. r.who \in Missionary
    BY <1>1, BusyIs
  <1>3. CASE UNCHANGED <<row, doc>>
    BY <1>1, <1>3, IdleOK, QuietStep DEF Uploading
  <1>4. CASE /\ row' = [row EXCEPT ![r.who].at = "gone"]
             /\ doc' = [d \in Document |-> IF Stored(d) /\ doc[d].who = r.who
                                           THEN [doc[d] EXCEPT !.at = "gone"] ELSE doc[d]]
    <2>1. doc' = [d \in Document |-> IF d \in S THEN [doc[d] EXCEPT !.at = "gone"] ELSE doc[d]]
      BY <1>4
    <2>2. /\ DocsOK' /\ DocsGo(doc, doc')
          /\ \A d \in Document : /\ doc'[d].at = "row" => Stored(d) /\ d \notin S
                                 /\ d \notin S => doc'[d] = doc[d]
                                 /\ doc'[d].who = doc[d].who \/ doc[d].at = "none"
      <3>1. \A d \in S : doc[d].at \in {"sent", "row"}
        BY DEF Stored
      <3>2. S \in SUBSET Document /\ DocsOK /\ UNCHANGED name
        BY <1>1 DEF TypeInv
      <3> HIDE DEF S
      <3> QED
        BY <2>1, <3>1, <3>2, LetGo
    <2>3. RowsOK'
      <3>1. row[r.who] \in RowSet
        BY <1>2 DEF TypeInv, RowsOK
      <3>2. /\ row' \in [Missionary -> RowSet] /\ row'[r.who].at = "gone"
            /\ \A k \in Missionary : k # r.who => row'[k] = row[k]
        BY <1>2, <1>4, <3>1 DEF TypeInv, RowsOK, RowSet
      <3> QED
        BY <1>1, <3>2 DEF TypeInv, RowsOK, Exists
    <2>4. \A g \in Handler : g # h /\ Uploading(req[g]) =>
            req[g].doc \in Document /\ doc[req[g].doc].at = "sent"
      BY FileIs DEF Uploading, FileSteps, FileOK
    <2>5. RequestsOK'
      <3>1. RequestOK(Idle, doc', name) /\ ~Uploading(Idle)
        BY IdleOK DEF Uploading
      <3>2. \A g \in Handler : g # h /\ Uploading(req[g]) =>
              /\ doc'[req[g].doc].at = doc[req[g].doc].at
              /\ Uploading(Idle) => req[g].doc # Idle.doc
        BY <2>2, <2>4, <3>1 DEF Stored
      <3>3. RequestsOK /\ UNCHANGED name
        BY <1>1 DEF TypeInv
      <3> QED
        BY <1>1, <2>2, <3>1, <3>2, <3>3, RequestsStep
    <2>6. HistoryOK'
      BY <1>1 DEF TypeInv, HistoryOK
    <2>7. TypeInv'
      BY <1>1, <2>2, <2>3, <2>5, <2>6, TreeStays, SeekStays DEF TypeInv
    <2>8. \A d \in Document : Held(d)' => Held(d)
      <3>1. DOMAIN req = Handler
        BY DEF TypeInv, RequestsOK
      <3>2. \A g \in Handler : req'[g].at = "insert" => req'[g] = req[g]
        BY <1>1, <3>1, IdleOK
      <3> QED
        BY <2>2, <3>2 DEF Held, Stored
    <2>9. \A d \in Document : Held(d)' => doc'[d].who = doc[d].who
      BY <2>2, <2>8, HeldIs
    <2> QED
      BY <1>1, <2>7, <2>8, <2>9 DEF FilesKept, Taken
  <1> QED
    BY <1>1, <1>3, <1>4

LEMMA OpenKeeps ==
  ASSUME TypeInv, FilesKept, NEW d \in Document, Open(d)
  PROVE  TypeInv' /\ FilesKept'
  <1>1. PICK p \in Found(d) : seek' = [at |-> "repair", who |-> doc[d].who, doc |-> d, path |-> p]
    BY DEF Open
  <1>2. /\ Stored(d) /\ upset' \subseteq upset \cup Missionary
        /\ UNCHANGED <<name, row, doc, dirs, disk, req, purged>>
    BY FlightIs DEF Open, SameRows, SameFiles, rows, files
  <1>3. p \in disk[d] /\ p \in Path /\ Home(p) = name[doc[d].who] /\ doc[d].who \in Missionary
    <2>1. p \in disk[d]
      BY DEF Found, InFolder, InStorage
    <2> QED
      BY <1>2, <2>1, DocIs DEF TypeInv, TreeOK, Stored
  <1> DEFINE s == [at |-> "repair", who |-> doc[d].who, doc |-> d, path |-> p]
  <1>4. /\ s \in [at : {"repair"}, who : Missionary, doc : Document, path : Path]
        /\ s.who = doc[d].who /\ s.doc = d /\ s.path = p
    BY <1>3
  <1>5. seek' = s
    BY <1>1
  <1> HIDE DEF s
  <1>6. SeekOK'
    BY <1>2, <1>3, <1>4, <1>5 DEF SeekOK, Stored
  <1>7. TypeInv'
    BY <1>2, <1>6, RowsStay, DocsStay, TreeStays, RequestsStay, HistoryStays,
       SameDocs DEF TypeInv
  <1> QED
    BY <1>2, <1>7 DEF FilesKept, Held, Stored, Taken

LEMMA RepairKeeps ==
  ASSUME TypeInv, FilesKept, Repair
  PROVE  TypeInv' /\ FilesKept'
  <1>1. /\ seek # Idle /\ seek' = Idle /\ UNCHANGED <<name, row, dirs, disk, req,
                                                      upset, purged>>
        /\ \/ Stored(seek.doc) /\ doc' = [doc EXCEPT ![seek.doc].path = seek.path]
           \/ UNCHANGED doc
    BY DEF Repair, SameFiles, files
  <1>2. /\ seek.doc \in Document /\ seek.path \in Path
        /\ Home(seek.path) = name[doc[seek.doc].who]
    BY <1>1 DEF TypeInv, SeekOK
  <1>3. /\ DocsOK' /\ DocsGo(doc, doc')
        /\ \A d \in Document : doc'[d].at = doc[d].at /\ doc'[d].who = doc[d].who
    <2>1. CASE UNCHANGED doc
      BY <1>1, <2>1, DocsStay, SameDocs DEF TypeInv
    <2>2. CASE Stored(seek.doc) /\ doc' = [doc EXCEPT ![seek.doc].path = seek.path]
      <3>1. doc[seek.doc] \in DocSet /\ doc[seek.doc].at = "row"
        BY <1>2, <2>2 DEF TypeInv, DocsOK, Stored
      <3>2. /\ doc'[seek.doc] \in DocSet /\ doc'[seek.doc].at = "row"
            /\ doc'[seek.doc].who = doc[seek.doc].who /\ doc'[seek.doc].path = seek.path
        BY <1>2, <2>2, <3>1 DEF DocSet, TypeInv, DocsOK
      <3>3. \A d \in Document : d # seek.doc => doc'[d] = doc[d]
        BY <2>2 DEF TypeInv, DocsOK
      <3>4. doc' \in [Document -> DocSet]
        BY <1>2, <2>2, <3>2 DEF TypeInv, DocsOK
      <3>5. DocsOK'
        BY <1>1, <1>2, <3>2, <3>3, <3>4 DEF TypeInv, DocsOK, Stored
      <3> QED
        BY <3>1, <3>2, <3>3, <3>5 DEF DocsGo
    <2> QED
      BY <1>1, <2>1, <2>2
  <1>4. RequestsOK'
    <2>1. ASSUME NEW g \in Handler PROVE RequestOK(req[g], doc', name)
      <3>1. Uploading(req[g]) => req[g].doc \in Document
        BY FileIs DEF Uploading, FileSteps
      <3>2. RequestOK(req[g], doc, name)
        BY DEF TypeInv, RequestsOK
      <3> QED
        BY <1>3, <3>1, <3>2, RequestStays
    <2> QED
      BY <1>1, <2>1 DEF TypeInv, RequestsOK
  <1>5. SeekOK' /\ HistoryOK'
    BY <1>1 DEF TypeInv, HistoryOK, SeekOK
  <1>6. TypeInv'
    BY <1>1, <1>3, <1>4, <1>5, RowsStay, TreeStays DEF TypeInv
  <1> QED
    BY <1>1, <1>3, <1>6 DEF FilesKept, Held, Stored, Taken

LEMMA CrashKeeps ==
  ASSUME TypeInv, FilesKept, Crash
  PROVE  TypeInv' /\ FilesKept'
  <1> DEFINE S == {d \in Document : doc[d].at = "sent"}
  <1>1. /\ req' = [h \in Handler |-> Idle] /\ seek' = Idle /\ upset' = upset \cup InFlight
        /\ doc' = [d \in Document |-> IF d \in S THEN [doc[d] EXCEPT !.at = "gone"] ELSE doc[d]]
        /\ UNCHANGED <<name, row, dirs, disk, purged>>
    BY DEF Crash, SameFiles, files
  <1>2. /\ DocsOK' /\ DocsGo(doc, doc')
        /\ \A d \in Document : /\ doc'[d].at = "row" => Stored(d) /\ d \notin S
                               /\ d \notin S => doc'[d] = doc[d]
                               /\ doc'[d].who = doc[d].who \/ doc[d].at = "none"
    <2>1. /\ S \in SUBSET Document /\ DocsOK /\ UNCHANGED name
          /\ \A d \in S : doc[d].at \in {"sent", "row"}
      BY <1>1 DEF TypeInv
    <2> HIDE DEF S
    <2> QED
      BY <1>1, <2>1, LetGo
  <1>3. RequestsOK'
    <2>1. RequestOK(Idle, doc', name') /\ ~Uploading(Idle)
      BY IdleOK DEF Uploading
    <2>2. DOMAIN req' = Handler /\ \A h \in Handler : req'[h] = Idle
      BY <1>1
    <2> QED
      BY <2>1, <2>2 DEF RequestsOK
  <1>4. SeekOK' /\ HistoryOK'
    BY <1>1, FlightIs DEF TypeInv, HistoryOK, SeekOK
  <1>5. TypeInv'
    BY <1>1, <1>2, <1>3, <1>4, RowsStay, TreeStays DEF TypeInv
  <1>6. \A d \in Document : Held(d)' => Stored(d) /\ doc'[d].who = doc[d].who
    <2>1. \A h \in Handler : req'[h].at # "insert"
      BY <1>1, IdleOK
    <2> QED
      BY <1>2, <2>1 DEF Held, Stored
  <1> QED
    BY <1>1, <1>5, <1>6 DEF FilesKept, Held, Taken

-----------------------------------------------------------------------------
(* The theorems *)

LEMMA FoldersInit == Init => TypeInv /\ FilesKept
  <1> SUFFICES ASSUME Init PROVE TypeInv /\ FilesKept
    OBVIOUS
  <1>1. RowsOK
    <2>1. Absent \in RowSet /\ Absent.at = "none"
      BY DEF Absent, RowSet, Statuses
    <2>2. row \in [Missionary -> RowSet] /\ \A m \in Missionary : row[m].at = "none"
      BY <2>1 DEF Init
    <2> QED
      BY <2>2 DEF RowsOK, Exists
  <1>2. DocsOK /\ \A d \in Document : doc[d].at = "none"
    <2>1. doc \in [Document -> DocSet] /\ \A d \in Document : doc[d].at = "none"
      BY DEF Init, DocSet
    <2> QED
      BY <2>1 DEF DocsOK, Stored
  <1>3. TreeOK
    BY FS_EmptySet DEF Init, TreeOK
  <1>4. RequestsOK /\ \A h \in Handler : req[h].at = "idle"
    <2>1. DOMAIN req = Handler /\ \A h \in Handler : req[h] = Idle
      BY DEF Init
    <2>2. RequestOK(Idle, doc, name) /\ ~Uploading(Idle) /\ Idle.at = "idle"
      BY IdleOK DEF Uploading
    <2> QED
      BY <2>1, <2>2 DEF RequestsOK
  <1>5. SeekOK /\ HistoryOK
    BY DEF Init, SeekOK, HistoryOK
  <1>6. TypeInv
    BY <1>1, <1>2, <1>3, <1>4, <1>5 DEF TypeInv, Init
  <1> QED
    BY <1>2, <1>4, <1>6 DEF FilesKept, Held, Stored

LEMMA FoldersNext ==
  ASSUME TypeInv, FilesKept, [Next]_vars
  PROVE  TypeInv' /\ FilesKept'
  <1>1. CASE \E m \in Missionary : Create(m)
    BY <1>1, CreateKeeps
  <1>2. ASSUME NEW h \in Handler, NEW m \in Missionary,
               BeginMove(h, m) \/ BeginRoster(h, m) \/ BeginUpload(h, m) \/ BeginHardDelete(h, m)
        PROVE  TypeInv' /\ FilesKept'
    BY <1>2, BeginMoveKeeps, BeginRosterKeeps, BeginUploadKeeps, BeginHardDeleteKeeps
  <1>3. ASSUME NEW h \in Handler, NEW d \in Document, BeginDelete(h, d)
        PROVE  TypeInv' /\ FilesKept'
    BY <1>3, BeginDeleteKeeps
  <1>4. ASSUME NEW h \in Handler, Choose(h) \/ Move(h) \/ MoveFails(h) \/ Rewrite(h) \/ Commit(h)
        PROVE  TypeInv' /\ FilesKept'
    BY <1>4, ChooseKeeps, MoveKeeps, MoveFailsKeeps, RewriteKeeps, CommitKeeps
  <1>5. ASSUME NEW h \in Handler,
               CommitFails(h) \/ Log(h) \/ Undo(h) \/ MoveBack(h) \/ MoveBackFails(h) \/ Install(h)
        PROVE  TypeInv' /\ FilesKept'
    BY <1>5, CommitFailsKeeps, LogKeeps, UndoKeeps, MoveBackKeeps, MoveBackFailsKeeps,
       InstallKeeps
  <1>6. ASSUME NEW h \in Handler,
               Insert(h) \/ Drop(h) \/ Unlink(h) \/ Purge(h) \/ Erase(h)
        PROVE  TypeInv' /\ FilesKept'
    BY <1>6, InsertKeeps, DropKeeps, UnlinkKeeps, PurgeKeeps, EraseKeeps
  <1>7. CASE (\E d \in Document : Open(d)) \/ Repair \/ Crash
    BY <1>7, OpenKeeps, RepairKeeps, CrashKeeps
  <1>8. CASE UNCHANGED vars
    <2>1. UNCHANGED <<name, row, doc, dirs, disk, req, seek, upset, purged>>
      BY <1>8 DEF vars, rows, files
    <2>2. HistoryOK'
      BY <2>1 DEF TypeInv, HistoryOK
    <2>3. TypeInv'
      BY <2>1, <2>2, RowsStay, DocsStay, TreeStays, RequestsStay, SeekStays,
         SameDocs DEF TypeInv
    <2> QED
      BY <2>1, <2>3 DEF FilesKept, Held, Stored, Taken
  <1> QED
    BY <1>1, <1>2, <1>3, <1>4, <1>5, <1>6, <1>7, <1>8 DEF Next, Continue

(* The invariant holds in every state of every behaviour.                  *)
THEOREM FoldersInvariant == Spec => [](TypeInv /\ FilesKept)
  <1>1. Init => TypeInv /\ FilesKept
    BY FoldersInit
  <1>2. (TypeInv /\ FilesKept) /\ [Next]_vars => (TypeInv /\ FilesKept)'
    BY FoldersNext
  <1> QED
    BY <1>1, <1>2, PTL DEF Spec

(* The type invariant: in every state a missionary's row names a folder of *)
(* one of the three areas, of two parts, and every file lies in a folder   *)
(* that exists, through all renames, copies cut short, deletes and stops.  *)
THEOREM FoldersTyped == Spec => []FoldersTypeOK
  <1>1. TypeInv => FoldersTypeOK
    <2> SUFFICES ASSUME TypeInv PROVE FoldersTypeOK
      OBVIOUS
    <2>1. ASSUME NEW m \in Missionary
          PROVE  /\ row[m].at \in {"none", "row", "gone"}
                 /\ Exists(m) => /\ row[m].status \in DOMAIN AreaOf
                                 /\ Len(row[m].folder) = 2
                                 /\ row[m].folder[1] \in {Active, Archive, Trash}
      BY DEF TypeInv, RowsOK, RowSet, Folder, Path, Areas
    <2>2. ASSUME NEW d \in Document
          PROVE  doc[d].at \in {"none", "sent", "row", "gone", "left"} /\ disk[d] \subseteq dirs
      BY DocIs DEF TypeInv, TreeOK
    <2> QED
      BY <2>1, <2>2 DEF FoldersTypeOK, TypeInv, HistoryOK
  <1> QED
    BY <1>1, FoldersInvariant, PTL

(* No file is lost: as long as a document has its row, its file is         *)
(* somewhere on the disk, wherever moves to the trash and the archive and  *)
(* their undoing, uploads and deletes fail or stop, unless a permanent     *)
(* delete (hard_delete) of its missionary or of one of the same name has   *)
(* begun: two missionaries of one name may share the folder it removes.    *)
THEOREM FilesAreKept == Spec => []NothingIsLost
  <1>1. TypeInv /\ FilesKept => NothingIsLost
    <2> SUFFICES ASSUME TypeInv, FilesKept, NEW d \in Document, Stored(d), disk[d] = {}
                 PROVE  Namesakes(doc[d].who) \cap purged # {}
      BY DEF NothingIsLost
    <2>1. PICK n \in purged : name[n] = name[doc[d].who]
      BY DEF FilesKept, Held, Taken
    <2> QED
      BY <2>1 DEF Namesakes, TypeInv, HistoryOK
  <1> QED
    BY <1>1, FoldersInvariant, PTL

-----------------------------------------------------------------------------
(* Where rows and files are at each step of a request *)

\* A missionary whose requests have come one after the other.
Own(m, ups, nm) == m \notin ups /\ \A k \in Missionary : nm[k] = nm[m] => k = m

\* The document d of the missionary m.
Of(d, m, dc) == dc[d].at # "none" /\ dc[d].who = m

\* The documents of m, S apart: the rows say folder, the files are in place.
DocsAt(m, folder, place, S, dc, dk) ==
  \A d \in Document : Of(d, m, dc) =>
    /\ dc[d].at = "row" => dc[d].path = folder
    /\ dc[d].at \in {"row", "left"} => dk[d] \subseteq {place}
    /\ d \notin S => dc[d].at # "sent" /\ (dc[d].at = "gone" => dk[d] = {})

\* The row is in the area of its status, its folder on disk unless m was purged.
InPlace(m, w, ds, gs) ==
  w.at = "row" => w.folder[1] = AreaOf[w.status] /\ (m \in gs \/ w.folder \in ds)

\* Between requests, in a request about one file, in a permanent delete.
IdleFit(m, w, dc, ds, dk, gs) ==
  /\ InPlace(m, w, ds, gs) /\ DocsAt(m, w.folder, w.folder, {}, dc, dk)
  /\ w.at = "none" => \A d \in Document : ~ Of(d, m, dc)

FileFit(m, r, w, dc, ds, dk, gs) ==
  /\ w.at # "none"
  /\ InPlace(m, w, ds, gs) /\ DocsAt(m, w.folder, w.folder, {r.doc}, dc, dk)
  /\ r.at \in {"install", "insert", "drop"} => r.from = w.folder
  /\ r.at = "install" => dk[r.doc] = {}
  /\ r.at \in {"insert", "unlink"} => dk[r.doc] \subseteq {r.from}
  /\ r.at = "drop" => dc[r.doc].at = "row"

PurgeFit(m, r, w, dc, ds, dk, gs) ==
  /\ w.at # "none"
  /\ InPlace(m, w, ds, gs) /\ DocsAt(m, w.folder, w.folder, {}, dc, dk)
  /\ r.at = "purge" => r.from = w.folder
  /\ r.at = "erase" => m \in gs /\ \A d \in Document : Of(d, m, dc) => dk[d] = {}

\* Until it commits, a move has what it has read, and where it moves to.
Remembers(r, w) ==
  /\ w.at = "row" /\ w.folder = r.from /\ w.status = r.was
  /\ IF r.kind = "roster" THEN r.was = "ACTIVE" ELSE r.from[1] = AreaOf[r.was]
Before(m, r, w, dc, ds, dk, gs) ==
  /\ Remembers(r, w) /\ DocsAt(m, r.from, r.from, {}, dc, dk) /\ (m \in gs \/ r.from \in ds)
  /\ r.at = "move" => r.to \notin ds /\ r.to[1] = Area(r.kind)
Moving(m, r, w, dc, ds, dk, gs) ==
  /\ Remembers(r, w) /\ DocsAt(m, r.from, r.to, {}, dc, dk)
  /\ r.from \notin ds /\ (m \in gs \/ r.to \in ds) /\ r.to[1] = Area(r.kind)
  /\ r.at = "commit" =>
       /\ \A d \in DOMAIN r.docs : r.docs[d] = r.to
       /\ \A d \in Document : Of(d, m, dc) /\ dc[d].at = "row" =>
            r.from = r.to \/ d \in DOMAIN r.docs

\* What holds of m at the step r of its request.
Fit(m, r, w, dc, ds, dk, gs) ==
  /\ r.at = "idle" => IdleFit(m, w, dc, ds, dk, gs)
  /\ r.at \in {"install", "insert", "drop", "unlink"} => FileFit(m, r, w, dc, ds, dk, gs)
  /\ r.at \in {"purge", "erase"} => PurgeFit(m, r, w, dc, ds, dk, gs)
  /\ r.at \in {"choose", "move"} => Before(m, r, w, dc, ds, dk, gs)
  /\ r.at \in {"rewrite", "commit", "undo", "back"} => Moving(m, r, w, dc, ds, dk, gs)
  /\ r.at = "log" => w.at = "row" /\ IdleFit(m, w, dc, ds, dk, gs)

\* r is the one request about m, or there is none.
Serves(m, r, rq) ==
  \/ r = Idle /\ \A h \in Handler : rq[h] # Idle => rq[h].who # m
  \/ \E h \in Handler : /\ r # Idle /\ r.who = m /\ rq[h] = r
                        /\ \A g \in Handler : g # h /\ rq[g] # Idle => rq[g].who # m

\* Each missionary, as long as its requests come one after the other.
Tidy(m) ==
  Own(m, upset, name) =>
    /\ seek # Idle => seek.who # m
    /\ \E r \in {Idle} \cup {req[h] : h \in Handler} :
         Serves(m, r, req) /\ Fit(m, r, row[m], doc, dirs, disk, purged)

AllTidy == \A m \in Missionary : Tidy(m)

-----------------------------------------------------------------------------
(* What others do *)

LEMMA StepsAre ==
  ASSUME NEW r \in Request
  PROVE  /\ r.at \in {"idle", "install", "insert", "drop", "unlink", "purge", "erase",
                      "choose", "move", "rewrite", "commit", "undo", "back", "log"}
         /\ r.at = "idle" => r = Idle
         /\ r.at \in {"install", "insert", "drop", "unlink"} <=> r.at \in FileSteps
         /\ r.at \in {"purge", "erase"} <=> r.at \in PurgeSteps
         /\ r.at \in {"choose", "move", "rewrite", "commit", "undo", "back", "log"} <=> r.at \in MoveSteps
  BY RequestIs DEF MoveSteps, FileSteps, PurgeSteps

\* A missionary's documents, and all places of that name, are as before.
LEMMA DocsAtStays ==
  ASSUME NEW m, NEW folder, NEW place, NEW S, NEW dc, NEW dk, NEW dc2, NEW dk2,
         DocsAt(m, folder, place, S, dc, dk),
         \A d \in Document : Of(d, m, dc) \/ Of(d, m, dc2) => dc2[d] = dc[d] /\ dk2[d] = dk[d]
  PROVE  DocsAt(m, folder, place, S, dc2, dk2)
  BY DEF DocsAt, Of

LEMMA FitStays ==
  ASSUME NEW m \in Missionary, NEW nm, NEW r, NEW w, NEW gs, NEW gs2,
         NEW dc, NEW ds, NEW dk, NEW dc2, NEW ds2, NEW dk2,
         RequestOK(r, dc, nm), r # Idle => r.who = m,
         w.at = "row" => w.folder \in Folder /\ Home(w.folder) = nm[m],
         \A d \in Document : Of(d, m, dc) \/ Of(d, m, dc2) => dc2[d] = dc[d] /\ dk2[d] = dk[d],
         \A p \in Path : Home(p) = nm[m] => (p \in ds2 <=> p \in ds),
         m \in gs <=> m \in gs2,
         Fit(m, r, w, dc, ds, dk, gs)
  PROVE  Fit(m, r, w, dc2, ds2, dk2, gs2)
  <1>1. r \in Request
    BY DEF RequestOK
  <1>2. InPlace(m, w, ds, gs) => InPlace(m, w, ds2, gs2)
    BY DEF InPlace, Folder
  <1>3. IdleFit(m, w, dc, ds, dk, gs) => IdleFit(m, w, dc2, ds2, dk2, gs2)
    BY <1>2, DocsAtStays DEF IdleFit, Of
  <1>4. CASE r.at \in {"install", "insert", "drop", "unlink"}
    <2>1. r.doc \in Document /\ Of(r.doc, m, dc)
      <3>1. r.at \in FileSteps /\ r # Idle
        BY <1>1, <1>4, StepsAre, IdleOK
      <3>2. r \in FileSet /\ FileOK(r, dc, nm)
        BY <1>1, <3>1, RequestIs DEF RequestOK
      <3> QED
        BY <1>4, <3>1, <3>2 DEF FileSet, FileOK, Of
    <2>2. dc2[r.doc] = dc[r.doc] /\ dk2[r.doc] = dk[r.doc]
      BY <2>1
    <2> QED
      BY <1>2, <1>4, <2>2, DocsAtStays DEF Fit, FileFit
  <1>5. CASE r.at \in {"purge", "erase"}
    BY <1>2, <1>5, DocsAtStays DEF Fit, PurgeFit, Of
  <1>6. CASE r.at \in {"choose", "move", "rewrite", "commit", "undo", "back", "log"}
    <2>1. /\ r.from \in Folder /\ r.from \in Path /\ Home(r.from) = nm[m]
          /\ r.at # "choose" => r.to \in Path /\ Home(r.to) = nm[m]
          /\ r.at = "commit" => \A d \in DOMAIN r.docs : d \in Document
      <3>1. r.at \in MoveSteps /\ r # Idle
        BY <1>1, <1>6, StepsAre, IdleOK
      <3>2. r \in MoveSet /\ MoveOK(r, dc, nm)
        BY <1>1, <3>1, RequestIs DEF RequestOK
      <3> QED
        BY <3>1, <3>2 DEF MoveSet, MoveOK, Folder, Rebasings
    <2>2. CASE r.at \in {"choose", "move"}
      BY <2>1, <2>2, DocsAtStays DEF Fit, Before
    <2>3. CASE r.at \in {"rewrite", "commit", "undo", "back"}
      <3>1. Moving(m, r, w, dc, ds, dk, gs) => Moving(m, r, w, dc2, ds2, dk2, gs2)
        BY <2>1, <2>3, DocsAtStays DEF Moving, Of
      <3> QED
        BY <2>3, <3>1 DEF Fit
    <2>4. CASE r.at = "log"
      BY <1>3, <2>4 DEF Fit
    <2> QED
      BY <1>6, <2>2, <2>3, <2>4
  <1>7. CASE r.at = "idle"
    BY <1>3, <1>7 DEF Fit
  <1> QED
    BY <1>1, <1>4, <1>5, <1>6, <1>7, StepsAre

\* The parts of the state that belong to k are the same in both.
Kept(k, nm, w, w2, dc, dc2, ds, ds2, dk, dk2, gs, gs2) ==
  /\ w2 = w
  /\ \A d \in Document : Of(d, k, dc) \/ Of(d, k, dc2) => dc2[d] = dc[d] /\ dk2[d] = dk[d]
  /\ \A p \in Path : Home(p) = nm[k] => (p \in ds2 <=> p \in ds)
  /\ k \in gs <=> k \in gs2

LEMMA TidyElsewhere ==
  ASSUME TypeInv, NEW k \in Missionary, Tidy(k), UNCHANGED name, upset \subseteq upset',
         seek' # Idle => seek'.who # k \/ seek' = seek,
         \A h \in Handler : /\ (req[h] # Idle /\ req[h].who = k) => req'[h] = req[h]
                            /\ (req'[h] # Idle /\ req'[h].who = k) => req'[h] = req[h],
         Own(k, upset', name) =>
           Kept(k, name, row[k], row'[k], doc, doc', dirs, dirs', disk, disk', purged, purged')
  PROVE  Tidy(k)'
  <1> SUFFICES ASSUME Own(k, upset', name)
               PROVE  /\ seek' # Idle => seek'.who # k
                      /\ \E r \in {Idle} \cup {req'[h] : h \in Handler} :
                           /\ Serves(k, r, req')
                           /\ Fit(k, r, row'[k], doc', dirs', disk', purged')
    BY DEF Tidy
  <1>1. Own(k, upset, name)
    BY DEF Own
  <1>2. PICK r \in {Idle} \cup {req[h] : h \in Handler} :
          Serves(k, r, req) /\ Fit(k, r, row[k], doc, dirs, disk, purged)
    BY <1>1 DEF Tidy
  <1>3. RequestOK(r, doc, name) /\ (r # Idle => r.who = k)
    <2>1. RequestOK(r, doc, name)
      BY <1>2, IdleOK DEF TypeInv, RequestsOK
    <2> QED
      BY <1>2, <2>1 DEF Serves
  <1>4. Kept(k, name, row[k], row'[k], doc, doc', dirs, dirs', disk, disk', purged, purged')
    OBVIOUS
  <1>5. row[k].at = "row" => row[k].folder \in Folder /\ Home(row[k].folder) = name[k]
    BY DEF TypeInv, RowsOK, Exists
  <1>6. Fit(k, r, row'[k], doc', dirs', disk', purged')
    BY <1>2, <1>3, <1>4, <1>5, FitStays DEF Kept
  <1>7. Serves(k, r, req') /\ r \in {Idle} \cup {req'[h] : h \in Handler}
    <2>1. CASE r = Idle /\ \A h \in Handler : req[h] # Idle => req[h].who # k
      BY <2>1 DEF Serves
    <2>2. CASE r # Idle
      <3>1. PICK h \in Handler : /\ r.who = k /\ req[h] = r
                                 /\ \A g \in Handler : g # h /\ req[g] # Idle => req[g].who # k
        BY <1>2, <2>2 DEF Serves
      <3>2. req'[h] = r
        BY <2>2, <3>1
      <3>3. \A g \in Handler : g # h /\ req'[g] # Idle => req'[g].who # k
        BY <3>1
      <3> QED
        BY <2>2, <3>1, <3>2, <3>3 DEF Serves
    <2> QED
      BY <1>2, <2>1, <2>2 DEF Serves
  <1> QED
    BY <1>1, <1>6, <1>7 DEF Tidy

\* A step of the handler h about m: the others' parts stay, and m's fit.
LEMMA HandlerStep ==
  ASSUME TypeInv, AllTidy, NEW h \in Handler, NEW m \in Missionary, NEW n,
         req[h] # Idle => req[h].who = m, n # Idle => n.who = m, req' = [req EXCEPT ![h] = n],
         UNCHANGED <<name, seek>>, upset \subseteq upset',
         req[h] = Idle => m \in upset' \/ m \notin InFlight,
         \A k \in Missionary : name[k] # name[m] =>
           Kept(k, name, row[k], row'[k], doc, doc', dirs, dirs', disk, disk', purged, purged'),
         Own(m, upset', name) /\ Fit(m, req[h], row[m], doc, dirs, disk, purged)
           => Fit(m, n, row'[m], doc', dirs', disk', purged')
  PROVE  AllTidy'
  <1>1. /\ DOMAIN req = Handler /\ DOMAIN req' = Handler /\ req'[h] = n
        /\ \A g \in Handler : g # h => req'[g] = req[g]
    BY DEF TypeInv, RequestsOK
  <1>2. ASSUME NEW k \in Missionary, k # m
        PROVE  Tidy(k)'
    <2>1. Own(k, upset', name) => name[k] # name[m]
      BY <1>2 DEF Own
    <2>2. \A g \in Handler : /\ (req[g] # Idle /\ req[g].who = k) => req'[g] = req[g]
                             /\ (req'[g] # Idle /\ req'[g].who = k) => req'[g] = req[g]
      BY <1>1, <1>2
    <2>3. Tidy(k)
      BY DEF AllTidy
    <2> QED
      BY <2>1, <2>2, <2>3, TidyElsewhere
  <1>3. Tidy(m)'
    <2> SUFFICES ASSUME Own(m, upset', name)
                 PROVE  /\ seek' # Idle => seek'.who # m
                        /\ \E r \in {Idle} \cup {req'[g] : g \in Handler} :
                             /\ Serves(m, r, req')
                             /\ Fit(m, r, row'[m], doc', dirs', disk', purged')
      BY DEF Tidy
    <2>1. Own(m, upset, name) /\ m \notin upset'
      BY DEF Own
    <2>2. PICK r \in {Idle} \cup {req[g] : g \in Handler} :
            Serves(m, r, req) /\ Fit(m, r, row[m], doc, dirs, disk, purged)
      BY <2>1 DEF Tidy, AllTidy
    <2>3. r = req[h] /\ \A g \in Handler : g # h /\ req[g] # Idle => req[g].who # m
      <3>1. CASE req[h] = Idle
        <4>1. \A g \in Handler : req[g] # Idle => req[g].who # m
          BY <2>1, <3>1 DEF InFlight, Working
        <4> QED
          BY <2>2, <3>1, <4>1 DEF Serves
      <3>2. CASE req[h] # Idle
        BY <2>2, <3>2 DEF Serves
      <3> QED
        BY <3>1, <3>2
    <2>4. Serves(m, n, req')
      BY <1>1, <2>3 DEF Serves
    <2>5. seek # Idle => seek.who # m
      BY <2>1 DEF Tidy, AllTidy
    <2>6. n \in {req'[g] : g \in Handler}
      BY <1>1
    <2>7. Fit(m, n, row'[m], doc', dirs', disk', purged')
      BY <2>2, <2>3
    <2> QED
      BY <2>4, <2>5, <2>6, <2>7
  <1> QED
    BY <1>2, <1>3 DEF AllTidy

-----------------------------------------------------------------------------
(* What the changes of folders leave alone *)

LEMMA NothingChanges ==
  ASSUME NEW k, UNCHANGED <<row, doc, dirs, disk, purged>>
  PROVE  Kept(k, name, row[k], row'[k], doc, doc', dirs, dirs', disk, disk', purged, purged')
  BY DEF Kept

LEMMA RenamedElsewhere ==
  ASSUME NEW S, S \subseteq Path, NEW from \in Path, NEW to \in Path, Home(from) = Home(to)
  PROVE  /\ \A p \in Path : Home(p) # Home(from) => (p \in Renamed(S, from, to) <=> p \in S)
         /\ (\A p \in S : Home(p) # Home(from)) => Renamed(S, from, to) = S
  <1> DEFINE New(p) == IF Within(p, from) THEN Rebased(p, from, to) ELSE p
  <1>1. \A p \in S : Home(p) # Home(from) => New(p) = p
    BY WithinHome
  <1>2. ASSUME NEW p \in S, Home(p) = Home(from) PROVE Home(New(p)) = Home(from)
    <2>1. CASE Within(p, from)
      <3>1. Rebased(p, from, to)[2] = to[2]
        BY <2>1, RebasedIs
      <3>2. Home(Rebased(p, from, to)) = Home(to)
        BY <3>1 DEF Home
      <3> QED
        BY <2>1, <3>2
    <2>2. CASE ~Within(p, from)
      BY <1>2, <2>2
    <2> QED
      BY <2>1, <2>2
  <1>3. Renamed(S, from, to) = {New(p) : p \in S}
    BY DEF Renamed
  <1> HIDE DEF New
  <1> QED
    BY <1>1, <1>2, <1>3

LEMMA RenameLeaves ==
  ASSUME TypeInv, NEW k \in Missionary, NEW from \in Path, NEW to \in Path,
         Home(from) = Home(to), name[k] # Home(from), Rename(from, to)
  PROVE  /\ \A p \in Path : Home(p) = name[k] => (p \in dirs' <=> p \in dirs)
         /\ \A d \in Document : Of(d, k, doc) => disk'[d] = disk[d]
  <1>1. dirs' = Renamed(dirs, from, to) /\ disk' = [d \in Document |-> Renamed(disk[d], from, to)]
    BY DEF Rename
  <1>2. dirs \subseteq Path /\ \A d \in Document : disk[d] \subseteq Path
    BY DEF TypeInv, TreeOK
  <1>3. \A p \in Path : Home(p) = name[k] => (p \in dirs' <=> p \in dirs)
    BY <1>1, <1>2, RenamedElsewhere
  <1>4. ASSUME NEW d \in Document, Of(d, k, doc)
        PROVE  disk'[d] = disk[d]
    <2>1. \A p \in disk[d] : Home(p) # Home(from)
      BY <1>4 DEF TypeInv, TreeOK, Of
    <2>2. Renamed(disk[d], from, to) = disk[d]
      BY <1>2, <2>1, RenamedElsewhere
    <2> QED
      BY <1>1, <2>2
  <1> QED
    BY <1>3, <1>4

LEMMA WithinItself ==
  ASSUME NEW p \in Path
  PROVE  Within(p, p)
  BY WithinIs, PathIs

\* The folder itself is not where it was, nor is anything moved there.
LEMMA RenamedAway ==
  ASSUME NEW S, S \subseteq Path, NEW from \in Folder, NEW to \in Folder, from # to
  PROVE  from \notin Renamed(S, from, to)
  <1>1. from \in Path /\ to \in Path /\ Len(from) = 2 /\ Len(to) = 2
    BY DEF Folder
  <1>2. ~Within(from, to)
    <2>1. from \in Seq(Label) /\ to \in Seq(Label)
      BY <1>1, PathIs
    <2>2. \E i \in 1 .. 2 : from[i] # to[i]
      BY <1>1, <2>1, SeqEqual
    <2> QED
      BY <1>1, <2>2, WithinIs
  <1>3. ASSUME NEW p \in S, Within(p, from)
        PROVE  Rebased(p, from, to) # from
    BY <1>1, <1>2, <1>3, RebasedIs
  <1>4. Within(from, from)
    BY <1>1, WithinItself
  <1> QED
    BY <1>3, <1>4 DEF Renamed

LEMMA MoveTidy ==
  ASSUME TypeInv, AllTidy, NEW h \in Handler, Move(h)
  PROVE  AllTidy'
  <1> DEFINE r == req[h]
             to == Landing(dirs, r.from, r.to)
             n == [r EXCEPT !.at = "rewrite"]
             m == r.who
  <1>1. /\ r.at = "move" /\ req' = [req EXCEPT ![h] = n]
        /\ \/ (r.from \notin dirs \/ r.from = r.to) /\ UNCHANGED <<dirs, disk>>
           \/ r.from \in dirs /\ r.from # r.to /\ to \notin dirs /\ Rename(r.from, to)
        /\ UNCHANGED <<name, row, doc, seek, purged, upset>>
    BY DEF Move, SameRows, SameFiles, Others, rows, files, Goes
  <1>2. /\ r \in MoveSet /\ MoveOK(r, doc, name) /\ m \in Missionary
        /\ r.from \in Folder /\ r.to \in Folder /\ r.from \in Path /\ r.to \in Path /\ to \in Path
        /\ Home(r.from) = name[m] /\ Home(r.from) = Home(to)
    BY <1>1, MoveIs DEF MoveSteps
  <1>3. /\ n.at = "rewrite" /\ n.who = m /\ n.from = r.from /\ n.to = r.to
        /\ n.kind = r.kind /\ n.was = r.was
    BY <1>1, <1>2, NextStepOK
  <1>4. r # Idle
    BY <1>1, IdleOK
  <1> HIDE DEF n
  <1>5. ASSUME NEW k \in Missionary, name[k] # name[m]
        PROVE  Kept(k, name, row[k], row'[k], doc, doc', dirs, dirs', disk, disk', purged, purged')
    <2>1. CASE UNCHANGED <<dirs, disk>>
      BY <1>1, <2>1, NothingChanges
    <2>2. CASE Rename(r.from, to)
      BY <1>1, <1>2, <1>5, <2>2, RenameLeaves DEF Kept
    <2> QED
      BY <1>1, <2>1, <2>2
  <1>6. ASSUME Fit(m, r, row[m], doc, dirs, disk, purged)
        PROVE  Fit(m, n, row'[m], doc', dirs', disk', purged')
    <2>1. /\ Remembers(r, row[m]) /\ DocsAt(m, r.from, r.from, {}, doc, disk)
          /\ m \in purged \/ r.from \in dirs
          /\ r.to \notin dirs /\ r.to[1] = Area(r.kind)
      BY <1>1, <1>6 DEF Fit, Before
    <2>2. to = r.to
      BY <1>2, <2>1, LandingIs
    <2>3. Remembers(n, row'[m])
      BY <1>1, <1>3, <2>1 DEF Remembers
    <2>4. CASE (r.from \notin dirs \/ r.from = r.to) /\ UNCHANGED <<dirs, disk>>
      <3>1. r.from \notin dirs' /\ m \in purged'
        BY <1>1, <2>1, <2>4
      <3>2. \A d \in Document : disk'[d] \subseteq dirs'
        BY <2>4 DEF TypeInv, TreeOK
      <3>3. DocsAt(m, r.from, r.to, {}, doc', disk')
        BY <1>1, <2>1, <2>4, <3>1, <3>2 DEF DocsAt, Of
      <3> QED
        BY <1>3, <2>1, <2>3, <3>1, <3>3 DEF Fit, Moving
    <2>5. CASE r.from \in dirs /\ r.from # r.to /\ to \notin dirs /\ Rename(r.from, to)
      <3>1. /\ dirs' = Renamed(dirs, r.from, r.to)
            /\ disk' = [d \in Document |-> Renamed(disk[d], r.from, r.to)]
        BY <2>2, <2>5 DEF Rename
      <3>2. r.to \in dirs'
        BY <1>2, <2>5, <3>1, WithinItself, RebasedIs DEF Renamed
      <3>3. r.from \notin dirs'
        BY <1>2, <2>5, <3>1, RenamedAway DEF TypeInv, TreeOK
      <3>4. ASSUME NEW d \in Document, disk[d] \subseteq {r.from}
            PROVE  disk'[d] \subseteq {r.to}
        <4>1. \A p \in disk[d] : Rebased(p, r.from, r.to) = r.to /\ Within(p, r.from)
          BY <1>2, <3>4, WithinItself, RebasedIs
        <4> QED
          BY <3>1, <4>1 DEF Renamed
      <3>5. \A d \in Document : disk[d] = {} => disk'[d] = {}
        BY <3>1 DEF Renamed
      <3>6. DocsAt(m, r.from, r.to, {}, doc', disk')
        BY <1>1, <2>1, <3>4, <3>5 DEF DocsAt, Of
      <3> QED
        BY <1>3, <2>1, <2>3, <3>2, <3>3, <3>6 DEF Fit, Moving
    <2> QED
      BY <1>1, <2>4, <2>5
  <1> QED
    BY <1>1, <1>2, <1>3, <1>4, <1>5, <1>6, HandlerStep

-----------------------------------------------------------------------------
(* A move and its undoing keep it *)

LEMMA ChooseTidy ==
  ASSUME TypeInv, AllTidy, NEW h \in Handler, Choose(h)
  PROVE  AllTidy'
  <1> DEFINE r == req[h]
             m == r.who
             free == FreeFolder(dirs, Area(r.kind), Last(r.from))
             n == [r EXCEPT !.at = "move", !.to = free]
  <1>1. /\ r.at = "choose" /\ UNCHANGED <<name, row, doc, dirs, disk, seek, purged,
                                          upset>>
        /\ \/ r.kind = "roster" /\ ~Exists(m) /\ req' = [req EXCEPT ![h] = Idle]
           \/ req' = [req EXCEPT ![h] = n]
    BY DEF Choose, SameRows, SameFiles, Others, rows, files, Ends, Goes
  <1>2. r \in MoveSet /\ m \in Missionary /\ r.from \in Folder /\ r.kind \in Kind /\ r # Idle
    BY <1>1, MoveIs, IdleOK DEF MoveSteps, MoveSet
  <1>3. free \in Folder /\ free \notin dirs /\ free[1] = Area(r.kind)
    <2>1. Last(r.from) = r.from[2] /\ r.from[2] \in Label
      BY <1>2, PathIs DEF Last, Folder
    <2> QED
      BY <1>2, <2>1, AreaIs, FreeFolderIs DEF TypeInv, TreeOK
  <1> HIDE DEF free
  <1>4. /\ n.at = "move" /\ n.to = free /\ n.from = r.from /\ n.who = m
        /\ n.kind = r.kind /\ n.was = r.was
    BY <1>2, <1>3 DEF MoveSet, MoveSteps
  <1> HIDE DEF n
  <1>5. \A k \in Missionary :
          Kept(k, name, row[k], row'[k], doc, doc', dirs, dirs', disk, disk', purged, purged')
    BY <1>1, NothingChanges
  <1>6. ASSUME Fit(m, r, row[m], doc, dirs, disk, purged)
        PROVE  /\ Exists(m)
               /\ Fit(m, n, row'[m], doc', dirs', disk', purged')
    <2>1. Before(m, r, row[m], doc, dirs, disk, purged)
      BY <1>1, <1>6 DEF Fit
    <2>2. Before(m, n, row'[m], doc', dirs', disk', purged')
      BY <1>1, <1>3, <1>4, <2>1 DEF Before, Remembers
    <2> QED
      BY <1>4, <2>1, <2>2 DEF Fit, Before, Remembers, Exists
  <1>7. CASE r.kind = "roster" /\ ~Exists(m) /\ req' = [req EXCEPT ![h] = Idle]
    BY <1>1, <1>2, <1>5, <1>6, <1>7, HandlerStep
  <1>8. CASE req' = [req EXCEPT ![h] = n]
    BY <1>1, <1>2, <1>4, <1>5, <1>6, <1>8, HandlerStep
  <1> QED
    BY <1>1, <1>7, <1>8

LEMMA RewriteTidy ==
  ASSUME TypeInv, AllTidy, NEW h \in Handler, Rewrite(h)
  PROVE  AllTidy'
  <1> DEFINE r == req[h]
             m == r.who
             Moved == {d \in Document : Stored(d) /\ doc[d].who = m /\ Within(doc[d].path, r.from)}
             S == IF r.from = r.to THEN {} ELSE Moved
             paths == [d \in S |-> Rebased(doc[d].path, r.from, r.to)]
             n == [r EXCEPT !.at = "commit", !.docs = paths]
  <1>1. /\ r.at = "rewrite" /\ req' = [req EXCEPT ![h] = n]
        /\ UNCHANGED <<name, row, doc, dirs, disk, seek, purged, upset>>
    BY DEF Rewrite, SameRows, SameFiles, Others, rows, files, Goes
  <1>2. /\ r \in MoveSet /\ m \in Missionary /\ r # Idle /\ r.from \in Path /\ r.to \in Path
    BY <1>1, MoveIs, IdleOK DEF MoveSteps
  <1> HIDE DEF paths
  <1>3. /\ n.at = "commit" /\ n.docs = paths /\ n.who = m /\ n.from = r.from /\ n.to = r.to
        /\ n.kind = r.kind /\ n.was = r.was
    BY <1>2 DEF MoveSet
  <1> HIDE DEF n
  <1>4. \A k \in Missionary :
          Kept(k, name, row[k], row'[k], doc, doc', dirs, dirs', disk, disk', purged, purged')
    BY <1>1, NothingChanges
  <1>5. ASSUME Fit(m, r, row[m], doc, dirs, disk, purged)
        PROVE  Fit(m, n, row'[m], doc', dirs', disk', purged')
    <2>1. Moving(m, r, row[m], doc, dirs, disk, purged)
      BY <1>1, <1>5 DEF Fit
    <2>2. ASSUME NEW d \in Document, Of(d, m, doc), doc[d].at = "row"
          PROVE  doc[d].path = r.from
      BY <2>1, <2>2 DEF Moving, DocsAt
    <2>3. DOMAIN paths = S /\ \A d \in S : paths[d] = r.to
      <3>1. ASSUME NEW d \in S PROVE Rebased(doc[d].path, r.from, r.to) = r.to
        BY <1>2, <2>2, <3>1, RebasedIs, WithinItself DEF Of, Stored
      <3> QED
        BY <3>1 DEF paths
    <2>4. ASSUME NEW d \in Document, Of(d, m, doc), doc[d].at = "row", r.from # r.to
          PROVE  d \in S
      BY <1>2, <2>2, <2>4, WithinItself DEF Of, Stored
    <2> HIDE DEF S
    <2>5. Moving(m, n, row'[m], doc', dirs', disk', purged')
      BY <1>1, <1>3, <2>1, <2>3, <2>4 DEF Moving, Remembers
    <2> QED
      BY <1>3, <2>5 DEF Fit
  <1> QED
    BY <1>1, <1>2, <1>3, <1>4, <1>5, HandlerStep

LEMMA CommitFailsTidy ==
  ASSUME TypeInv, AllTidy, NEW h \in Handler, CommitFails(h)
  PROVE  AllTidy'
  <1> DEFINE r == req[h]
             m == r.who
             n == [r EXCEPT !.at = "undo"]
  <1>1. /\ r.at \in {"rewrite", "commit"} /\ req' = [req EXCEPT ![h] = n]
        /\ UNCHANGED <<name, row, doc, dirs, disk, seek, purged, upset>>
    BY DEF CommitFails, SameRows, SameFiles, Others, rows, files, Goes
  <1>2. r \in MoveSet /\ m \in Missionary /\ r # Idle
    BY <1>1, MoveIs, IdleOK DEF MoveSteps
  <1>3. /\ n.at = "undo" /\ n.who = m /\ n.from = r.from /\ n.to = r.to
        /\ n.kind = r.kind /\ n.was = r.was
    BY <1>2 DEF MoveSet
  <1> HIDE DEF n
  <1>4. \A k \in Missionary :
          Kept(k, name, row[k], row'[k], doc, doc', dirs, dirs', disk, disk', purged, purged')
    BY <1>1, NothingChanges
  <1>5. ASSUME Fit(m, r, row[m], doc, dirs, disk, purged)
        PROVE  Fit(m, n, row'[m], doc', dirs', disk', purged')
    <2>1. Moving(m, r, row[m], doc, dirs, disk, purged)
      BY <1>1, <1>5 DEF Fit
    <2>2. Moving(m, n, row'[m], doc', dirs', disk', purged')
      BY <1>1, <1>3, <2>1 DEF Moving, Remembers
    <2> QED
      BY <1>3, <2>2 DEF Fit
  <1> QED
    BY <1>1, <1>2, <1>3, <1>4, <1>5, HandlerStep

LEMMA LogTidy ==
  ASSUME TypeInv, AllTidy, NEW h \in Handler, Log(h)
  PROVE  AllTidy'
  <1> DEFINE r == req[h]
             m == r.who
             n == [r EXCEPT !.at = "undo"]
  <1>1. /\ r.at = "log" /\ UNCHANGED <<name, row, doc, dirs, disk, seek, purged, upset>>
        /\ \/ req' = [req EXCEPT ![h] = Idle]
           \/ ~Exists(m) /\ req' = [req EXCEPT ![h] = n]
    BY DEF Log, SameRows, SameFiles, Others, rows, files, Goes, Ends
  <1>2. r \in MoveSet /\ m \in Missionary /\ r # Idle
    BY <1>1, MoveIs, IdleOK DEF MoveSteps
  <1>3. n.who = m
    BY <1>2 DEF MoveSet
  <1> HIDE DEF n
  <1>4. \A k \in Missionary :
          Kept(k, name, row[k], row'[k], doc, doc', dirs, dirs', disk, disk', purged, purged')
    BY <1>1, NothingChanges
  <1>5. ASSUME Fit(m, r, row[m], doc, dirs, disk, purged)
        PROVE  Exists(m) /\ Fit(m, Idle, row'[m], doc', dirs', disk', purged')
    <2>1. Exists(m) /\ IdleFit(m, row[m], doc, dirs, disk, purged)
      BY <1>1, <1>5 DEF Fit, Exists
    <2>2. IdleFit(m, row'[m], doc', dirs', disk', purged')
      BY <1>1, <2>1
    <2> QED
      BY <2>1, <2>2, IdleOK DEF Fit
  <1>6. CASE req' = [req EXCEPT ![h] = Idle]
    BY <1>1, <1>2, <1>4, <1>5, <1>6, HandlerStep
  <1>7. CASE ~Exists(m) /\ req' = [req EXCEPT ![h] = n]
    BY <1>1, <1>2, <1>3, <1>4, <1>5, <1>7, HandlerStep
  <1> QED
    BY <1>1, <1>6, <1>7

LEMMA UndoTidy ==
  ASSUME TypeInv, AllTidy, NEW h \in Handler, Undo(h)
  PROVE  AllTidy'
  <1> DEFINE r == req[h]
             m == r.who
             n == [r EXCEPT !.at = "back"]
  <1>1. /\ r.at = "undo" /\ UNCHANGED <<name, row, doc, dirs, disk, seek, purged>>
        /\ upset \subseteq upset'
        /\ \/ Undoable(r) /\ req' = [req EXCEPT ![h] = n]
           \/ /\ ~Undoable(r) /\ req' = [req EXCEPT ![h] = Idle]
              /\ r.kind = "roster" => upset' = upset \cup {m}
    BY DEF Undo, GivesUp, SameRows, SameFiles, Others, rows, files, Goes, Ends, Breaks
  <1>2. r \in MoveSet /\ m \in Missionary /\ r # Idle
    BY <1>1, MoveIs, IdleOK DEF MoveSteps
  <1>3. /\ n.at = "back" /\ n.who = m /\ n.from = r.from /\ n.to = r.to
        /\ n.kind = r.kind /\ n.was = r.was
    BY <1>2 DEF MoveSet
  <1> HIDE DEF n
  <1>4. \A k \in Missionary :
          Kept(k, name, row[k], row'[k], doc, doc', dirs, dirs', disk, disk', purged, purged')
    BY <1>1, NothingChanges
  <1>5. ASSUME Fit(m, r, row[m], doc, dirs, disk, purged)
        PROVE  Moving(m, r, row[m], doc, dirs, disk, purged)
    BY <1>1, <1>5 DEF Fit
  <1>6. CASE Undoable(r) /\ req' = [req EXCEPT ![h] = n]
    <2>1. ASSUME Fit(m, r, row[m], doc, dirs, disk, purged)
          PROVE  Fit(m, n, row'[m], doc', dirs', disk', purged')
      <3>1. Moving(m, n, row'[m], doc', dirs', disk', purged')
        BY <1>1, <1>3, <1>5, <2>1 DEF Moving, Remembers
      <3> QED
        BY <1>3, <3>1 DEF Fit
    <2> QED
      BY <1>1, <1>2, <1>3, <1>4, <1>6, <2>1, HandlerStep
  <1>7. CASE /\ ~Undoable(r) /\ req' = [req EXCEPT ![h] = Idle]
             /\ r.kind = "roster" => upset' = upset \cup {m}
    <2>1. ASSUME Own(m, upset', name), Fit(m, r, row[m], doc, dirs, disk, purged)
          PROVE  Fit(m, Idle, row'[m], doc', dirs', disk', purged')
      <3>1. /\ Remembers(r, row[m]) /\ DocsAt(m, r.from, r.to, {}, doc, disk)
            /\ r.from \notin dirs /\ (m \in purged \/ r.to \in dirs)
        BY <1>5, <2>1 DEF Moving
      <3>2. /\ row[m].at = "row" /\ row[m].folder = r.from /\ r.from[1] = AreaOf[row[m].status]
        BY <1>7, <2>1, <3>1 DEF Remembers, Own
      <3>3. r.to \notin dirs /\ m \in purged
        BY <1>7, <3>1 DEF Undoable
      <3>4. \A d \in Document : disk[d] \subseteq dirs
        BY DEF TypeInv, TreeOK
      <3>5. DocsAt(m, r.from, r.from, {}, doc', disk')
        BY <1>1, <3>1, <3>3, <3>4 DEF DocsAt, Of
      <3>6. IdleFit(m, row'[m], doc', dirs', disk', purged')
        BY <1>1, <3>2, <3>3, <3>5 DEF IdleFit, InPlace
      <3> QED
        BY <3>6, IdleOK DEF Fit
    <2> QED
      BY <1>1, <1>2, <1>4, <1>7, <2>1, HandlerStep
  <1> QED
    BY <1>1, <1>6, <1>7

LEMMA MoveBackTidy ==
  ASSUME TypeInv, AllTidy, NEW h \in Handler, MoveBack(h)
  PROVE  AllTidy'
  <1> DEFINE r == req[h]
             m == r.who
             to == Landing(dirs, r.to, r.from)
  <1>1. /\ r.at = "back" /\ req' = [req EXCEPT ![h] = Idle]
        /\ r.to \in dirs /\ Rename(r.to, to)
        /\ r.kind = "roster" => upset' = upset \cup {m}
        /\ upset \subseteq upset'
        /\ UNCHANGED <<name, row, doc, seek, purged>>
    BY DEF MoveBack, GivesUp, SameRows, Others, rows, Goes, Ends, Breaks
  <1>2. /\ r \in MoveSet /\ m \in Missionary /\ r # Idle
        /\ r.from \in Folder /\ r.to \in Folder /\ r.from \in Path /\ r.to \in Path
        /\ to \in Path /\ Home(to) = name[m] /\ Home(r.to) = name[m]
    BY <1>1, MoveIs, IdleOK DEF MoveSteps, MoveSet, MoveOK
  <1>3. r.from \notin dirs => to = r.from
    BY <1>2, LandingIs
  <1> HIDE DEF to
  <1>4. ASSUME NEW k \in Missionary, name[k] # name[m]
        PROVE  Kept(k, name, row[k], row'[k], doc, doc', dirs, dirs', disk, disk', purged, purged')
    BY <1>1, <1>2, <1>4, RenameLeaves DEF Kept
  <1>5. ASSUME Own(m, upset', name), Fit(m, r, row[m], doc, dirs, disk, purged)
        PROVE  Fit(m, Idle, row'[m], doc', dirs', disk', purged')
    <2>1. /\ Remembers(r, row[m]) /\ DocsAt(m, r.from, r.to, {}, doc, disk)
          /\ r.from \notin dirs
      BY <1>1, <1>5 DEF Fit, Moving
    <2>2. /\ row[m].at = "row" /\ row[m].folder = r.from /\ r.from[1] = AreaOf[row[m].status]
      BY <1>1, <1>5, <2>1 DEF Remembers, Own
    <2>3. /\ dirs' = Renamed(dirs, r.to, r.from)
          /\ disk' = [d \in Document |-> Renamed(disk[d], r.to, r.from)]
      BY <1>1, <1>3, <2>1 DEF Rename
    <2>4. r.from \in dirs'
      BY <1>1, <1>2, <2>3, WithinItself, RebasedIs DEF Renamed
    <2>5. ASSUME NEW d \in Document, disk[d] \subseteq {r.to}
          PROVE  disk'[d] \subseteq {r.from}
      <3>1. \A p \in disk[d] : Rebased(p, r.to, r.from) = r.from /\ Within(p, r.to)
        BY <1>2, <2>5, WithinItself, RebasedIs
      <3> QED
        BY <2>3, <3>1 DEF Renamed
    <2>6. \A d \in Document : disk[d] = {} => disk'[d] = {}
      BY <2>3 DEF Renamed
    <2>7. DocsAt(m, r.from, r.from, {}, doc', disk')
      BY <1>1, <2>1, <2>5, <2>6 DEF DocsAt, Of
    <2>8. IdleFit(m, row'[m], doc', dirs', disk', purged')
      BY <1>1, <2>2, <2>4, <2>7 DEF IdleFit, InPlace
    <2> QED
      BY <2>8, IdleOK DEF Fit
  <1> QED
    BY <1>1, <1>2, <1>4, <1>5, HandlerStep

LEMMA CopyLeaves ==
  ASSUME TypeInv, NEW k \in Missionary, NEW from \in Path, NEW to \in Path,
         Home(from) = Home(to), name[k] # Home(from), CopyPartly(from, to)
  PROVE  /\ \A p \in Path : Home(p) = name[k] => (p \in dirs' <=> p \in dirs)
         /\ \A d \in Document : Of(d, k, doc) => disk'[d] = disk[d]
  <1>1. \A p \in Path : Home(p) = name[k] => (p \in dirs' <=> p \in dirs)
    <2>1. \A p \in Path : Home(p) = name[k] => (p \in Renamed(dirs, from, to) <=> p \in dirs)
      BY RenamedElsewhere DEF TypeInv, TreeOK
    <2>2. dirs' = dirs \cup Renamed(dirs, from, to)
      BY DEF CopyPartly
    <2> QED
      BY <2>1, <2>2
  <1>2. ASSUME NEW d \in Document, Of(d, k, doc)
        PROVE  disk'[d] = disk[d]
    <2> DEFINE Copies == {Rebased(p, from, to) : p \in {q \in disk[d] : Within(q, from)}}
               Rest == {q \in disk[d] : ~Within(q, from)}
    <2>1. \A p \in disk[d] : p \in Path /\ Home(p) = name[k]
      BY <1>2 DEF TypeInv, TreeOK, Of
    <2>2. \A p \in disk[d] : ~Within(p, from)
      BY <2>1, WithinHome
    <2>3. Copies = {} /\ Rest = disk[d]
      BY <2>2
    <2>4. \/ disk'[d] = disk[d] \/ disk'[d] = disk[d] \cup Copies
          \/ disk'[d] = Copies \cup disk[d] \/ disk'[d] = Copies \cup Rest
      BY CopyIs
    <2> HIDE DEF Copies, Rest
    <2> QED
      BY <2>3, <2>4
  <1> QED
    BY <1>1, <1>2

\* A step that ends in an upset leaves nothing to show of m.
LEMMA BreakTidy ==
  ASSUME TypeInv, AllTidy, NEW h \in Handler, Breaks(h), req[h] # Idle,
         UNCHANGED <<name, row, doc, seek, purged>>, req[h].who \in Missionary,
         NEW from \in Path, NEW to \in Path, Home(from) = name[req[h].who],
         Home(to) = name[req[h].who],
         UNCHANGED <<dirs, disk>> \/ CopyPartly(from, to)
  PROVE  AllTidy'
  <1> DEFINE m == req[h].who
  <1>1. ASSUME NEW k \in Missionary, name[k] # name[m]
        PROVE  Kept(k, name, row[k], row'[k], doc, doc', dirs, dirs', disk, disk', purged, purged')
    <2>1. CASE UNCHANGED <<dirs, disk>>
      BY <2>1, NothingChanges
    <2>2. CASE CopyPartly(from, to)
      BY <1>1, <2>2, CopyLeaves DEF Kept
    <2> QED
      BY <2>1, <2>2
  <1>2. req' = [req EXCEPT ![h] = Idle] /\ upset' = upset \cup {m} /\ ~Own(m, upset', name)
    BY DEF Breaks, Own
  <1> QED
    BY <1>1, <1>2, HandlerStep

LEMMA MoveFailsTidy ==
  ASSUME TypeInv, AllTidy, NEW h \in Handler, MoveFails(h)
  PROVE  AllTidy'
  <1> DEFINE r == req[h]
             to == Landing(dirs, r.from, r.to)
  <1>1. /\ r.at = "move" /\ Breaks(h) /\ UNCHANGED <<name, row, doc, seek, purged>>
        /\ UNCHANGED <<dirs, disk>> \/ CopyPartly(r.from, to)
    BY DEF MoveFails, SameRows, SameFiles, Others, rows, files
  <1>2. /\ r.from \in Path /\ to \in Path /\ Home(r.from) = name[r.who]
        /\ Home(to) = name[r.who] /\ r.who \in Missionary /\ r # Idle
    BY <1>1, MoveIs, IdleOK DEF MoveSteps
  <1> HIDE DEF to
  <1> QED
    BY <1>1, <1>2, BreakTidy

LEMMA MoveBackFailsTidy ==
  ASSUME TypeInv, AllTidy, NEW h \in Handler, MoveBackFails(h)
  PROVE  AllTidy'
  <1> DEFINE r == req[h]
             to == Landing(dirs, r.to, r.from)
  <1>1. /\ r.at = "back" /\ Breaks(h) /\ UNCHANGED <<name, row, doc, seek, purged>>
        /\ UNCHANGED <<dirs, disk>> \/ CopyPartly(r.to, to)
    BY DEF MoveBackFails, SameRows, SameFiles, Others, rows, files
  <1>2. /\ r.to \in Path /\ to \in Path /\ Home(r.to) = name[r.who]
        /\ Home(to) = name[r.who] /\ r.who \in Missionary /\ r # Idle
    BY <1>1, MoveIs, IdleOK DEF MoveSteps
  <1> HIDE DEF to
  <1> QED
    BY <1>1, <1>2, BreakTidy

LEMMA CommitTidy ==
  ASSUME TypeInv, AllTidy, NEW h \in Handler, Commit(h)
  PROVE  AllTidy'
  <1> DEFINE r == req[h]
             m == r.who
             status == IF r.was = Target[r.kind] THEN row[m].status ELSE Target[r.kind]
             folder == IF r.from = r.to THEN row[m].folder ELSE r.to
             n == [r EXCEPT !.at = "log"]
  <1>1. /\ r.at = "commit" /\ Fits(r)
        /\ row' = [row EXCEPT ![m].status = status, ![m].folder = folder]
        /\ doc' = [d \in Document |-> IF d \in DOMAIN r.docs
                                      THEN [doc[d] EXCEPT !.path = r.docs[d]] ELSE doc[d]]
        /\ req' = [req EXCEPT ![h] = Idle] \/ req' = [req EXCEPT ![h] = n]
        /\ UNCHANGED <<name, dirs, disk, seek, purged, upset>>
    BY DEF Commit, SameFiles, Others, files, Goes, Ends
  <1>2. /\ r \in MoveSet /\ MoveOK(r, doc, name) /\ m \in Missionary /\ r # Idle
        /\ r.kind \in Kind /\ r.docs \in Rebasings
    BY <1>1, MoveIs, IdleOK DEF MoveSteps, MoveSet, MoveOK
  <1>3. n.at = "log" /\ n.who = m
    BY <1>2 DEF MoveSet
  <1>4. /\ row'[m].at = "row" /\ row'[m].status = status /\ row'[m].folder = folder
        /\ \A k \in Missionary : k # m => row'[k] = row[k]
    <2>1. row \in [Missionary -> RowSet] /\ row[m] \in RowSet /\ row[m].at = "row"
      BY <1>1, <1>2 DEF TypeInv, RowsOK, Fits, Exists
    <2> HIDE DEF status, folder
    <2> QED
      BY <1>1, <1>2, <2>1 DEF RowSet
  <1>5. ASSUME NEW d \in DOMAIN r.docs
        PROVE  /\ d \in Document /\ doc[d].who = m /\ doc[d].at = "row"
               /\ doc'[d].at = "row" /\ doc'[d].who = m /\ doc'[d].path = r.docs[d]
    <2>1. d \in Document /\ doc[d].who = m /\ doc[d].at = "row" /\ r.docs[d] \in Path
      BY <1>1, <1>2 DEF Rebasings, MoveOK, Fits, Stored
    <2>2. doc[d] \in DocSet /\ doc'[d] = [doc[d] EXCEPT !.path = r.docs[d]]
      BY <1>1, <2>1 DEF TypeInv, DocsOK
    <2> QED
      BY <2>1, <2>2 DEF DocSet
  <1>6. \A d \in Document : d \notin DOMAIN r.docs => doc'[d] = doc[d]
    BY <1>1
  <1> HIDE DEF n, status, folder
  <1>7. ASSUME NEW k \in Missionary, name[k] # name[m]
        PROVE  Kept(k, name, row[k], row'[k], doc, doc', dirs, dirs', disk, disk', purged, purged')
    <2>1. k # m
      BY <1>7
    <2>2. \A d \in Document : Of(d, k, doc) \/ Of(d, k, doc') => d \notin DOMAIN r.docs
      BY <1>5, <2>1 DEF Of
    <2> QED
      BY <1>1, <1>4, <1>6, <2>1, <2>2 DEF Kept
  <1>8. ASSUME Fit(m, r, row[m], doc, dirs, disk, purged)
        PROVE  /\ row'[m].at = "row"
               /\ IdleFit(m, row'[m], doc', dirs', disk', purged')
    <2>1. Moving(m, r, row[m], doc, dirs, disk, purged) /\ row[m].at = "row"
      BY <1>1, <1>8 DEF Fit, Moving, Remembers
    <2>2. folder = r.to
      BY <2>1 DEF Moving, Remembers, folder
    <2>3. AreaOf[status] = Area(r.kind)
      <3>1. status = Target[r.kind]
        BY <2>1 DEF Moving, Remembers, status
      <3>2. AreaOf[Target[r.kind]] = Area(r.kind)
        BY <1>2 DEF Kind, Target, AreaOf, Area
      <3> QED
        BY <3>1, <3>2
    <2>4. InPlace(m, row'[m], dirs', purged')
      BY <1>1, <1>4, <2>1, <2>2, <2>3 DEF InPlace, Moving
    <2>5. DocsAt(m, r.to, r.to, {}, doc', disk')
      <3>1. ASSUME NEW d \in Document, Of(d, m, doc')
            PROVE  /\ doc'[d].at = "row" => doc'[d].path = r.to
                   /\ doc'[d].at \in {"row", "left"} => disk'[d] \subseteq {r.to}
                   /\ doc'[d].at # "sent" /\ (doc'[d].at = "gone" => disk'[d] = {})
        <4>1. Of(d, m, doc) /\ doc'[d].at = doc[d].at /\ disk'[d] = disk[d]
          BY <1>1, <1>5, <1>6, <3>1 DEF Of
        <4>2. doc'[d].at = "row" => doc'[d].path = r.to
          <5>1. CASE d \in DOMAIN r.docs
            BY <1>1, <1>5, <2>1, <5>1 DEF Moving
          <5>2. CASE d \notin DOMAIN r.docs
            BY <1>1, <1>6, <2>1, <4>1, <5>2 DEF Moving, DocsAt
          <5> QED
            BY <5>1, <5>2
        <4> QED
          BY <2>1, <4>1, <4>2 DEF Moving, DocsAt
      <3> QED
        BY <3>1 DEF DocsAt
    <2> QED
      BY <1>4, <2>2, <2>4, <2>5 DEF IdleFit
  <1>9. CASE req' = [req EXCEPT ![h] = Idle]
    <2>1. Fit(m, r, row[m], doc, dirs, disk, purged)
            => Fit(m, Idle, row'[m], doc', dirs', disk', purged')
      BY <1>8, IdleOK DEF Fit
    <2> QED
      BY <1>1, <1>2, <1>7, <1>9, <2>1, HandlerStep
  <1>10. CASE req' = [req EXCEPT ![h] = n]
    <2>1. Fit(m, r, row[m], doc, dirs, disk, purged)
            => Fit(m, n, row'[m], doc', dirs', disk', purged')
      BY <1>3, <1>8 DEF Fit
    <2> QED
      BY <1>1, <1>2, <1>3, <1>7, <1>10, <2>1, HandlerStep
  <1> QED
    BY <1>1, <1>9, <1>10

-----------------------------------------------------------------------------
(* Requests begin *)

LEMMA BeginsIs ==
  ASSUME NEW h \in Handler, NEW n, NEW m, n.who = m, Begins(h, n)
  PROVE  /\ req[h] = Idle /\ req' = [req EXCEPT ![h] = n] /\ upset \subseteq upset'
         /\ m \in upset' \/ m \notin InFlight
  BY DEF Begins

\* Between requests a missionary's row and documents are as RowsAgree says.
LEMMA IdleIs ==
  ASSUME NEW m, NEW w, NEW dc, NEW ds, NEW dk, NEW gs, Fit(m, Idle, w, dc, ds, dk, gs)
  PROVE  IdleFit(m, w, dc, ds, dk, gs)
  BY IdleOK DEF Fit

LEMMA BeginMoveTidy ==
  ASSUME TypeInv, AllTidy, NEW h \in Handler, NEW m \in Missionary, BeginMove(h, m)
  PROVE  AllTidy'
  <1>1. PICK kind \in Kind \ {"roster"} :
          Begins(h, [at |-> "choose", kind |-> kind, who |-> m, was |-> row[m].status,
                     from |-> row[m].folder, to |-> Nowhere, docs |-> <<>>])
    BY DEF BeginMove
  <1> DEFINE n == [at |-> "choose", kind |-> kind, who |-> m, was |-> row[m].status,
                   from |-> row[m].folder, to |-> Nowhere, docs |-> <<>>]
  <1>2. /\ n.at = "choose" /\ n.kind # "roster" /\ n.who = m /\ n.was = row[m].status
        /\ n.from = row[m].folder
    OBVIOUS
  <1>3. Begins(h, n)
    BY <1>1
  <1> HIDE DEF n
  <1>4. /\ row[m].at = "row" /\ UNCHANGED <<name, row, doc, dirs, disk, seek, purged>>
    BY DEF BeginMove, SameRows, SameFiles, Others, rows, files, Exists
  <1>5. /\ req[h] = Idle /\ req' = [req EXCEPT ![h] = n] /\ upset \subseteq upset'
        /\ m \in upset' \/ m \notin InFlight
    BY <1>2, <1>3, BeginsIs
  <1>6. ASSUME Fit(m, req[h], row[m], doc, dirs, disk, purged)
        PROVE  Fit(m, n, row'[m], doc', dirs', disk', purged')
    <2>1. IdleFit(m, row[m], doc, dirs, disk, purged)
      BY <1>5, <1>6, IdleIs
    <2>2. Before(m, n, row'[m], doc', dirs', disk', purged')
      BY <1>2, <1>4, <2>1 DEF IdleFit, InPlace, Before, Remembers
    <2> QED
      BY <1>2, <2>2 DEF Fit
  <1>7. \A k \in Missionary :
          Kept(k, name, row[k], row'[k], doc, doc', dirs, dirs', disk, disk', purged, purged')
    BY <1>4, NothingChanges
  <1> QED
    BY <1>2, <1>4, <1>5, <1>6, <1>7, HandlerStep

LEMMA BeginRosterTidy ==
  ASSUME TypeInv, AllTidy, NEW h \in Handler, NEW m \in Missionary, BeginRoster(h, m)
  PROVE  AllTidy'
  <1> DEFINE n == [at |-> "choose", kind |-> "roster", who |-> m, was |-> "ACTIVE",
                   from |-> row[m].folder, to |-> Nowhere, docs |-> <<>>]
  <1>1. Begins(h, n)
    BY DEF BeginRoster
  <1>2. /\ n.at = "choose" /\ n.kind = "roster" /\ n.who = m /\ n.was = "ACTIVE"
        /\ n.from = row[m].folder
    OBVIOUS
  <1> HIDE DEF n
  <1>3. /\ row[m].at = "row" /\ row' = [row EXCEPT ![m].status = "ACTIVE"]
        /\ UNCHANGED <<name, doc, dirs, disk, seek, purged>>
    BY DEF BeginRoster, SameFiles, Others, files, Exists
  <1>4. /\ req[h] = Idle /\ req' = [req EXCEPT ![h] = n] /\ upset \subseteq upset'
        /\ m \in upset' \/ m \notin InFlight
    BY <1>1, <1>2, BeginsIs
  <1>5. /\ row'[m].at = "row" /\ row'[m].status = "ACTIVE" /\ row'[m].folder = row[m].folder
        /\ \A k \in Missionary : k # m => row'[k] = row[k]
    BY <1>3 DEF TypeInv, RowsOK, RowSet
  <1>6. ASSUME Fit(m, req[h], row[m], doc, dirs, disk, purged)
        PROVE  Fit(m, n, row'[m], doc', dirs', disk', purged')
    <2>1. IdleFit(m, row[m], doc, dirs, disk, purged)
      BY <1>4, <1>6, IdleIs
    <2>2. Before(m, n, row'[m], doc', dirs', disk', purged')
      BY <1>2, <1>3, <1>5, <2>1 DEF IdleFit, InPlace, Before, Remembers
    <2> QED
      BY <1>2, <2>2 DEF Fit
  <1>7. ASSUME NEW k \in Missionary, name[k] # name[m]
        PROVE  Kept(k, name, row[k], row'[k], doc, doc', dirs, dirs', disk, disk', purged, purged')
    BY <1>3, <1>5, <1>7 DEF Kept
  <1> QED
    BY <1>2, <1>3, <1>4, <1>6, <1>7, HandlerStep

LEMMA BeginHardDeleteTidy ==
  ASSUME TypeInv, AllTidy, NEW h \in Handler, NEW m \in Missionary, BeginHardDelete(h, m)
  PROVE  AllTidy'
  <1> DEFINE n == [at |-> "purge", who |-> m, from |-> row[m].folder]
  <1>1. Begins(h, n)
    BY DEF BeginHardDelete
  <1>2. n.at = "purge" /\ n.who = m /\ n.from = row[m].folder
    OBVIOUS
  <1> HIDE DEF n
  <1>3. /\ row[m].at = "row" /\ UNCHANGED <<name, row, doc, dirs, disk, seek, purged>>
    BY DEF BeginHardDelete, SameRows, SameFiles, Others, rows, files, Exists
  <1>4. /\ req[h] = Idle /\ req' = [req EXCEPT ![h] = n] /\ upset \subseteq upset'
        /\ m \in upset' \/ m \notin InFlight
    BY <1>1, <1>2, BeginsIs
  <1>5. ASSUME Fit(m, req[h], row[m], doc, dirs, disk, purged)
        PROVE  Fit(m, n, row'[m], doc', dirs', disk', purged')
    <2>1. IdleFit(m, row[m], doc, dirs, disk, purged)
      BY <1>4, <1>5, IdleIs
    <2>2. PurgeFit(m, n, row'[m], doc', dirs', disk', purged')
      BY <1>2, <1>3, <2>1 DEF IdleFit, PurgeFit
    <2> QED
      BY <1>2, <2>2 DEF Fit
  <1>6. \A k \in Missionary :
          Kept(k, name, row[k], row'[k], doc, doc', dirs, dirs', disk, disk', purged, purged')
    BY <1>3, NothingChanges
  <1> QED
    BY <1>2, <1>3, <1>4, <1>5, <1>6, HandlerStep

LEMMA BeginDeleteTidy ==
  ASSUME TypeInv, AllTidy, NEW h \in Handler, NEW d \in Document, BeginDelete(h, d)
  PROVE  AllTidy'
  <1> DEFINE m == doc[d].who
             n == [at |-> "drop", who |-> m, doc |-> d, from |-> doc[d].path]
  <1>1. Begins(h, n)
    BY DEF BeginDelete
  <1>2. n.at = "drop" /\ n.who = m /\ n.doc = d /\ n.from = doc[d].path
    OBVIOUS
  <1> HIDE DEF n
  <1>3. /\ doc[d].at = "row" /\ UNCHANGED <<name, row, doc, dirs, disk, seek, purged>>
    BY DEF BeginDelete, SameRows, SameFiles, Others, rows, files, Stored
  <1>4. m \in Missionary
    BY <1>3, DocIs DEF TypeInv
  <1>5. /\ req[h] = Idle /\ req' = [req EXCEPT ![h] = n] /\ upset \subseteq upset'
        /\ m \in upset' \/ m \notin InFlight
    BY <1>1, <1>2, BeginsIs
  <1>6. ASSUME Fit(m, req[h], row[m], doc, dirs, disk, purged)
        PROVE  Fit(m, n, row'[m], doc', dirs', disk', purged')
    <2>1. IdleFit(m, row[m], doc, dirs, disk, purged)
      BY <1>5, <1>6, IdleIs
    <2>2. Of(d, m, doc)
      BY <1>3 DEF Of
    <2>3. doc[d].path = row[m].folder /\ row[m].at # "none"
      BY <1>3, <2>1, <2>2 DEF IdleFit, DocsAt
    <2>4. DocsAt(m, row[m].folder, row[m].folder, {d}, doc, disk)
      BY <2>1 DEF IdleFit, DocsAt
    <2>5. FileFit(m, n, row'[m], doc', dirs', disk', purged')
      BY <1>2, <1>3, <2>1, <2>3, <2>4 DEF IdleFit, FileFit
    <2> QED
      BY <1>2, <2>5 DEF Fit
  <1>7. \A k \in Missionary :
          Kept(k, name, row[k], row'[k], doc, doc', dirs, dirs', disk, disk', purged, purged')
    BY <1>3, NothingChanges
  <1> QED
    BY <1>2, <1>3, <1>4, <1>5, <1>6, <1>7, HandlerStep

LEMMA BeginUploadTidy ==
  ASSUME TypeInv, AllTidy, NEW h \in Handler, NEW m \in Missionary, BeginUpload(h, m)
  PROVE  AllTidy'
  <1>1. PICK d \in Document :
          /\ doc[d].at = "none"
          /\ doc' = [doc EXCEPT ![d] = [at |-> "sent", who |-> m]]
          /\ Begins(h, [at |-> "install", who |-> m, doc |-> d, from |-> row[m].folder])
    BY DEF BeginUpload
  <1> DEFINE n == [at |-> "install", who |-> m, doc |-> d, from |-> row[m].folder]
  <1>2. Begins(h, n)
    BY <1>1
  <1>3. n.at = "install" /\ n.who = m /\ n.doc = d /\ n.from = row[m].folder
    OBVIOUS
  <1> HIDE DEF n
  <1>4. /\ row[m].at = "row" /\ UNCHANGED <<name, row, dirs, disk, seek, purged>>
    BY DEF BeginUpload, SameFiles, Others, files, Exists
  <1>5. /\ req[h] = Idle /\ req' = [req EXCEPT ![h] = n] /\ upset \subseteq upset'
        /\ m \in upset' \/ m \notin InFlight
    BY <1>2, <1>3, BeginsIs
  <1>6. /\ doc'[d].at = "sent" /\ doc'[d].who = m
        /\ \A c \in Document : c # d => doc'[c] = doc[c]
    BY <1>1 DEF TypeInv, DocsOK
  <1>7. disk[d] = {}
    BY <1>1 DEF TypeInv, TreeOK
  <1>8. ASSUME Fit(m, req[h], row[m], doc, dirs, disk, purged)
        PROVE  Fit(m, n, row'[m], doc', dirs', disk', purged')
    <2>1. IdleFit(m, row[m], doc, dirs, disk, purged)
      BY <1>5, <1>8, IdleIs
    <2>2. DocsAt(m, row[m].folder, row[m].folder, {d}, doc', disk')
      BY <1>4, <1>6, <2>1 DEF IdleFit, DocsAt, Of
    <2>3. FileFit(m, n, row'[m], doc', dirs', disk', purged')
      BY <1>3, <1>4, <1>7, <2>1, <2>2 DEF IdleFit, FileFit
    <2> QED
      BY <1>3, <2>3 DEF Fit
  <1>9. ASSUME NEW k \in Missionary, name[k] # name[m]
        PROVE  Kept(k, name, row[k], row'[k], doc, doc', dirs, dirs', disk, disk', purged, purged')
    <2>1. ~Of(d, k, doc) /\ ~Of(d, k, doc')
      BY <1>1, <1>6, <1>9 DEF Of
    <2> QED
      BY <1>4, <1>6, <2>1 DEF Kept
  <1> QED
    BY <1>3, <1>4, <1>5, <1>8, <1>9, HandlerStep

LEMMA WithParentsElsewhere ==
  ASSUME TypeInv, NEW p \in Path, dirs' = WithParents(dirs, p)
  PROVE  \A q \in Path : Home(q) # Home(p) => (q \in dirs' <=> q \in dirs)
  BY WithParentsIs DEF TypeInv, TreeOK

\* A new missionary has no documents yet.
LEMMA CreateTidy ==
  ASSUME TypeInv, AllTidy, NEW m \in Missionary, Create(m)
  PROVE  AllTidy'
  <1> DEFINE f == <<Active, <<name[m]>>>>
             w == [at |-> "row", status |-> "ACTIVE", folder |-> f]
  <1>1. /\ row[m].at = "none" /\ dirs' = WithParents(dirs, f)
        /\ \/ row' = [row EXCEPT ![m] = w]
           \/ row' = [row EXCEPT ![m].at = "gone"]
        /\ UNCHANGED <<name, doc, disk, req, upset, seek, purged>>
    BY DEF Create, Others, Absent
  <1>2. f \in Path /\ Home(f) = name[m] /\ f[1] = Active
    BY FirstFolder DEF Folder
  <1>3. w.at = "row" /\ w.status = "ACTIVE" /\ w.folder = f
    OBVIOUS
  <1> HIDE DEF f
  <1>4. /\ \A k \in Missionary : k # m => row'[k] = row[k]
        /\ row'[m].at # "none"
        /\ row'[m].at = "row" => row'[m].status = "ACTIVE" /\ row'[m].folder = f
    <2>1. row \in [Missionary -> RowSet] /\ row[m] \in RowSet
      BY DEF TypeInv, RowsOK
    <2>2. CASE row' = [row EXCEPT ![m] = w]
      BY <1>3, <2>1, <2>2
    <2>3. CASE row' = [row EXCEPT ![m].at = "gone"]
      <3>1. row'[m].at = "gone" /\ \A k \in Missionary : k # m => row'[k] = row[k]
        BY <2>1, <2>3 DEF RowSet
      <3> QED
        BY <3>1
    <2> QED
      BY <1>1, <2>2, <2>3
  <1>5. f \in dirs'
    BY <1>1, <1>2, WithParentsIs DEF TypeInv, TreeOK
  <1>6. ASSUME NEW k \in Missionary, k # m
        PROVE  Tidy(k)'
    <2>1. Tidy(k) /\ (Own(k, upset', name) => name[k] # name[m])
      BY <1>6 DEF AllTidy, Own
    <2>2. Own(k, upset', name) =>
            Kept(k, name, row[k], row'[k], doc, doc', dirs, dirs', disk, disk', purged, purged')
      BY <1>1, <1>2, <1>4, <1>6, <2>1, WithParentsElsewhere DEF Kept
    <2> QED
      BY <1>1, <2>1, <2>2, TidyElsewhere
  <1>7. Tidy(m)'
    <2> SUFFICES ASSUME Own(m, upset', name)
                 PROVE  /\ seek' # Idle => seek'.who # m
                        /\ \E r \in {Idle} \cup {req'[g] : g \in Handler} :
                             /\ Serves(m, r, req')
                             /\ Fit(m, r, row'[m], doc', dirs', disk', purged')
      BY <1>1 DEF Tidy
    <2>1. /\ seek # Idle => seek.who # m
          /\ \E r \in {Idle} \cup {req[g] : g \in Handler} :
               Serves(m, r, req) /\ Fit(m, r, row[m], doc, dirs, disk, purged)
      BY <1>1 DEF Tidy, AllTidy
    <2>2. PICK r \in {Idle} \cup {req[g] : g \in Handler} :
            Serves(m, r, req) /\ Fit(m, r, row[m], doc, dirs, disk, purged)
      BY <2>1
    <2>3. r = Idle
      <3>1. r \in Request
        BY <2>2, IdleOK DEF TypeInv, RequestsOK, RequestOK
      <3>2. r.at = "idle"
        BY <1>1, <2>2, <3>1, StepsAre DEF Fit, FileFit, PurgeFit, Before, Moving,
           Remembers
      <3> QED
        BY <3>1, <3>2, StepsAre
    <2>4. \A d \in Document : ~Of(d, m, doc)
      BY <1>1, <2>2, <2>3, IdleIs DEF IdleFit
    <2>5. IdleFit(m, row'[m], doc', dirs', disk', purged')
      <3>1. InPlace(m, row'[m], dirs', purged')
        BY <1>2, <1>4, <1>5 DEF InPlace, AreaOf
      <3>2. \A d \in Document : ~Of(d, m, doc')
        BY <1>1, <2>4
      <3> QED
        BY <3>1, <3>2 DEF IdleFit, DocsAt
    <2>6. Fit(m, Idle, row'[m], doc', dirs', disk', purged')
      BY <2>5, IdleOK DEF Fit
    <2> QED
      BY <1>1, <2>1, <2>2, <2>3, <2>6
  <1> QED
    BY <1>6, <1>7 DEF AllTidy

-----------------------------------------------------------------------------
(* Uploads and deletes of documents *)

LEMMA InstallTidy ==
  ASSUME TypeInv, AllTidy, NEW h \in Handler, Install(h)
  PROVE  AllTidy'
  <1> DEFINE r == req[h]
             m == r.who
             n == [r EXCEPT !.at = "insert"]
  <1>1. /\ r.at = "install" /\ dirs' = WithParents(dirs, r.from)
        /\ \/ /\ disk' = [disk EXCEPT ![r.doc] = {r.from}] /\ UNCHANGED doc
              /\ req' = [req EXCEPT ![h] = n]
           \/ UNCHANGED disk /\ Gone(r.doc) /\ req' = [req EXCEPT ![h] = Idle]
        /\ UNCHANGED <<name, row, seek, purged, upset>>
    BY DEF Install, Others, Goes, Ends
  <1>2. /\ r \in FileSet /\ r.doc \in Document /\ r.from \in Path /\ m \in Missionary
        /\ Home(r.from) = name[m] /\ doc[r.doc].who = m /\ doc[r.doc].at = "sent" /\ r # Idle
    BY <1>1, FileIs, IdleOK DEF FileSteps, FileOK
  <1>3. n.at = "insert" /\ n.who = m /\ n.doc = r.doc /\ n.from = r.from
    BY <1>2 DEF FileSet
  <1> HIDE DEF n
  <1>4. /\ dirs \subseteq dirs'
        /\ \A k \in Missionary : name[k] # name[m] =>
             \A p \in Path : Home(p) = name[k] => (p \in dirs' <=> p \in dirs)
    BY <1>1, <1>2, WithParentsIs, WithParentsElsewhere DEF TypeInv, TreeOK
  <1>5. ASSUME Fit(m, r, row[m], doc, dirs, disk, purged)
        PROVE  /\ row[m].at # "none" /\ InPlace(m, row'[m], dirs', purged')
               /\ DocsAt(m, row[m].folder, row[m].folder, {r.doc}, doc, disk)
               /\ r.from = row[m].folder /\ disk[r.doc] = {}
    <2>1. FileFit(m, r, row[m], doc, dirs, disk, purged)
      BY <1>1, <1>5 DEF Fit
    <2> QED
      BY <1>1, <1>4, <2>1 DEF FileFit, InPlace
  <1>6. CASE /\ disk' = [disk EXCEPT ![r.doc] = {r.from}] /\ UNCHANGED doc
             /\ req' = [req EXCEPT ![h] = n]
    <2>1. disk'[r.doc] = {r.from} /\ \A d \in Document : d # r.doc => disk'[d] = disk[d]
      BY <1>2, <1>6 DEF TypeInv, TreeOK
    <2>2. ASSUME NEW k \in Missionary, name[k] # name[m]
          PROVE  Kept(k, name, row[k], row'[k], doc, doc', dirs, dirs', disk, disk',
                      purged, purged')
      BY <1>1, <1>2, <1>4, <1>6, <2>1, <2>2 DEF Kept, Of
    <2>3. ASSUME Fit(m, r, row[m], doc, dirs, disk, purged)
          PROVE  Fit(m, n, row'[m], doc', dirs', disk', purged')
      <3>1. DocsAt(m, row'[m].folder, row'[m].folder, {n.doc}, doc', disk')
        BY <1>1, <1>2, <1>3, <1>5, <1>6, <2>1, <2>3 DEF DocsAt, Of
      <3>2. FileFit(m, n, row'[m], doc', dirs', disk', purged')
        BY <1>1, <1>3, <1>5, <2>1, <2>3, <3>1 DEF FileFit
      <3> QED
        BY <1>3, <3>2 DEF Fit
    <2> QED
      BY <1>1, <1>2, <1>3, <1>6, <2>2, <2>3, HandlerStep
  <1>7. CASE UNCHANGED disk /\ Gone(r.doc) /\ req' = [req EXCEPT ![h] = Idle]
    <2>1. /\ doc'[r.doc].at = "gone" /\ doc'[r.doc].who = m
          /\ \A c \in Document : c # r.doc => doc'[c] = doc[c]
      BY <1>1, <1>2, <1>7, GoneDoc DEF TypeInv
    <2>2. ASSUME NEW k \in Missionary, name[k] # name[m]
          PROVE  Kept(k, name, row[k], row'[k], doc, doc', dirs, dirs', disk, disk',
                      purged, purged')
      BY <1>1, <1>2, <1>4, <1>7, <2>1, <2>2 DEF Kept, Of
    <2>3. ASSUME Fit(m, r, row[m], doc, dirs, disk, purged)
          PROVE  Fit(m, Idle, row'[m], doc', dirs', disk', purged')
      <3>1. DocsAt(m, row'[m].folder, row'[m].folder, {}, doc', disk')
        BY <1>1, <1>2, <1>5, <1>7, <2>1, <2>3 DEF DocsAt, Of
      <3>2. IdleFit(m, row'[m], doc', dirs', disk', purged')
        BY <1>1, <1>5, <2>3, <3>1 DEF IdleFit
      <3> QED
        BY <3>2, IdleOK DEF Fit
    <2> QED
      BY <1>1, <1>2, <1>7, <2>2, <2>3, HandlerStep
  <1> QED
    BY <1>1, <1>6, <1>7

\* The document of the request goes; its file is left for the next step.
LetsGo(h) ==
  /\ req[h].at \in {"insert", "drop"} /\ doc[req[h].doc].at \in {"sent", "row"}
  /\ Gone(req[h].doc)
  /\ req' = [req EXCEPT ![h] = [req[h] EXCEPT !.at = "unlink"]]
  /\ UNCHANGED <<name, row, dirs, disk, seek, purged, upset>>

LEMMA GoneTidy ==
  ASSUME TypeInv, AllTidy, NEW h \in Handler, LetsGo(h)
  PROVE  AllTidy'
  <1> DEFINE r == req[h]
             m == r.who
             n == [r EXCEPT !.at = "unlink"]
  <1>1. /\ r \in FileSet /\ r.doc \in Document /\ m \in Missionary
        /\ doc[r.doc].who = m /\ r # Idle
    BY FileIs, IdleOK DEF FileSteps, LetsGo
  <1>2. n.at = "unlink" /\ n.who = m /\ n.doc = r.doc /\ n.from = r.from
    BY <1>1 DEF FileSet
  <1>3. /\ req' = [req EXCEPT ![h] = n] /\ r.at \in {"insert", "drop"}
        /\ doc[r.doc].at \in {"sent", "row"} /\ Gone(r.doc)
        /\ UNCHANGED <<name, row, dirs, disk, seek, purged, upset>>
    BY DEF LetsGo
  <1> HIDE DEF n
  <1>4. /\ doc'[r.doc].at = "gone" /\ doc'[r.doc].who = m
        /\ \A c \in Document : c # r.doc => doc'[c] = doc[c]
    BY <1>1, <1>3, GoneDoc DEF TypeInv
  <1>5. ASSUME NEW k \in Missionary, name[k] # name[m]
        PROVE  Kept(k, name, row[k], row'[k], doc, doc', dirs, dirs', disk, disk', purged, purged')
    BY <1>1, <1>3, <1>4, <1>5 DEF Kept, Of
  <1>6. ASSUME Fit(m, r, row[m], doc, dirs, disk, purged)
        PROVE  Fit(m, n, row'[m], doc', dirs', disk', purged')
    <2>1. FileFit(m, r, row[m], doc, dirs, disk, purged)
      BY <1>3, <1>6 DEF Fit
    <2>2. disk[r.doc] \subseteq {r.from}
      <3>1. CASE r.at = "insert"
        BY <2>1, <3>1 DEF FileFit
      <3>2. CASE r.at = "drop"
        BY <1>1, <2>1, <3>2 DEF FileFit, DocsAt, Of
      <3> QED
        BY <1>3, <3>1, <3>2
    <2>3. DocsAt(m, row'[m].folder, row'[m].folder, {n.doc}, doc', disk')
      BY <1>1, <1>2, <1>3, <1>4, <2>1 DEF FileFit, DocsAt, Of
    <2>4. FileFit(m, n, row'[m], doc', dirs', disk', purged')
      BY <1>2, <1>3, <2>1, <2>2, <2>3 DEF FileFit
    <2> QED
      BY <1>2, <2>4 DEF Fit
  <1> QED
    BY <1>1, <1>2, <1>3, <1>5, <1>6, HandlerStep

LEMMA InsertTidy ==
  ASSUME TypeInv, AllTidy, NEW h \in Handler, Insert(h)
  PROVE  AllTidy'
  <1> DEFINE r == req[h]
             m == r.who
             w == [at |-> "row", who |-> m, path |-> r.from]
  <1>1. /\ r.at = "insert" /\ UNCHANGED <<name, row, dirs, disk, seek, purged, upset>>
        /\ \/ doc' = [doc EXCEPT ![r.doc] = w] /\ req' = [req EXCEPT ![h] = Idle]
           \/ Gone(r.doc) /\ req' = [req EXCEPT ![h] = [r EXCEPT !.at = "unlink"]]
           \/ doc' = [doc EXCEPT ![r.doc].at = "left"] /\ req' = [req EXCEPT ![h] = Idle]
    BY DEF Insert, KeepFile, SameFiles, Others, files, Goes, Ends
  <1>2. /\ r.doc \in Document /\ doc[r.doc].who = m /\ doc[r.doc].at = "sent"
        /\ m \in Missionary /\ r # Idle
    BY <1>1, FileIs, IdleOK DEF FileSteps, FileOK
  <1>3. CASE doc' = [doc EXCEPT ![r.doc] = w] /\ req' = [req EXCEPT ![h] = Idle]
    <2>1. /\ doc'[r.doc].at = "row" /\ doc'[r.doc].who = m /\ doc'[r.doc].path = r.from
          /\ \A c \in Document : c # r.doc => doc'[c] = doc[c]
      BY <1>2, <1>3 DEF TypeInv, DocsOK
    <2>2. ASSUME NEW k \in Missionary, name[k] # name[m]
          PROVE  Kept(k, name, row[k], row'[k], doc, doc', dirs, dirs', disk, disk',
                      purged, purged')
      BY <1>1, <1>2, <2>1, <2>2 DEF Kept, Of
    <2>3. ASSUME Fit(m, r, row[m], doc, dirs, disk, purged)
          PROVE  Fit(m, Idle, row'[m], doc', dirs', disk', purged')
      <3>1. FileFit(m, r, row[m], doc, dirs, disk, purged)
        BY <1>1, <2>3 DEF Fit
      <3>2. DocsAt(m, row'[m].folder, row'[m].folder, {}, doc', disk')
        BY <1>1, <2>1, <3>1 DEF FileFit, DocsAt, Of
      <3>3. IdleFit(m, row'[m], doc', dirs', disk', purged')
        BY <1>1, <3>1, <3>2 DEF FileFit, IdleFit
      <3> QED
        BY <3>3, IdleOK DEF Fit
    <2> QED
      BY <1>1, <1>2, <1>3, <2>2, <2>3, HandlerStep
  <1>4. CASE Gone(r.doc) /\ req' = [req EXCEPT ![h] = [r EXCEPT !.at = "unlink"]]
    BY <1>1, <1>2, <1>4, GoneTidy DEF LetsGo
  <1>5. CASE doc' = [doc EXCEPT ![r.doc].at = "left"] /\ req' = [req EXCEPT ![h] = Idle]
    <2>1. /\ doc'[r.doc].at = "left" /\ doc'[r.doc].who = m
          /\ \A c \in Document : c # r.doc => doc'[c] = doc[c]
      BY <1>1, <1>2, <1>5, LeftDoc DEF TypeInv
    <2>2. ASSUME NEW k \in Missionary, name[k] # name[m]
          PROVE  Kept(k, name, row[k], row'[k], doc, doc', dirs, dirs', disk, disk',
                      purged, purged')
      BY <1>1, <1>2, <2>1, <2>2 DEF Kept, Of
    <2>3. ASSUME Fit(m, r, row[m], doc, dirs, disk, purged)
          PROVE  Fit(m, Idle, row'[m], doc', dirs', disk', purged')
      <3>1. FileFit(m, r, row[m], doc, dirs, disk, purged)
        BY <1>1, <2>3 DEF Fit
      <3>2. DocsAt(m, row'[m].folder, row'[m].folder, {}, doc', disk')
        BY <1>1, <2>1, <3>1 DEF FileFit, DocsAt, Of
      <3>3. IdleFit(m, row'[m], doc', dirs', disk', purged')
        BY <1>1, <3>1, <3>2 DEF FileFit, IdleFit
      <3> QED
        BY <3>3, IdleOK DEF Fit
    <2> QED
      BY <1>1, <1>2, <1>5, <2>2, <2>3, HandlerStep
  <1> QED
    BY <1>1, <1>3, <1>4, <1>5

LEMMA DropTidy ==
  ASSUME TypeInv, AllTidy, NEW h \in Handler, Drop(h)
  PROVE  AllTidy'
  <1> DEFINE r == req[h]
             m == r.who
  <1>1. /\ r.at = "drop" /\ UNCHANGED <<name, row, dirs, disk, seek, purged, upset>>
        /\ \/ /\ Stored(r.doc) /\ Gone(r.doc)
              /\ req' = [req EXCEPT ![h] = [r EXCEPT !.at = "unlink"]]
           \/ req' = [req EXCEPT ![h] = Idle] /\ UNCHANGED doc
    BY DEF Drop, SameFiles, Others, files, Goes, Ends
  <1>2. CASE /\ Stored(r.doc) /\ Gone(r.doc)
             /\ req' = [req EXCEPT ![h] = [r EXCEPT !.at = "unlink"]]
    BY <1>1, <1>2, GoneTidy DEF Stored, LetsGo
  <1>3. CASE req' = [req EXCEPT ![h] = Idle] /\ UNCHANGED doc
    <2>1. m \in Missionary /\ r # Idle
      BY <1>1, FileIs, IdleOK DEF FileSteps
    <2>2. ASSUME Fit(m, r, row[m], doc, dirs, disk, purged)
          PROVE  Fit(m, Idle, row'[m], doc', dirs', disk', purged')
      <3>1. FileFit(m, r, row[m], doc, dirs, disk, purged)
        BY <1>1, <2>2 DEF Fit
      <3>2. DocsAt(m, row'[m].folder, row'[m].folder, {}, doc', disk')
        BY <1>1, <1>3, <3>1 DEF FileFit, DocsAt, Of
      <3>3. IdleFit(m, row'[m], doc', dirs', disk', purged')
        BY <1>1, <3>1, <3>2 DEF FileFit, IdleFit
      <3> QED
        BY <3>3, IdleOK DEF Fit
    <2>3. \A k \in Missionary :
            Kept(k, name, row[k], row'[k], doc, doc', dirs, dirs', disk, disk', purged, purged')
      BY <1>1, <1>3, NothingChanges
    <2> QED
      BY <1>1, <1>3, <2>1, <2>2, <2>3, HandlerStep
  <1> QED
    BY <1>1, <1>2, <1>3

LEMMA UnlinkTidy ==
  ASSUME TypeInv, AllTidy, NEW h \in Handler, Unlink(h)
  PROVE  AllTidy'
  <1> DEFINE r == req[h]
             m == r.who
  <1>1. /\ r.at = "unlink" /\ UNCHANGED <<name, row, doc, dirs, seek, purged>>
        /\ req' = [req EXCEPT ![h] = Idle] /\ upset \subseteq upset'
        /\ \/ disk' = [disk EXCEPT ![r.doc] = @ \ {r.from}]
           \/ UNCHANGED disk /\ m \in upset'
    BY DEF Unlink, SameRows, Others, rows, Ends, Goes, Breaks
  <1>2. /\ r.doc \in Document /\ m \in Missionary /\ doc[r.doc].at = "gone"
        /\ doc[r.doc].who = m /\ r # Idle
    BY <1>1, FileIs, IdleOK DEF FileSteps, FileOK
  <1>3. \A d \in Document : d # r.doc => disk'[d] = disk[d]
    BY <1>1, <1>2 DEF TypeInv, TreeOK
  <1>4. ASSUME NEW k \in Missionary, name[k] # name[m]
        PROVE  Kept(k, name, row[k], row'[k], doc, doc', dirs, dirs', disk, disk', purged, purged')
    BY <1>1, <1>2, <1>3, <1>4 DEF Kept, Of
  <1>5. ASSUME Own(m, upset', name), Fit(m, r, row[m], doc, dirs, disk, purged)
        PROVE  Fit(m, Idle, row'[m], doc', dirs', disk', purged')
    <2>1. FileFit(m, r, row[m], doc, dirs, disk, purged)
      BY <1>1, <1>5 DEF Fit
    <2>2. disk'[r.doc] = {}
      <3>1. disk'[r.doc] = disk[r.doc] \ {r.from}
        BY <1>1, <1>2, <1>5 DEF TypeInv, TreeOK, Own
      <3> QED
        BY <1>1, <2>1, <3>1 DEF FileFit
    <2>3. DocsAt(m, row'[m].folder, row'[m].folder, {}, doc', disk')
      BY <1>1, <1>2, <1>3, <2>1, <2>2 DEF FileFit, DocsAt, Of
    <2>4. IdleFit(m, row'[m], doc', dirs', disk', purged')
      BY <1>1, <2>1, <2>3 DEF FileFit, IdleFit
    <2> QED
      BY <2>4, IdleOK DEF Fit
  <1> QED
    BY <1>1, <1>2, <1>4, <1>5, HandlerStep

-----------------------------------------------------------------------------
(* Permanent deletes, repairs and stops *)

LEMMA PurgeTidy ==
  ASSUME TypeInv, AllTidy, NEW h \in Handler, Purge(h)
  PROVE  AllTidy'
  <1> DEFINE r == req[h]
             m == r.who
             n == [r EXCEPT !.at = "erase"]
             Rest(d) == {p \in disk[d] : ~Within(p, r.from)}
  <1>1. /\ r.at = "purge" /\ purged' = purged \cup {m} /\ req' = [req EXCEPT ![h] = n]
        /\ UNCHANGED <<name, row, doc, seek>> /\ upset \subseteq upset'
        /\ \/ dirs' = dirs \ Below(r.from) /\ disk' = [d \in Document |-> Rest(d)]
           \/ /\ dirs' = dirs /\ m \in upset'
              /\ \E some \in SUBSET Document :
                   disk' = [d \in Document |-> IF d \in some THEN disk[d] ELSE Rest(d)]
    BY DEF Purge, SameRows, rows, Goes
  <1>2. /\ r \in PurgeSet /\ m \in Missionary /\ r # Idle /\ r.from \in Folder /\ r.from \in Path
        /\ Home(r.from) = name[m]
    BY <1>1, BusyIs DEF PurgeSteps, PurgeSet, Folder
  <1>3. n.at = "erase" /\ n.who = m
    BY <1>2 DEF PurgeSet
  <1> HIDE DEF n
  <1>4. ASSUME NEW k \in Missionary, name[k] # name[m]
        PROVE  Kept(k, name, row[k], row'[k], doc, doc', dirs, dirs', disk, disk', purged, purged')
    <2>1. \A p \in Path : Home(p) = name[k] => ~Within(p, r.from)
      BY <1>2, <1>4, WithinHome
    <2>2. \A p \in Path : Home(p) = name[k] => (p \in dirs' <=> p \in dirs)
      BY <1>1, <2>1 DEF Below
    <2>3. ASSUME NEW d \in Document, Of(d, k, doc)
          PROVE  disk'[d] = disk[d]
      <3>1. \A p \in disk[d] : p \in Path /\ Home(p) = name[k]
        BY <2>3 DEF TypeInv, TreeOK, Of
      <3>2. Rest(d) = disk[d]
        BY <2>1, <3>1
      <3> HIDE DEF Rest
      <3> QED
        BY <1>1, <3>2
    <2> QED
      BY <1>1, <1>4, <2>2, <2>3 DEF Kept
  <1>5. ASSUME Own(m, upset', name), Fit(m, r, row[m], doc, dirs, disk, purged)
        PROVE  Fit(m, n, row'[m], doc', dirs', disk', purged')
    <2>1. PurgeFit(m, r, row[m], doc, dirs, disk, purged)
      BY <1>1, <1>5 DEF Fit
    <2>2. disk' = [d \in Document |-> Rest(d)]
      BY <1>1, <1>5 DEF Own
    <2>3. Within(r.from, r.from)
      BY <1>2, WithinItself
    <2>4. ASSUME NEW d \in Document, Of(d, m, doc), doc[d].at \in {"row", "gone", "left"}
          PROVE  disk'[d] = {}
      <3>1. disk[d] \subseteq {r.from}
        BY <1>1, <2>1, <2>4 DEF PurgeFit, DocsAt
      <3>2. Rest(d) = {}
        BY <2>3, <3>1
      <3> HIDE DEF Rest
      <3> QED
        BY <2>2, <3>2
    <2>5. ASSUME NEW d \in Document, Of(d, m, doc)
          PROVE  doc[d].at \in {"row", "gone", "left"}
      <3>1. doc[d].at # "sent" /\ doc[d].at # "none"
        BY <2>1, <2>5 DEF PurgeFit, DocsAt, Of
      <3> QED
        BY <3>1, DocIs DEF TypeInv
    <2>6. \A d \in Document : Of(d, m, doc') => disk'[d] = {}
      BY <1>1, <2>4, <2>5
    <2>7. DocsAt(m, row'[m].folder, row'[m].folder, {}, doc', disk')
      BY <1>1, <2>1, <2>6 DEF PurgeFit, DocsAt
    <2>8. InPlace(m, row'[m], dirs', purged')
      BY <1>1, <2>1 DEF PurgeFit, InPlace
    <2>9. PurgeFit(m, n, row'[m], doc', dirs', disk', purged')
      BY <1>1, <1>3, <2>1, <2>6, <2>7, <2>8 DEF PurgeFit
    <2> QED
      BY <1>3, <2>9 DEF Fit
  <1> QED
    BY <1>1, <1>2, <1>3, <1>4, <1>5, HandlerStep

LEMMA EraseTidy ==
  ASSUME TypeInv, AllTidy, NEW h \in Handler, Erase(h)
  PROVE  AllTidy'
  <1> DEFINE r == req[h]
             m == r.who
             S == {d \in Document : Stored(d) /\ doc[d].who = m}
  <1>1. /\ r.at = "erase" /\ UNCHANGED <<name, dirs, disk, seek, purged, upset>>
        /\ req' = [req EXCEPT ![h] = Idle]
        /\ \/ /\ row' = [row EXCEPT ![m].at = "gone"]
              /\ doc' = [d \in Document |-> IF Stored(d) /\ doc[d].who = m
                                            THEN [doc[d] EXCEPT !.at = "gone"] ELSE doc[d]]
           \/ UNCHANGED <<row, doc>>
    BY DEF Erase, SameFiles, Others, files, Ends, Goes
  <1>2. m \in Missionary /\ r # Idle
    BY <1>1, BusyIs
  <1>3. ASSUME Fit(m, r, row[m], doc, dirs, disk, purged)
        PROVE  PurgeFit(m, r, row[m], doc, dirs, disk, purged)
    BY <1>1, <1>3 DEF Fit
  <1>4. CASE UNCHANGED <<row, doc>>
    <2>1. \A k \in Missionary :
            Kept(k, name, row[k], row'[k], doc, doc', dirs, dirs', disk, disk', purged, purged')
      BY <1>1, <1>4, NothingChanges
    <2>2. ASSUME Fit(m, r, row[m], doc, dirs, disk, purged)
          PROVE  Fit(m, Idle, row'[m], doc', dirs', disk', purged')
      <3>1. IdleFit(m, row'[m], doc', dirs', disk', purged')
        BY <1>1, <1>3, <1>4, <2>2 DEF PurgeFit, IdleFit
      <3> QED
        BY <3>1, IdleOK DEF Fit
    <2> QED
      BY <1>1, <1>2, <2>1, <2>2, HandlerStep
  <1>5. CASE /\ row' = [row EXCEPT ![m].at = "gone"]
             /\ doc' = [d \in Document |-> IF Stored(d) /\ doc[d].who = m
                                           THEN [doc[d] EXCEPT !.at = "gone"] ELSE doc[d]]
    <2>1. /\ row'[m].at = "gone" /\ row'[m].folder = row[m].folder
          /\ \A k \in Missionary : k # m => row'[k] = row[k]
      BY <1>2, <1>5 DEF TypeInv, RowsOK, RowSet
    <2>2. \A d \in Document : d \notin S => doc'[d] = doc[d]
      BY <1>5
    <2>3. ASSUME NEW d \in S
          PROVE  d \in Document /\ Of(d, m, doc) /\ doc'[d].at = "gone" /\ doc'[d].who = m
      <3>1. /\ d \in Document /\ doc[d].at = "row" /\ doc[d].who = m /\ doc[d] \in DocSet
            /\ doc'[d] = [doc[d] EXCEPT !.at = "gone"]
        BY <1>5 DEF Stored, TypeInv, DocsOK
      <3> QED
        BY <3>1 DEF DocSet, Of
    <2>4. \A d \in Document : Stored(d) /\ Of(d, m, doc) => d \in S
      BY DEF Of
    <2> HIDE DEF S
    <2>5. ASSUME NEW k \in Missionary, name[k] # name[m]
          PROVE  Kept(k, name, row[k], row'[k], doc, doc', dirs, dirs', disk, disk',
                      purged, purged')
      <3>1. \A d \in Document : Of(d, k, doc) \/ Of(d, k, doc') => d \notin S
        BY <2>3, <2>5 DEF Of
      <3> QED
        BY <1>1, <2>1, <2>2, <2>5, <3>1 DEF Kept
    <2>6. ASSUME Fit(m, r, row[m], doc, dirs, disk, purged)
          PROVE  Fit(m, Idle, row'[m], doc', dirs', disk', purged')
      <3>1. PurgeFit(m, r, row[m], doc, dirs, disk, purged)
        BY <1>3, <2>6
      <3>2. ASSUME NEW d \in Document, Of(d, m, doc')
            PROVE  Of(d, m, doc) /\ disk'[d] = {} /\ doc'[d].at \notin {"row", "sent"}
        <4>1. CASE d \in S
          BY <1>1, <2>3, <3>1, <4>1 DEF PurgeFit
        <4>2. CASE d \notin S
          BY <1>1, <2>2, <2>4, <3>1, <3>2, <4>2 DEF PurgeFit, DocsAt, Of, Stored
        <4> QED
          BY <4>1, <4>2
      <3>3. IdleFit(m, row'[m], doc', dirs', disk', purged')
        BY <2>1, <3>2 DEF IdleFit, InPlace, DocsAt
      <3> QED
        BY <3>3, IdleOK DEF Fit
    <2> QED
      BY <1>1, <1>2, <2>5, <2>6, HandlerStep
  <1> QED
    BY <1>1, <1>4, <1>5

\* Only a document whose missionary's requests overlap can be out of place.
LEMMA OpenTidy ==
  ASSUME TypeInv, FilesKept, AllTidy, NEW d \in Document, Open(d)
  PROVE  AllTidy'
  <1> DEFINE m == doc[d].who
  <1>1. /\ Stored(d) /\ doc[d].path \notin disk[d] /\ seek'.who = m
        /\ \E p \in Found(d) : TRUE
        /\ upset' = upset \cup ({m} \cap InFlight)
        /\ UNCHANGED <<name, row, doc, dirs, disk, req, purged>>
    BY DEF Open, SameRows, SameFiles, rows, files
  <1>2. m \in Missionary
    BY <1>1, DocIs DEF TypeInv, Stored
  <1>3. ASSUME NEW k \in Missionary, k # m
        PROVE  Tidy(k)'
    <2>1. Kept(k, name, row[k], row'[k], doc, doc', dirs, dirs', disk, disk', purged, purged')
      BY <1>1, NothingChanges
    <2>2. Tidy(k) /\ UNCHANGED <<name, req>> /\ upset \subseteq upset' /\ seek'.who # k
      BY <1>1, <1>3 DEF AllTidy
    <2> QED
      BY <2>1, <2>2, TidyElsewhere
  <1>4. ASSUME Own(m, upset', name)
        PROVE  FALSE
    <2>1. Own(m, upset, name) /\ m \notin InFlight
      BY <1>1, <1>4 DEF Own
    <2>2. PICK r \in {Idle} \cup {req[h] : h \in Handler} :
            Serves(m, r, req) /\ Fit(m, r, row[m], doc, dirs, disk, purged)
      BY <1>2, <2>1 DEF Tidy, AllTidy
    <2>3. r = Idle
      BY <1>2, <2>1, <2>2 DEF Serves, InFlight, Working
    <2>4. IdleFit(m, row[m], doc, dirs, disk, purged) /\ Of(d, m, doc)
      BY <1>1, <2>2, <2>3, IdleIs DEF Of, Stored
    <2>5. disk[d] \subseteq {doc[d].path}
      BY <1>1, <2>4 DEF IdleFit, DocsAt, Stored
    <2>6. disk[d] = {}
      BY <1>1, <2>5
    <2> QED
      BY <1>1, <2>6 DEF Found, InFolder, InStorage
  <1>5. ASSUME NEW k \in Missionary, k = m
        PROVE  Tidy(k)'
    <2>1. ~Own(k, upset', name')
      BY <1>1, <1>4, <1>5
    <2> QED
      BY <2>1 DEF Tidy
  <1> QED
    BY <1>3, <1>5 DEF AllTidy

LEMMA RepairTidy ==
  ASSUME TypeInv, AllTidy, Repair
  PROVE  AllTidy'
  <1>1. /\ seek # Idle /\ seek' = Idle /\ UNCHANGED <<name, row, dirs, disk, req,
                                                      upset, purged>>
        /\ \/ Stored(seek.doc) /\ doc' = [doc EXCEPT ![seek.doc].path = seek.path]
           \/ UNCHANGED doc
    BY DEF Repair, SameFiles, files
  <1>2. seek.doc \in Document /\ doc[seek.doc].who = seek.who
    BY <1>1 DEF TypeInv, SeekOK
  <1>3. /\ \A d \in Document : d # seek.doc => doc'[d] = doc[d]
        /\ \A k : k # seek.who => ~Of(seek.doc, k, doc) /\ ~Of(seek.doc, k, doc')
    <2>1. CASE UNCHANGED doc
      BY <1>2, <2>1 DEF Of
    <2>2. CASE Stored(seek.doc) /\ doc' = [doc EXCEPT ![seek.doc].path = seek.path]
      <3>1. doc[seek.doc] \in DocSet /\ doc[seek.doc].at = "row"
        BY <1>2, <2>2 DEF TypeInv, DocsOK, Stored
      <3>2. doc'[seek.doc].who = seek.who
        BY <1>2, <2>2, <3>1 DEF TypeInv, DocsOK, DocSet
      <3> QED
        BY <1>2, <2>2, <3>2 DEF TypeInv, DocsOK, Of
    <2> QED
      BY <1>1, <2>1, <2>2
  <1>4. ASSUME NEW k \in Missionary
        PROVE  Tidy(k)'
    <2>1. CASE k = seek.who
      <3>1. ~Own(k, upset', name')
        BY <1>1, <2>1 DEF AllTidy, Tidy
      <3> QED
        BY <3>1 DEF Tidy
    <2>2. CASE k # seek.who
      <3>1. Kept(k, name, row[k], row'[k], doc, doc', dirs, dirs', disk, disk', purged, purged')
        BY <1>1, <1>3, <2>2 DEF Kept
      <3>2. Tidy(k) /\ UNCHANGED <<name, req>> /\ upset \subseteq upset' /\ seek' = Idle
        BY <1>1 DEF AllTidy
      <3> QED
        BY <3>1, <3>2, TidyElsewhere
    <2> QED
      BY <2>1, <2>2
  <1> QED
    BY <1>4 DEF AllTidy

\* Who is in flight at a stop is upset; the others have no upload begun.
LEMMA CrashTidy ==
  ASSUME TypeInv, AllTidy, Crash
  PROVE  AllTidy'
  <1>1. /\ req' = [h \in Handler |-> Idle] /\ seek' = Idle /\ upset' = upset \cup InFlight
        /\ doc' = [d \in Document |-> IF doc[d].at = "sent"
                                      THEN [doc[d] EXCEPT !.at = "gone"] ELSE doc[d]]
        /\ UNCHANGED <<name, row, dirs, disk, purged>>
    BY DEF Crash, SameFiles, files
  <1>2. ASSUME NEW k \in Missionary
        PROVE  Tidy(k)'
    <2> SUFFICES ASSUME Own(k, upset', name)
                 PROVE  \E r \in {Idle} \cup {req'[g] : g \in Handler} :
                          /\ Serves(k, r, req')
                          /\ Fit(k, r, row'[k], doc', dirs', disk', purged')
      BY <1>1 DEF Tidy
    <2>1. Own(k, upset, name) /\ k \notin InFlight
      BY <1>1 DEF Own
    <2>2. PICK r \in {Idle} \cup {req[h] : h \in Handler} :
            Serves(k, r, req) /\ Fit(k, r, row[k], doc, dirs, disk, purged)
      BY <1>2, <2>1 DEF Tidy, AllTidy
    <2>3. r = Idle
      BY <1>2, <2>1, <2>2 DEF Serves, InFlight, Working
    <2>4. IdleFit(k, row[k], doc, dirs, disk, purged)
      BY <2>2, <2>3, IdleIs
    <2>5. ASSUME NEW d \in Document
          PROVE  (Of(d, k, doc) \/ Of(d, k, doc')) => doc'[d] = doc[d]
      <3>1. CASE doc[d].at # "sent"
        BY <1>1, <3>1
      <3>2. CASE doc[d].at = "sent"
        <4>1. doc'[d].who = doc[d].who
          <5>1. doc[d] \in DocSet /\ doc'[d] = [doc[d] EXCEPT !.at = "gone"]
            BY <1>1, <3>2 DEF TypeInv, DocsOK
          <5> QED
            BY <3>2, <5>1 DEF DocSet
        <4>2. ~Of(d, k, doc)
          BY <2>4, <3>2 DEF IdleFit, DocsAt
        <4> QED
          BY <3>2, <4>1, <4>2 DEF Of
      <3> QED
        BY <3>1, <3>2
    <2>6. RequestOK(Idle, doc, name)
      BY IdleOK
    <2>7. row[k].at = "row" => row[k].folder \in Folder /\ Home(row[k].folder) = name[k]
      BY <1>2 DEF TypeInv, RowsOK, Exists
    <2>8. Fit(k, Idle, row'[k], doc', dirs', disk', purged')
      BY <1>1, <1>2, <2>2, <2>3, <2>5, <2>6, <2>7, FitStays
    <2>9. Serves(k, Idle, req')
      BY <1>1 DEF Serves
    <2> QED
      BY <2>8, <2>9
  <1> QED
    BY <1>2 DEF AllTidy

LEMMA TidyInit == Init => AllTidy
  <1> SUFFICES ASSUME Init, NEW m \in Missionary PROVE Tidy(m)
    BY DEF AllTidy
  <1>1. /\ row[m].at = "none" /\ seek = Idle /\ \A h \in Handler : req[h] = Idle
        /\ \A d \in Document : doc[d].at = "none"
    BY DEF Init, Absent
  <1>2. IdleFit(m, row[m], doc, dirs, disk, purged)
    BY <1>1 DEF IdleFit, InPlace, DocsAt, Of
  <1>3. Fit(m, Idle, row[m], doc, dirs, disk, purged) /\ Serves(m, Idle, req)
    BY <1>1, <1>2, IdleOK DEF Fit, Serves
  <1> QED
    BY <1>1, <1>3 DEF Tidy

LEMMA TidyNext ==
  ASSUME TypeInv, FilesKept, AllTidy, [Next]_vars
  PROVE  AllTidy'
  <1>1. CASE \E m \in Missionary : Create(m)
    BY <1>1, CreateTidy
  <1>2. ASSUME NEW h \in Handler, NEW m \in Missionary,
               BeginMove(h, m) \/ BeginRoster(h, m) \/ BeginUpload(h, m) \/ BeginHardDelete(h, m)
        PROVE  AllTidy'
    BY <1>2, BeginMoveTidy, BeginRosterTidy, BeginUploadTidy, BeginHardDeleteTidy
  <1>3. ASSUME NEW h \in Handler, NEW d \in Document, BeginDelete(h, d)
        PROVE  AllTidy'
    BY <1>3, BeginDeleteTidy
  <1>4. ASSUME NEW h \in Handler, Choose(h) \/ Move(h) \/ MoveFails(h) \/ Rewrite(h) \/ Commit(h)
        PROVE  AllTidy'
    BY <1>4, ChooseTidy, MoveTidy, MoveFailsTidy, RewriteTidy, CommitTidy
  <1>5. ASSUME NEW h \in Handler,
               CommitFails(h) \/ Log(h) \/ Undo(h) \/ MoveBack(h) \/ MoveBackFails(h) \/ Install(h)
        PROVE  AllTidy'
    BY <1>5, CommitFailsTidy, LogTidy, UndoTidy, MoveBackTidy, MoveBackFailsTidy, InstallTidy
  <1>6. ASSUME NEW h \in Handler,
               Insert(h) \/ Drop(h) \/ Unlink(h) \/ Purge(h) \/ Erase(h)
        PROVE  AllTidy'
    BY <1>6, InsertTidy, DropTidy, UnlinkTidy, PurgeTidy, EraseTidy
  <1>7. CASE (\E d \in Document : Open(d)) \/ Repair \/ Crash
    BY <1>7, OpenTidy, RepairTidy, CrashTidy
  <1>8. CASE UNCHANGED vars
    BY <1>8 DEF vars, rows, files, AllTidy, Tidy, Own, Serves
  <1> QED
    BY <1>1, <1>2, <1>3, <1>4, <1>5, <1>6, <1>7, <1>8 DEF Next, Continue

(* Rows and files agree: for a missionary whose requests have come one     *)
(* after the other and ran to their end, the folder the row names exists   *)
(* in the area of the status, each document's path is where its one file   *)
(* is, a deleted document has left no file, nor has an upload that failed  *)
(* before its COMMIT, and the file of one whose COMMIT failed is in that   *)
(* folder (delete_missionary, archive_missionary, restore_missionary and   *)
(* hard_delete, their undoing, the upload and the delete of a document),   *)
(* whatever the requests about others do at the same time.                 *)
THEOREM RowsAndFilesAgree == Spec => []RowsAgree
  <1>1. TypeInv /\ FilesKept /\ AllTidy => RowsAgree
    <2> SUFFICES ASSUME TypeInv, FilesKept, AllTidy PROVE RowsAgree
      OBVIOUS
    <2>1. ASSUME NEW m \in Missionary, Calm(m)
          PROVE  IdleFit(m, row[m], doc, dirs, disk, purged)
      <3>1. Own(m, upset, name) /\ m \notin InFlight
        BY <2>1 DEF Calm, Own, Namesakes
      <3>2. PICK r \in {Idle} \cup {req[h] : h \in Handler} :
              Serves(m, r, req) /\ Fit(m, r, row[m], doc, dirs, disk, purged)
        BY <3>1 DEF Tidy, AllTidy
      <3>3. r = Idle
        BY <3>1, <3>2 DEF Serves, InFlight, Working
      <3> QED
        BY <3>2, <3>3, IdleIs
    <2>2. ASSUME NEW m \in Missionary \ purged, Calm(m), Exists(m)
          PROVE  /\ row[m].folder \in dirs /\ row[m].folder[1] = AreaOf[row[m].status]
                 /\ \A d \in Document : Stored(d) /\ doc[d].who = m =>
                      doc[d].path = row[m].folder /\ disk[d] = {doc[d].path}
                 /\ \A d \in Document : doc[d].at = "left" /\ doc[d].who = m =>
                      disk[d] \subseteq {row[m].folder}
      <3>1. IdleFit(m, row[m], doc, dirs, disk, purged)
        BY <2>1, <2>2
      <3>2. ASSUME NEW d \in Document, Stored(d), doc[d].who = m
            PROVE  doc[d].path = row[m].folder /\ disk[d] = {doc[d].path}
        <4>1. doc[d].path = row[m].folder /\ disk[d] \subseteq {row[m].folder}
          BY <3>1, <3>2 DEF IdleFit, DocsAt, Of, Stored
        <4>2. ~Taken(m)
          BY <2>2 DEF Taken, Calm, Namesakes, TypeInv, HistoryOK
        <4>3. disk[d] # {}
          BY <3>2, <4>2 DEF FilesKept, Held
        <4> QED
          BY <4>1, <4>3
      <3>3. ASSUME NEW d \in Document, doc[d].at = "left", doc[d].who = m
            PROVE  disk[d] \subseteq {row[m].folder}
        BY <3>1, <3>3 DEF IdleFit, DocsAt, Of
      <3> QED
        BY <2>2, <3>1, <3>2, <3>3 DEF IdleFit, InPlace, Exists
    <2>3. ASSUME NEW d \in Document, doc[d].at = "gone", Calm(doc[d].who)
          PROVE  disk[d] = {}
      <3>1. doc[d].who \in Missionary
        BY <2>3, DocIs DEF TypeInv
      <3>2. IdleFit(doc[d].who, row[doc[d].who], doc, dirs, disk, purged)
        BY <2>1, <2>3, <3>1
      <3> QED
        BY <2>3, <3>2 DEF IdleFit, DocsAt, Of
    <2> QED
      BY <2>2, <2>3 DEF RowsAgree
  <1>2. Init => AllTidy
    BY TidyInit
  <1>3. (TypeInv /\ FilesKept) /\ AllTidy /\ [Next]_vars => AllTidy'
    BY TidyNext
  <1> QED
    BY <1>1, <1>2, <1>3, FoldersInvariant, PTL DEF Spec
=============================================================================
