---------------------------- MODULE PairingProofs ----------------------------
(***************************************************************************)
(* Proofs about Pairing, for every set of servers and every bound: the     *)
(* type invariant, that the local stores belong together whenever no       *)
(* pairing is open, that the computer holds every confirmed device's       *)
(* credential, that a code makes one confirmed device, and that only the   *)
(* record of a confirmation changes the connection.                        *)
(*                                                                         *)
(* The inductive invariant says, for every step of the transaction, what   *)
(* the stores hold at it, what journal and process agree on, and which     *)
(* devices the client has ever been told of.                               *)
(***************************************************************************)
EXTENDS Pairing, TLAPS

-----------------------------------------------------------------------------
(* The inductive invariant *)

Dead(d) == device[d].status \in {"expired", "revoked", "removed"}
Accepted(d) == device[d].status \in {"active", "revoked"}
Registered(d, s) == /\ d \in DeviceId
                    /\ device[d].status # "unknown"
                    /\ device[d].server = s

\* s, c and p are the address, the certificate and the pointer of one
\* connection, whose credential is kept; or of none.
Whole(s, c, p) == /\ s = c
                  /\ s = None <=> p = NoDevice
                  /\ p # NoDevice => p \in keyring /\ Registered(p, s)

\* A transaction replaces a whole connection by that of another device.
Sound(j) == /\ j.phase # "none"
            /\ j.server \in Server
            /\ Whole(j.settings, j.ca, j.pointer)
            /\ j.dev # NoDevice => j.dev # j.pointer /\ Registered(j.dev, j.server)

Old(j) == settings = j.settings /\ ca = j.ca /\ pointer = j.pointer
New(j) == settings = j.server /\ ca = j.server /\ pointer = j.dev

SameTransaction(i, j) == /\ i.server = j.server
                         /\ i.settings = j.settings
                         /\ i.ca = j.ca
                         /\ i.pointer = j.pointer
                         /\ i.dev \in {NoDevice, j.dev}

\* The journal on disk.
JournalInv ==
  IF journal = NoJournal THEN Whole(settings, ca, pointer)
  ELSE /\ Sound(journal)
       /\ journal.phase = "confirmed" => /\ journal.dev \in keyring
                                         /\ Accepted(journal.dev)

Undoing == {"restore", "restoreCa", "restorePointer"}
Closing == {"clean", "close"}
Applying == {"apply", "install", "settings", "applied", "confirm", "mark", "finish"}

\* The process and the journal.
TransactionInv ==
  IF At("idle") THEN client = IdleClient
  ELSE /\ Sound(mem)
       /\ journal = NoJournal => /\ client.pc \in {"check"} \cup Undoing \cup Closing
                                 /\ Old(mem) /\ backup = None
       /\ journal # NoJournal => SameTransaction(journal, mem)
       /\ At("check") => journal = NoJournal /\ mem.phase = "prepared"
       /\ journal.phase = "confirmed" =>
            journal = mem /\ client.pc \in {"finish", "apply", "install", "settings"}
                                           \cup Closing

\* What holds at each step.
StepInv ==
  /\ client.pc \in {"register", "keep", "point", "cancel", "forget", "unpoint"} \cup Applying
       => mem.dev # NoDevice
  /\ client.pc \in {"check", "pair"} => mem.dev = NoDevice
  /\ client.pc \in {"check", "pair", "register", "keep", "point"} => client.mode = "begin"
  /\ client.pc \in {"register", "keep", "point"} => mem.phase = "registered"
  /\ client.pc \in {"keep", "point"} => journal = mem
  /\ At("point") => mem.dev \in keyring
  /\ client.pc \in Applying => /\ client.mode # "begin"
                               /\ pointer = mem.dev /\ mem.dev \in keyring
  /\ At("cancel") /\ client.mode # "begin" => pointer = mem.dev /\ mem.dev \in keyring
  /\ client.pc \in {"apply", "install", "settings"} /\ mem.phase = "confirmed"
       => journal = mem
  /\ At("applied") => mem.phase # "confirmed"
  /\ client.pc \in {"mark", "finish"} => Accepted(mem.dev)
  /\ At("settings") => ca = mem.server
  /\ At("restoreCa") => settings = mem.settings
  /\ At("restorePointer") => settings = mem.settings /\ ca = mem.ca
  /\ client.pc \in Closing => IF journal.phase = "confirmed" THEN New(mem) ELSE Old(mem)

\* The request the process waits for.
CallInv ==
  LET c == client.call IN
  /\ c.kind = "none" => c = NoCall
  /\ c.kind # "none" =>
       /\ client.pc = c.kind
       /\ c.server = mem.server
       /\ c.kind # "pair" => c.dev = mem.dev
       /\ c.kind = "pair" /\ c.dev # NoDevice =>
            c.dev # mem.pointer /\ Registered(c.dev, mem.server)
       /\ c.kind = "pair" /\ c.step = "ok" => c.dev # NoDevice
       /\ c.kind = "confirm" /\ c.step = "ok" => Accepted(c.dev)
       /\ c.kind = "cancel" /\ c.step \in {"ok", "refused"} => Dead(c.dev)
  /\ \A l \in late : l.server \in Server /\ (l.kind # "pair" => l.dev \in DeviceId)

\* The devices the client was ever told of, and those confirmed.
Handed == {d \in DeviceId : \/ d \in {mem.dev, journal.dev, client.call.dev}
                            \/ \E l \in late : d = l.dev
                            \/ Accepted(d)}

\* The code of such a device is used up.
HandedInv ==
  /\ \A d \in DeviceId : device[d].code <= codes
  /\ \A s, t \in Server : /\ code[s].left > 0 /\ code[t].left > 0
                          /\ code[s].id = code[t].id
                          => s = t
  /\ \A s \in Server : code[s].left > 0 => 0 < code[s].id /\ code[s].id <= codes
  /\ \A d \in Handed : /\ device[d].status # "unknown"
                       /\ \A s \in Server : code[s].left > 0 => code[s].id # device[d].code
  /\ \A d, e \in Handed : device[d].code = device[e].code => d = e

\* A credential is deleted only when its registration can no longer be confirmed.
CredentialInv ==
  /\ \A d \in DeviceId : device[d].status = "active" => d \in keyring
  /\ \A c \in late \cup {client.call} :
       c.kind = "confirm" /\ Unanswered(c) => c.dev \in keyring \/ Dead(c.dev)
  /\ At("forget") => Dead(mem.dev)

PairingInv == /\ PairingTypeOK /\ JournalInv /\ TransactionInv /\ StepInv
              /\ CallInv /\ HandedInv

USE DEF At, mem

-----------------------------------------------------------------------------
(* Types *)

Client == [pc : Step, mode : {"begin", "pair", "recover"}, mem : Journal, call : Call]

ServerType == /\ device \in [DeviceId -> Device]
              /\ code \in [Server -> [id : Code, left : 0..MaxAttempt]]
              /\ codes \in Code

StoreType == /\ {settings, ca, staged, backup} \subseteq Server \cup {None}
             /\ pointer \in DeviceId \cup {NoDevice} /\ keyring \subseteq DeviceId
             /\ journal \in Journal

LEMMA Types ==
  PairingTypeOK <=> /\ ServerType /\ StoreType /\ client \in Client
                    /\ late \subseteq Call /\ faults \in 0..MaxFault
  BY DEF PairingTypeOK, ServerType, StoreType, Client

LEMMA Primitives ==
  /\ NoCall \in Call /\ NoCall.kind = "none" /\ NoCall.dev = NoDevice
  /\ NoJournal \in Journal /\ NoJournal.phase = "none" /\ NoJournal.dev = NoDevice
  /\ IdleClient \in Client /\ IdleClient.pc = "idle" /\ IdleClient.mode = "begin"
  /\ IdleClient.mem = NoJournal /\ IdleClient.call = NoCall
  /\ NoDevice \notin DeviceId /\ None \notin Server
  <1>1. NoCall \in Call
    BY ServerAssumption DEF NoCall, Call, NoDevice, None, Code
  <1>2. NoJournal \in Journal
    BY DEF NoJournal, Journal
  <1>3. /\ NoCall.kind = "none" /\ NoCall.dev = NoDevice
        /\ NoJournal.phase = "none" /\ NoJournal.dev = NoDevice
    BY DEF NoCall, NoJournal
  <1>4. IdleClient \in Client
    BY <1>1, <1>2 DEF IdleClient, Client, Step
  <1>5. /\ IdleClient.pc = "idle" /\ IdleClient.mode = "begin"
        /\ IdleClient.mem = NoJournal /\ IdleClient.call = NoCall
    BY DEF IdleClient
  <1>6. NoDevice \notin DeviceId /\ None \notin Server
    BY ServerAssumption DEF NoDevice, DeviceId, None
  <1> QED  BY <1>1, <1>2, <1>3, <1>4, <1>5, <1>6

-----------------------------------------------------------------------------
(* The steps of the process in its transaction *)

\* A step that asks the server nothing.
Local == UNCHANGED <<serverVars, late>> /\ (UNCHANGED faults \/ Fault)

\* The process goes on at one of the steps S.
Went(S) == /\ client' \in Client /\ client'.pc \in S
           /\ client'.mode = client.mode /\ client'.mem = client.mem
           /\ client'.call = NoCall

LEMMA Goes ==
  ASSUME client \in Client, NEW step \in Step, Goto(step)
  PROVE  Went({step})
  <1>1. client' = [[client EXCEPT !.pc = step] EXCEPT !.call = NoCall]
    BY DEF Goto
  <1> QED  BY <1>1, Primitives DEF Client, Went

LEMMA LocalTypes ==
  ASSUME PairingTypeOK, Local, StoreType', client' \in Client
  PROVE  PairingTypeOK'
  <1>1. faults' \in 0..MaxFault
    BY ClientAssumption, Types DEF Local, Fault
  <1>2. ServerType' /\ late' \subseteq Call
    BY Types DEF Local, ServerType, serverVars
  <1> QED  BY <1>1, <1>2 DEF PairingTypeOK, ServerType, StoreType, Client

LEMMA LocalHanded ==
  ASSUME PairingTypeOK, HandedInv, Local,
         {client'.mem.dev, client'.call.dev, journal'.dev} \subseteq
            {NoDevice, client.mem.dev, client.call.dev, journal.dev}
  PROVE  HandedInv'
  <1>1. Handed' \subseteq Handed
    BY Primitives DEF Handed, Local, serverVars, Accepted
  <1>2. UNCHANGED <<device, code, codes>>
    BY DEF Local, serverVars
  <1>3. \A d, e \in Handed' : device'[d].code = device'[e].code => d = e
    BY <1>1, <1>2 DEF HandedInv
  <1>4. \A d \in Handed' : /\ device'[d].status # "unknown"
                       /\ \A s \in Server : code'[s].left > 0 => code'[s].id # device'[d].code
    BY <1>1, <1>2 DEF HandedInv
  <1> QED  BY <1>2, <1>3, <1>4 DEF HandedInv

LEMMA LocalCall ==
  ASSUME CallInv, Local, client'.call = NoCall
  PROVE  CallInv'
  BY Primitives DEF CallInv, Local

\* What is left to show of such a step.
LEMMA LocalStep ==
  ASSUME PairingInv, Local, StoreType', client' \in Client, client'.call = NoCall,
         {client'.mem.dev, journal'.dev} \subseteq
            {NoDevice, client.mem.dev, client.call.dev, journal.dev},
         JournalInv', TransactionInv', StepInv'
  PROVE  PairingInv'
  BY LocalTypes, LocalHanded, LocalCall, Primitives DEF PairingInv

\* The process ends; the next start finds the journal.
LEMMA Stops ==
  ASSUME PairingInv, Local, StoreType', Stop, JournalInv',
         journal'.dev \in {NoDevice, client.mem.dev, journal.dev}
  PROVE  PairingInv'
  <1>1. /\ client' \in Client /\ client'.call = NoCall /\ client'.mem.dev = NoDevice
        /\ client'.pc = "idle" /\ client' = IdleClient'
    BY Primitives DEF Stop, IdleClient, NoJournal, NoCall
  <1>2. TransactionInv'
    BY <1>1 DEF TransactionInv
  <1>3. StepInv'
    BY <1>1 DEF StepInv, Applying, Closing
  <1> QED  BY <1>1, <1>2, <1>3, LocalStep

LEMMA KeepCredentialStep ==
  ASSUME PairingInv, KeepCredential PROVE PairingInv'
  <1>1. /\ Went({"point", "cancel"})
        /\ client'.pc = "point" => client.mem.dev \in keyring'
        /\ keyring' = keyring \/ keyring' = keyring \cup {client.mem.dev}
     BY Goes, Types DEF KeepCredential, PairingInv, Step, Went
  <1>2. /\ Local /\ UNCHANGED <<device, code, codes, settings, ca, staged, backup,
                                pointer, journal>>
        /\ client.pc = "keep"
    BY DEF KeepCredential, Local, serverVars
  <1> USE <1>1, <1>2 DEF Went, PairingInv
  <1>3. StoreType'
    BY Types, Primitives DEF StoreType, StepInv, Applying, Client, Journal
  <1>4. JournalInv'
    BY DEF JournalInv, Sound, Whole, Accepted, Registered
  <1>5. TransactionInv'
    BY DEF TransactionInv, Sound, Whole, Accepted, Registered, Old, SameTransaction,
       Closing, Undoing
  <1>6. StepInv'
    BY DEF StepInv, TransactionInv, Closing, Undoing, Applying, Old, New, Accepted
  <1> QED BY <1>3, <1>4, <1>5, <1>6, LocalStep

LEMMA StartPairStep ==
  ASSUME PairingInv, StartPair PROVE PairingInv'
  <1>1. client = IdleClient /\ journal = NoJournal /\ Whole(settings, ca, pointer)
    BY DEF StartPair, PairingInv, TransactionInv, JournalInv
  <1>2. PICK s \in Server, own \in BOOLEAN :
          /\ staged' = IF own THEN None ELSE s
          /\ client' = [IdleClient EXCEPT !.pc = "check", !.mem =
               [NoJournal EXCEPT !.phase = "prepared", !.server = s,
                  !.settings = settings, !.ca = ca, !.pointer = pointer,
                  !.staged = ~own, !.backup = ~own /\ ca # None]]
    BY DEF StartPair
  <1>3. Local /\ UNCHANGED <<device, code, codes, settings, ca, pointer, keyring,
                             journal>> /\ backup' = None
    BY DEF StartPair, Local, serverVars
  <1>4. /\ client'.mem \in Journal /\ client'.mem.phase = "prepared"
        /\ client'.mem.server = s /\ client'.mem.dev = NoDevice
        /\ client'.mem.settings = settings /\ client'.mem.ca = ca
        /\ client'.mem.pointer = pointer
    <2> DEFINE j == [NoJournal EXCEPT !.phase = "prepared", !.server = s,
                       !.settings = settings, !.ca = ca, !.pointer = pointer,
                       !.staged = ~own, !.backup = ~own /\ ca # None]
    <2>1. j \in Journal
      <3>1. ASSUME NEW x \in BOOLEAN, NEW y \in BOOLEAN
            PROVE  [NoJournal EXCEPT !.phase = "prepared", !.server = s,
                       !.settings = settings, !.ca = ca, !.pointer = pointer,
                       !.staged = x, !.backup = y] \in Journal
        BY Types DEF PairingInv, StoreType, Journal, NoJournal
      <3>2. (~own) \in BOOLEAN /\ (~own /\ ca # None) \in BOOLEAN
        OBVIOUS
      <3> QED  BY <3>1, <3>2, Zenon
    <2>2. /\ j.phase = "prepared" /\ j.server = s /\ j.dev = NoDevice
          /\ j.settings = settings /\ j.ca = ca /\ j.pointer = pointer
      BY DEF NoJournal
    <2>3. client' = [IdleClient EXCEPT !.pc = "check", !.mem = j]
      BY <1>2, Zenon
    <2> HIDE DEF j
    <2>4. client'.mem = j
      BY <2>3 DEF IdleClient
    <2> QED  BY <2>1, <2>2, <2>4
  <1>5. /\ client' \in Client /\ client'.pc = "check" /\ client'.mode = "begin"
        /\ client'.call = NoCall
    <2>1. client' = [[IdleClient EXCEPT !.pc = "check"] EXCEPT !.mem = client'.mem]
      BY <1>2 DEF IdleClient
    <2> QED  BY <2>1, <1>4, Primitives DEF Client, IdleClient, Step
  <1> USE <1>1, <1>3, <1>4, <1>5
  <1>6. StoreType'
    BY <1>2, Types, Primitives DEF StoreType, PairingInv
  <1>7. JournalInv'
    BY DEF JournalInv, Whole, Registered
  <1>8. TransactionInv'
    BY Primitives DEF TransactionInv, Sound, Whole, Registered, Old, Undoing, Closing
  <1>9. StepInv'
    BY DEF StepInv, Applying, Closing
  <1> QED  BY <1>6, <1>7, <1>8, <1>9, LocalStep

LEMMA CheckStep ==
  ASSUME PairingInv, Check PROVE PairingInv'
  <1>1. /\ client.pc = "check" /\ Local
        /\ UNCHANGED <<device, code, codes, settings, ca, staged, backup, pointer,
                       keyring>>
        /\ Went({"pair", "restore"})
        /\ client'.pc = "pair" => journal' = client.mem
        /\ client'.pc = "restore" => journal' = journal
    BY Goes, Types DEF Check, Local, serverVars, Step, Went, PairingInv
  <1> USE <1>1 DEF Went, PairingInv
  <1>2. StoreType'
    BY Types DEF StoreType, Client
  <1>3. JournalInv'
    BY Primitives DEF JournalInv, TransactionInv, StepInv, Sound, Whole, Accepted,
       Registered
  <1>4. TransactionInv'
    BY Primitives DEF TransactionInv, StepInv, Sound, Whole, Accepted, Registered, Old,
                      SameTransaction, Closing, Undoing
  <1>5. StepInv'
    BY DEF StepInv, TransactionInv, Closing, Undoing, Applying
  <1> QED  BY <1>2, <1>3, <1>4, <1>5, LocalStep, Primitives

LEMMA GiveUpStep ==
  ASSUME PairingInv, GiveUp PROVE PairingInv'
  <1>1. /\ client.pc = "pair" /\ Local
        /\ UNCHANGED <<device, code, codes, settings, ca, staged, backup, pointer,
                       keyring, journal>>
        /\ Went({"restore"})
    BY Goes, Types DEF GiveUp, Local, serverVars, localVars, Step, Went, PairingInv
  <1> USE <1>1 DEF Went, PairingInv
  <1>2. StoreType'
    BY Types DEF StoreType
  <1>3. JournalInv'
    BY DEF JournalInv, Sound, Whole, Accepted, Registered
  <1>4. TransactionInv'
    BY DEF TransactionInv, Sound, Whole, Accepted, Registered, Old,
                      SameTransaction, Closing, Undoing
  <1>5. StepInv'
    BY DEF StepInv, TransactionInv, Closing, Undoing, Applying
  <1> QED  BY <1>2, <1>3, <1>4, <1>5, LocalStep

LEMMA GotPairStep ==
  ASSUME PairingInv, GotPair PROVE PairingInv'
  <1>1. /\ client.pc = "pair" /\ client.call.kind = "pair" /\ Local
        /\ UNCHANGED <<device, code, codes, settings, ca, staged, backup, pointer,
                       keyring, journal>>
    BY DEF GotPair, Local, serverVars, localVars, PairingInv, CallInv, Calling, Answered
  <1> USE <1>1 DEF PairingInv
  <1>2. StoreType'
    BY Types DEF StoreType
  <1>3. JournalInv'
    BY DEF JournalInv, Sound, Whole, Accepted, Registered
  <1>4. CASE client.call.step = "ok"
    <2>1. client' = [client EXCEPT !.pc = "register", !.call = NoCall,
                       !.mem.phase = "registered", !.mem.dev = client.call.dev]
      BY <1>4 DEF GotPair, Reply
    <2>2. /\ client.call.dev # NoDevice /\ client.call.dev # client.mem.pointer
          /\ Registered(client.call.dev, client.mem.server)
      BY <1>4, Primitives DEF CallInv
    <2>3. /\ client'.mem = [[client.mem EXCEPT !.phase = "registered"] EXCEPT !.dev = client.call.dev]
          /\ client'.pc = "register" /\ client'.mode = client.mode /\ client'.call = NoCall
      BY <2>1, Types DEF Client
    <2>4. /\ client'.mem \in Journal /\ client'.mem.phase = "registered"
          /\ client'.mem.dev = client.call.dev
          /\ client'.mem.server = client.mem.server
          /\ client'.mem.settings = client.mem.settings
          /\ client'.mem.ca = client.mem.ca
          /\ client'.mem.pointer = client.mem.pointer
      BY <2>2, <2>3, Types DEF Client, Journal, Registered
    <2>5. client' \in Client
      BY <2>1, <2>3, <2>4, Types, Primitives DEF Client, Step
    <2> HIDE <2>1
    <2>6. TransactionInv'
      BY <2>2, <2>3, <2>4 DEF TransactionInv, StepInv, Sound, Whole, Registered, Old,
                      SameTransaction, Closing, Undoing
    <2>7. StepInv'
      BY <2>2, <2>3, <2>4 DEF StepInv, Closing, Applying
    <2> QED  BY <1>2, <1>3, <2>3, <2>4, <2>5, <2>6, <2>7, LocalStep
  <1>5. CASE client.call.step # "ok"
    <2>1. Went({"restore"})
      BY <1>5, Goes, Types DEF GotPair, Reply, Step
    <2> USE <2>1 DEF Went
    <2>4. TransactionInv'
      BY DEF TransactionInv, Sound, Whole, Registered, Old,
                      SameTransaction, Closing, Undoing
    <2>5. StepInv'
      BY DEF StepInv, TransactionInv, Closing, Undoing, Applying
    <2> QED  BY <1>2, <1>3, <2>4, <2>5, LocalStep
  <1> QED  BY <1>4, <1>5

LEMMA RecordRegistrationStep ==
  ASSUME PairingInv, RecordRegistration PROVE PairingInv'
  <1>1. /\ client.pc = "register" /\ Local
        /\ UNCHANGED <<device, code, codes, settings, ca, staged, backup, pointer,
                       keyring>>
        /\ Went({"keep", "cancel"})
        /\ client'.pc = "keep" => journal' = client.mem
        /\ client'.pc = "cancel" => journal' = journal
    BY Goes, Types DEF RecordRegistration, Local, serverVars, Step, Went, PairingInv
  <1> USE <1>1 DEF Went, PairingInv
  <1>2. StoreType'
    BY Types DEF StoreType, Client
  <1>3. JournalInv'
    BY Primitives DEF JournalInv, TransactionInv, StepInv, Sound, Whole, Accepted,
       Registered, Undoing, Closing
  <1>4. TransactionInv'
    BY Primitives DEF TransactionInv, StepInv, Sound, Whole, Registered, Old,
                      SameTransaction, Closing, Undoing
  <1>5. StepInv'
    BY DEF StepInv, TransactionInv, Closing, Undoing, Applying
  <1> QED  BY <1>2, <1>3, <1>4, <1>5, LocalStep, Primitives

LEMMA PointToNewStep ==
  ASSUME PairingInv, PointToNew PROVE PairingInv'
  <1>1. /\ client.pc = "point" /\ Local
        /\ UNCHANGED <<device, code, codes, settings, ca, staged, backup, keyring,
                       journal>>
    BY DEF PointToNew, Local, serverVars
  <1>2. client.call = NoCall
    BY <1>1, Types DEF PairingInv, CallInv, Client, Call
  <1>3. /\ client' \in Client /\ client'.mem = client.mem /\ client'.call = NoCall
        /\ \/ client'.pc = "apply" /\ client'.mode = "pair" /\ pointer' = client.mem.dev
           \/ client'.pc = "cancel" /\ client'.mode = client.mode /\ pointer' = pointer
    <2>1. CASE pointer' = client.mem.dev /\ client' = [client EXCEPT !.pc = "apply", !.mode = "pair"]
      BY <2>1, <1>2, Types DEF Client, Step, PairingInv
    <2>2. CASE Goto("cancel") /\ UNCHANGED pointer
      BY <2>2, Goes, Types DEF Step, Went, PairingInv
    <2> QED  BY <2>1, <2>2 DEF PointToNew
  <1> USE <1>1, <1>2, <1>3 DEF PairingInv
  <1>4. StoreType'
    BY Types DEF StoreType, Client, Journal
  <1>5. JournalInv'
    BY DEF JournalInv, TransactionInv, StepInv, Sound, Whole, Accepted, Registered,
       Undoing, Closing
  <1>6. TransactionInv'
    BY DEF TransactionInv, StepInv, Sound, Whole, Registered, Old,
                      SameTransaction, Closing, Undoing
  <1>7. StepInv'
    BY DEF StepInv, TransactionInv, Closing, Undoing, Applying
  <1> QED  BY <1>4, <1>5, <1>6, <1>7, LocalStep

LEMMA ApplyCaStep ==
  ASSUME PairingInv, ApplyCa PROVE PairingInv'
  <1>1. /\ client.pc = "apply" /\ Local
        /\ UNCHANGED <<device, code, codes, settings, staged, pointer, keyring,
                       journal>>
        /\ ca' \in {ca, None} /\ backup' \in {ca, backup}
        /\ Stop \/ Went({"install", "settings", "cancel"})
        /\ Went({"settings"}) => ca' = client.mem.server
        /\ Went({"cancel"}) => client.mem.phase # "confirmed"
    <2>1. /\ client.pc = "apply" /\ Local
          /\ UNCHANGED <<device, code, codes, settings, staged, pointer, keyring,
                         journal>>
      BY DEF ApplyCa, Local, serverVars
    <2>2. ApplyFails => Stop \/ (Went({"cancel"}) /\ client.mem.phase # "confirmed")
      BY Goes, Types DEF ApplyFails, Step, PairingInv
    <2>3. Goto("install") => Went({"install"})
      BY Goes, Types DEF Step, PairingInv
    <2>4. Goto("settings") => Went({"settings"})
      BY Goes, Types DEF Step, PairingInv
    <2>5. /\ ca' \in {ca, None} /\ backup' \in {ca, backup}
          /\ \/ Went({"settings"}) /\ ca' = client.mem.server
             \/ Went({"install"})
             \/ ApplyFails
      BY <2>3, <2>4 DEF ApplyCa, BackUp
    <2>6. Stop => client'.pc = "idle"
      BY Primitives DEF Stop
    <2> QED  BY <2>1, <2>2, <2>5, <2>6 DEF Went
  <1> USE <1>1 DEF PairingInv
  <1>2. StoreType'
    BY Types DEF StoreType
  <1>3. JournalInv'
    BY DEF JournalInv, TransactionInv, Sound, Whole, Accepted, Registered, Undoing,
       Closing
  <1>4. CASE Went({"install", "settings", "cancel"})
    <2> USE <1>4 DEF Went
    <2>1. TransactionInv'
      BY DEF TransactionInv, StepInv, Sound, Whole, Registered,
             SameTransaction, Closing, Undoing, Applying
    <2>2. StepInv'
      BY DEF StepInv, TransactionInv, Closing, Undoing, Applying
    <2> QED  BY <1>2, <1>3, <2>1, <2>2, LocalStep
  <1> QED  BY <1>2, <1>3, <1>4, Stops

LEMMA InstallStep ==
  ASSUME PairingInv, Install PROVE PairingInv'
  <1>1. /\ client.pc = "install" /\ Local
        /\ UNCHANGED <<device, code, codes, settings, backup, pointer, keyring,
                       journal>>
        /\ ca' \in {ca, client.mem.server} /\ staged' \in {staged, None}
        /\ Stop \/ Went({"settings", "cancel"})
        /\ Went({"settings"}) => ca' = client.mem.server
        /\ Went({"cancel"}) => client.mem.phase # "confirmed"
    <2>1. /\ client.pc = "install" /\ Local
          /\ UNCHANGED <<device, code, codes, settings, backup, pointer, keyring,
                         journal>>
      BY DEF Install, Local, serverVars
    <2>2. ApplyFails => Stop \/ (Went({"cancel"}) /\ client.mem.phase # "confirmed")
      BY Goes, Types DEF ApplyFails, Step, PairingInv
    <2>3. Goto("settings") => Went({"settings"})
      BY Goes, Types DEF Step, PairingInv
    <2>4. /\ ca' \in {ca, client.mem.server} /\ staged' \in {staged, None}
          /\ \/ Went({"settings"}) /\ ca' = client.mem.server
             \/ ApplyFails
      BY <2>3 DEF Install
    <2>5. Stop => client'.pc = "idle"
      BY Primitives DEF Stop
    <2> QED  BY <2>1, <2>2, <2>4, <2>5 DEF Went
  <1> USE <1>1 DEF PairingInv
  <1>2. StoreType'
    BY Types DEF StoreType, Client, Journal
  <1>3. JournalInv'
    BY DEF JournalInv, TransactionInv, Sound, Whole, Accepted, Registered, Undoing,
       Closing
  <1>4. CASE Went({"settings", "cancel"})
    <2> USE <1>4 DEF Went
    <2>1. TransactionInv'
      BY DEF TransactionInv, StepInv, Sound, Whole, Registered,
             SameTransaction, Closing, Undoing, Applying
    <2>2. StepInv'
      BY DEF StepInv, TransactionInv, Closing, Undoing, Applying
    <2> QED  BY <1>2, <1>3, <2>1, <2>2, LocalStep
  <1> QED  BY <1>2, <1>3, <1>4, Stops

LEMMA ApplySettingsStep ==
  ASSUME PairingInv, ApplySettings PROVE PairingInv'
  <1>1. /\ client.pc = "settings" /\ Local
        /\ UNCHANGED <<device, code, codes, ca, staged, backup, pointer, keyring,
                       journal>>
        /\ settings' \in {settings, client.mem.server}
        /\ Stop \/ Went({"clean", "applied", "cancel"})
        /\ Went({"clean"}) => /\ settings' = client.mem.server
                              /\ client.mem.phase = "confirmed"
        /\ Went({"applied", "cancel"}) => client.mem.phase # "confirmed"
    <2>1. /\ client.pc = "settings" /\ Local /\ settings' \in {settings, client.mem.server}
          /\ UNCHANGED <<device, code, codes, ca, staged, backup, pointer, keyring,
                         journal>>
      BY DEF ApplySettings, Local, serverVars
    <2>2. ApplyFails => Stop \/ (Went({"cancel"}) /\ client.mem.phase # "confirmed")
      BY Goes, Types DEF ApplyFails, Step, PairingInv
    <2>3. /\ Goto("clean") => Went({"clean"})
          /\ Goto("applied") => Went({"applied"})
      BY Goes, Types DEF Step, PairingInv
    <2>4. \/ ApplyFails
          \/ settings' = client.mem.server /\ client.mem.phase = "confirmed" /\ Went({"clean"})
          \/ client.mem.phase # "confirmed" /\ Went({"applied"})
      BY <2>3 DEF ApplySettings
    <2>5. Stop => client'.pc = "idle"
      BY Primitives DEF Stop
    <2> QED  BY <2>1, <2>2, <2>4, <2>5 DEF Went
  <1> USE <1>1 DEF PairingInv
  <1>2. StoreType'
    BY Types DEF StoreType, Client, Journal
  <1>3. JournalInv'
    BY DEF JournalInv, TransactionInv, Sound, Whole, Accepted, Registered, Undoing,
       Closing
  <1>4. CASE Went({"clean", "applied", "cancel"})
    <2> USE <1>4 DEF Went
    <2>1. TransactionInv'
      BY DEF TransactionInv, StepInv, Sound, Whole, Registered,
             SameTransaction, Closing, Undoing, Applying
    <2>2. StepInv'
      BY DEF StepInv, TransactionInv, Closing, Undoing, Applying, New
    <2> QED  BY <1>2, <1>3, <2>1, <2>2, LocalStep
  <1> QED  BY <1>2, <1>3, <1>4, Stops

\* What the records of progress write.
LEMMA Marked ==
  ASSUME client \in Client, NEW p \in {"applied", "confirmed"},
         NEW m, m = [client.mem EXCEPT !.phase = p]
  PROVE  /\ m \in Journal /\ m.phase = p /\ m.dev = client.mem.dev
         /\ m.server = client.mem.server /\ m.settings = client.mem.settings
         /\ m.ca = client.mem.ca /\ m.pointer = client.mem.pointer
         /\ m # NoJournal
  BY DEF Client, Journal, NoJournal

LEMMA RecordAppliedStep ==
  ASSUME PairingInv, RecordApplied PROVE PairingInv'
  <1> DEFINE m == [client.mem EXCEPT !.phase = "applied"]
  <1>1. /\ client.pc = "applied" /\ Local
        /\ UNCHANGED <<device, code, codes, settings, ca, staged, backup, pointer,
                       keyring>>
        /\ journal' \in {journal, m}
    BY DEF RecordApplied, Local, serverVars
  <1>2. /\ m \in Journal /\ m.phase = "applied" /\ m.dev = client.mem.dev
        /\ m.server = client.mem.server /\ m.settings = client.mem.settings
        /\ m.ca = client.mem.ca /\ m.pointer = client.mem.pointer
        /\ m # NoJournal
    BY Marked, Types DEF PairingInv
  <1>3. client.call = NoCall
    BY <1>1, Types DEF PairingInv, CallInv, Client, Call
  <1>4. /\ client' \in Client /\ client'.mode = client.mode
        /\ client'.mem = m /\ client'.call = NoCall
        /\ client'.pc \in {"confirm", "cancel"}
        /\ client'.pc = "confirm" => journal' = m
        /\ client'.pc = "cancel" => journal' = journal
    BY <1>2, <1>3, Types DEF RecordApplied, Client, Step, PairingInv
  <1> HIDE DEF m
  <1> USE <1>1, <1>2, <1>3, <1>4 DEF PairingInv
  <1>5. StoreType'
    BY Types DEF StoreType
  <1>6. JournalInv'
    BY DEF JournalInv, TransactionInv, StepInv, Sound, Whole, Accepted, Registered,
       Undoing, Closing
  <1>7. TransactionInv'
    BY DEF TransactionInv, StepInv, Sound, Whole, Registered,
             SameTransaction, Closing, Undoing, Applying
  <1>8. StepInv'
    BY DEF StepInv, TransactionInv, Closing, Undoing, Applying
  <1> QED  BY <1>5, <1>6, <1>7, <1>8, LocalStep

LEMMA RecordConfirmedStep ==
  ASSUME PairingInv, RecordConfirmed PROVE PairingInv'
  <1> DEFINE m == [client.mem EXCEPT !.phase = "confirmed"]
  <1>1. /\ client.pc \in {"mark", "finish"} /\ Local
        /\ UNCHANGED <<device, code, codes, settings, ca, staged, backup, pointer,
                       keyring>>
        /\ journal' \in {journal, m}
    BY DEF RecordConfirmed, Local, serverVars
  <1>2. /\ m \in Journal /\ m.phase = "confirmed" /\ m.dev = client.mem.dev
        /\ m.server = client.mem.server /\ m.settings = client.mem.settings
        /\ m.ca = client.mem.ca /\ m.pointer = client.mem.pointer
        /\ m # NoJournal
    BY Marked, Types DEF PairingInv
  <1>3. client.call = NoCall
    BY <1>1, Types DEF PairingInv, CallInv, Client, Call
  <1>4. \/ Stop
        \/ /\ client' \in Client /\ client'.mode = client.mode
           /\ client'.mem = m /\ client'.call = NoCall
           /\ client'.pc \in {"apply", "finish", "cancel"}
           /\ client'.pc \in {"apply", "finish"} => journal' = m
           /\ client'.pc = "cancel" => journal' = journal /\ client.pc = "mark"
    BY <1>2, <1>3, Types DEF RecordConfirmed, Client, Step, PairingInv
  <1> HIDE DEF m
  <1> USE <1>1, <1>2, <1>3 DEF PairingInv
  <1>5. StoreType'
    BY Types DEF StoreType
  <1>6. JournalInv'
    BY DEF JournalInv, TransactionInv, StepInv, Sound, Whole, Accepted, Registered,
       Undoing, Closing, Applying
  <1>7. CASE ~Stop
    <2> USE <1>4, <1>7
    <2>1. TransactionInv'
      BY DEF TransactionInv, StepInv, Sound, Whole, Registered,
             SameTransaction, Closing, Undoing, Applying
    <2>2. StepInv'
      BY DEF StepInv, TransactionInv, Closing, Undoing, Applying, Accepted
    <2> QED  BY <1>5, <1>6, <2>1, <2>2, LocalStep
  <1> QED  BY <1>5, <1>6, <1>7, Stops

LEMMA ForgetStep ==
  ASSUME PairingInv, Forget PROVE PairingInv'
  <1>1. /\ client.pc = "forget" /\ Local
        /\ UNCHANGED <<device, code, codes, settings, ca, staged, backup, pointer,
                       journal>>
        /\ keyring' \in {keyring, keyring \ {client.mem.dev}}
        /\ Went({"unpoint"})
    BY Goes, Types DEF Forget, Local, serverVars, Step, PairingInv
  <1> USE <1>1 DEF PairingInv, Went
  <1>2. StoreType'
    BY Types DEF StoreType
  <1>3. JournalInv'
    BY DEF JournalInv, TransactionInv, StepInv, Sound, Whole, SameTransaction,
           Accepted, Registered, Undoing, Closing
  <1>4. TransactionInv'
    BY DEF TransactionInv, StepInv, Sound, Whole, Registered,
             SameTransaction, Closing, Undoing, Applying
  <1>5. StepInv'
    BY DEF StepInv, TransactionInv, Closing, Undoing, Applying
  <1> QED  BY <1>2, <1>3, <1>4, <1>5, LocalStep

LEMMA UnpointStep ==
  ASSUME PairingInv, Unpoint PROVE PairingInv'
  <1>1. /\ client.pc = "unpoint" /\ Local
        /\ UNCHANGED <<device, code, codes, settings, ca, staged, backup, keyring,
                       journal>>
        /\ pointer' \in {pointer, NoDevice, client.mem.pointer}
        /\ Stop \/ Went({"restore"})
    BY Goes, Types DEF Unpoint, Local, serverVars, Step, PairingInv
  <1> USE <1>1 DEF PairingInv
  <1>2. StoreType'
    BY Types DEF StoreType, Client, Journal
  <1>3. JournalInv'
    BY DEF JournalInv, TransactionInv, StepInv, Sound, Whole, SameTransaction,
           Accepted, Registered, Undoing, Closing
  <1>4. CASE Went({"restore"})
    <2> USE <1>4 DEF Went
    <2>1. TransactionInv'
      BY DEF TransactionInv, StepInv, Sound, Whole, Registered,
             SameTransaction, Closing, Undoing, Applying
    <2>2. StepInv'
      BY DEF StepInv, TransactionInv, Closing, Undoing, Applying
    <2> QED  BY <1>2, <1>3, <2>1, <2>2, LocalStep
  <1> QED  BY <1>2, <1>3, <1>4, Stops

LEMMA RestoreSettingsStep ==
  ASSUME PairingInv, RestoreSettings PROVE PairingInv'
  <1>1. /\ client.pc = "restore" /\ Local
        /\ UNCHANGED <<device, code, codes, ca, staged, backup, pointer, keyring,
                       journal>>
        /\ settings' \in {settings, client.mem.settings}
        /\ Stop \/ (Went({"restoreCa"}) /\ settings' = client.mem.settings)
    BY Goes, Types DEF RestoreSettings, Local, serverVars, Step, PairingInv
  <1> USE <1>1 DEF PairingInv
  <1>2. StoreType'
    BY Types DEF StoreType, Client, Journal
  <1>3. JournalInv'
    BY DEF JournalInv, TransactionInv, StepInv, Sound, Whole, Old, SameTransaction,
           Accepted, Registered, Undoing, Closing
  <1>4. CASE Went({"restoreCa"}) /\ settings' = client.mem.settings
    <2> USE <1>4 DEF Went
    <2>1. TransactionInv'
      BY DEF TransactionInv, StepInv, Sound, Whole, Old, Registered,
             SameTransaction, Closing, Undoing, Applying
    <2>2. StepInv'
      BY DEF StepInv, TransactionInv, Closing, Undoing, Applying
    <2> QED  BY <1>2, <1>3, <2>1, <2>2, LocalStep
  <1> QED  BY <1>2, <1>3, <1>4, Stops

LEMMA RestoreCaStep ==
  ASSUME PairingInv, RestoreCa PROVE PairingInv'
  <1>1. /\ client.pc = "restoreCa" /\ Local
        /\ UNCHANGED <<device, code, codes, settings, staged, pointer, keyring,
                       journal>>
        /\ ca' \in {ca, client.mem.ca, None} /\ backup' \in {backup, None}
        /\ Stop \/ (Went({"restorePointer"}) /\ ca' = client.mem.ca)
        /\ journal = NoJournal => ca' = ca /\ backup' = backup
    <2>1. Goto("restorePointer") => Went({"restorePointer"})
      BY Goes, Types DEF Step, PairingInv
    <2>2. journal = NoJournal => backup = None /\ ca = client.mem.ca
      BY DEF RestoreCa, PairingInv, TransactionInv, Old
    <2> QED  BY <2>1, <2>2, Types DEF RestoreCa, HasBackup, Local, serverVars
  <1> USE <1>1 DEF PairingInv
  <1>2. StoreType'
    BY Types DEF StoreType, Client, Journal
  <1>3. JournalInv'
    BY DEF JournalInv, TransactionInv, StepInv, Sound, Whole, Old, SameTransaction,
           Accepted, Registered, Undoing, Closing
  <1>4. CASE Went({"restorePointer"}) /\ ca' = client.mem.ca
    <2> USE <1>4 DEF Went
    <2>1. TransactionInv'
      BY DEF TransactionInv, StepInv, Sound, Whole, Old, Registered,
             SameTransaction, Closing, Undoing, Applying
    <2>2. StepInv'
      BY DEF StepInv, TransactionInv, Closing, Undoing, Applying
    <2> QED  BY <1>2, <1>3, <2>1, <2>2, LocalStep
  <1> QED  BY <1>2, <1>3, <1>4, Stops

LEMMA RestorePointerStep ==
  ASSUME PairingInv, RestorePointer PROVE PairingInv'
  <1>1. /\ client.pc = "restorePointer" /\ Local
        /\ UNCHANGED <<device, code, codes, settings, ca, staged, backup, keyring,
                       journal>>
        /\ pointer' \in {pointer, client.mem.pointer}
        /\ Stop \/ (Went({"clean"}) /\ pointer' = client.mem.pointer)
    BY Goes, Types DEF RestorePointer, RestoredPointer, Local, serverVars, Step,
       PairingInv
  <1> USE <1>1 DEF PairingInv
  <1>2. StoreType'
    BY Types DEF StoreType, Client, Journal
  <1>3. JournalInv'
    BY DEF JournalInv, TransactionInv, StepInv, Sound, Whole, Old, SameTransaction,
           Accepted, Registered, Undoing, Closing
  <1>4. CASE Went({"clean"}) /\ pointer' = client.mem.pointer
    <2> USE <1>4 DEF Went
    <2>1. TransactionInv'
      BY DEF TransactionInv, StepInv, Sound, Whole, Old, Registered,
             SameTransaction, Closing, Undoing, Applying
    <2>2. StepInv'
      BY DEF StepInv, TransactionInv, Closing, Undoing, Applying, Old
    <2> QED  BY <1>2, <1>3, <2>1, <2>2, LocalStep
  <1> QED  BY <1>2, <1>3, <1>4, Stops

LEMMA CleanStep ==
  ASSUME PairingInv, Clean PROVE PairingInv'
  <1>1. /\ client.pc = "clean" /\ Local
        /\ UNCHANGED <<device, code, codes, settings, ca, pointer, keyring, journal>>
        /\ staged' \in {staged, None} /\ backup' \in {backup, None}
        /\ Went({"close"})
    BY Goes, Types DEF Clean, Local, serverVars, Step, PairingInv
  <1> USE <1>1 DEF PairingInv, Went
  <1>2. StoreType'
    BY Types DEF StoreType
  <1>3. JournalInv'
    BY DEF JournalInv, TransactionInv, Sound, Whole, Accepted, Registered
  <1>4. TransactionInv'
    BY DEF TransactionInv, StepInv, Sound, Whole, Registered, Old,
             SameTransaction, Closing, Undoing, Applying
  <1>5. StepInv'
    BY DEF StepInv, TransactionInv, Closing, Undoing, Applying, Old, New
  <1> QED  BY <1>2, <1>3, <1>4, <1>5, LocalStep

LEMMA CloseStep ==
  ASSUME PairingInv, Close PROVE PairingInv'
  <1>1. /\ client.pc = "close" /\ Local /\ Stop
        /\ UNCHANGED <<device, code, codes, settings, ca, staged, backup, pointer,
                       keyring>>
        /\ journal' \in {journal, NoJournal}
    BY DEF Close, Local, serverVars
  <1> USE <1>1 DEF PairingInv
  <1>2. StoreType'
    BY Types, Primitives DEF StoreType
  <1>3. /\ Sound(client.mem)
        /\ \/ Old(client.mem)
           \/ New(client.mem) /\ client.mem.dev \in keyring
    <2>1. CASE journal.phase = "confirmed"
      BY <2>1, Primitives DEF TransactionInv, StepInv, Closing, JournalInv
    <2>2. CASE journal.phase # "confirmed"
      BY <2>2 DEF TransactionInv, StepInv, Closing
    <2> QED  BY <2>1, <2>2
  <1>4. client.mem.dev \in keyring => client.mem.dev # NoDevice
    BY Types, Primitives DEF StoreType
  <1>5. JournalInv'
    BY <1>3, <1>4, Primitives DEF JournalInv, TransactionInv, StepInv, Sound, Whole,
       Old, New, SameTransaction,
           Accepted, Registered, Undoing, Closing
  <1> QED  BY <1>2, <1>5, Stops, Primitives

-----------------------------------------------------------------------------
(* Requests of the process *)

LEMMA Sends ==
  ASSUME PairingInv, Local, UNCHANGED localVars, NEW kind \in {"pair", "confirm", "cancel"},
         NEW c \in Code, client.pc = kind, Send(kind, c)
  PROVE  PairingInv'
  <1> DEFINE r == [kind |-> kind, dev |-> client.mem.dev, server |-> client.mem.server,
                   code |-> c, step |-> "sent"]
  <1>1. /\ r \in Call /\ r.kind = kind /\ r.dev = client.mem.dev
        /\ r.server = client.mem.server /\ r.step = "sent"
    BY Types DEF PairingInv, Client, Journal, Call
  <1>2. /\ client' \in Client /\ client'.pc = client.pc /\ client'.mode = client.mode
        /\ client'.mem = client.mem /\ client'.call = r
    BY <1>1, Types DEF Send, PairingInv, Client
  <1> HIDE DEF r
  <1>3. UNCHANGED <<device, code, codes, settings, ca, staged, backup, pointer, keyring,
                    journal, late>>
    BY DEF Local, serverVars, localVars
  <1> USE <1>1, <1>2, <1>3 DEF PairingInv
  <1>4. StoreType'
    BY Types DEF StoreType
  <1>5. JournalInv'
    BY DEF JournalInv, Sound, Whole, Accepted, Registered
  <1>6. TransactionInv'
    BY DEF TransactionInv, Sound, Whole, Registered, Old, SameTransaction, Closing,
       Undoing
  <1>7. StepInv'
    BY DEF StepInv, Closing, Applying, Accepted, Old, New
  <1>8. CallInv'
    BY DEF CallInv, StepInv
  <1>9. HandedInv'
    BY LocalHanded
  <1> QED  BY <1>4, <1>5, <1>6, <1>7, <1>8, <1>9, LocalTypes

LEMMA SendPairStep ==
  ASSUME PairingInv, SendPair PROVE PairingInv'
  <1>1. client.pc = "pair" /\ Local /\ UNCHANGED localVars
    BY DEF SendPair, Local
  <1>2. PICK c \in 1..MaxCode : Send("pair", c)
    BY DEF SendPair
  <1>3. c \in Code
    BY ServerAssumption DEF Code
  <1> QED  BY <1>1, <1>2, <1>3, Sends

\* Steps that change nothing but the place of the process.
LEMMA Turns ==
  ASSUME PairingInv, Local, UNCHANGED localVars, NEW step, Went({step}),
         \/ step = "cancel" /\ client.pc = "confirm"
         \/ step \in {"mark", "finish"} /\ client.pc = "confirm" /\ Accepted(client.mem.dev)
         \/ /\ step = "finish" /\ client.pc = "cancel" /\ client.mode # "begin"
            /\ Accepted(client.mem.dev)
         \/ step = "forget" /\ client.pc = "cancel"
  PROVE  PairingInv'
  <1>1. UNCHANGED <<device, code, codes, settings, ca, staged, backup, pointer, keyring,
                    journal, late>>
    BY DEF Local, serverVars, localVars
  <1> USE <1>1 DEF PairingInv, Went
  <1>2. StoreType'
    BY Types DEF StoreType
  <1>3. JournalInv'
    BY DEF JournalInv, Sound, Whole, Accepted, Registered
  <1>4. TransactionInv'
    BY DEF TransactionInv, Sound, Whole, Registered, Old, SameTransaction, Closing,
       Undoing
  <1>5. StepInv'
    BY DEF StepInv, Closing, Applying, Accepted, Old, New
  <1> QED  BY <1>2, <1>3, <1>4, <1>5, LocalStep

LEMMA StoresStop ==
  ASSUME PairingInv, Local, UNCHANGED localVars, Stop, client.pc # "idle"
  PROVE  PairingInv'
  <1>1. UNCHANGED <<device, code, codes, settings, ca, staged, backup, pointer, keyring,
                    journal, late>>
    BY DEF Local, serverVars, localVars
  <1>2. StoreType' /\ JournalInv'
    BY <1>1, Types DEF PairingInv, StoreType, JournalInv, Sound, Whole, Accepted,
       Registered
  <1> QED  BY <1>1, <1>2, Stops

LEMMA SendConfirmStep ==
  ASSUME PairingInv, SendConfirm PROVE PairingInv'
  <1>1. client.pc = "confirm" /\ Local /\ UNCHANGED localVars
    BY DEF SendConfirm, Local
  <1>2. CASE Send("confirm", 0)
    BY <1>1, <1>2, Sends, ServerAssumption DEF Code
  <1>3. CASE Goto("cancel")
    BY <1>1, <1>3, Goes, Turns, Types DEF PairingInv, Step
  <1> QED  BY <1>2, <1>3 DEF SendConfirm

LEMMA SendCancelStep ==
  ASSUME PairingInv, SendCancel PROVE PairingInv'
  <1>1. client.pc = "cancel" /\ Local /\ UNCHANGED localVars
    BY DEF SendCancel, Local
  <1>2. CASE Send("cancel", 0)
    BY <1>1, <1>2, Sends, ServerAssumption DEF Code
  <1>3. CASE Goto("forget")
    BY <1>1, <1>3, Goes, Turns, Types DEF PairingInv, Step
  <1>4. CASE Stop
    BY <1>1, <1>4, StoresStop
  <1> QED  BY <1>2, <1>3, <1>4 DEF SendCancel

LEMMA GotConfirmStep ==
  ASSUME PairingInv, GotConfirm PROVE PairingInv'
  <1>1. /\ client.pc = "confirm" /\ client.call.kind = "confirm"
        /\ Local /\ UNCHANGED localVars
    BY DEF GotConfirm, Local, PairingInv, CallInv, Calling, Answered
  <1>2. CASE Goto("cancel")
    BY <1>1, <1>2, Goes, Turns, Types DEF PairingInv, Step
  <1>3. CASE (SaysConfirmed(Reply) \/ SessionActive) /\ Confirmed
    <2>1. Accepted(client.mem.dev)
      BY <1>1, <1>3 DEF PairingInv, CallInv, SaysConfirmed, Reply, SessionActive,
         Accepted
    <2>2. Went({"mark"}) \/ Went({"finish"})
      BY <1>3, Goes, Types DEF Confirmed, Step, PairingInv
    <2> QED  BY <1>1, <2>1, <2>2, Turns
  <1> QED  BY <1>2, <1>3 DEF GotConfirm

LEMMA GotCancelStep ==
  ASSUME PairingInv, GotCancel PROVE PairingInv'
  <1>1. client.pc = "cancel" /\ Local /\ UNCHANGED localVars
    BY DEF GotCancel, Local
  <1>2. CASE Goto("forget")
    BY <1>1, <1>2, Goes, Turns, Types DEF PairingInv, Step
  <1>3. CASE Stop
    BY <1>1, <1>3, StoresStop
  <1>4. CASE client.mode # "begin" /\ SessionActive /\ Goto("finish")
    BY <1>1, <1>4, Goes, Turns, Types DEF PairingInv, Step, SessionActive, Accepted
  <1> QED  BY <1>2, <1>3, <1>4 DEF GotCancel

LEMMA RecoverStep ==
  ASSUME PairingInv, Recover PROVE PairingInv'
  <1>1. /\ client.pc = "idle" /\ journal # NoJournal /\ Local
        /\ UNCHANGED <<device, code, codes, settings, ca, staged, backup, keyring,
                       journal>>
    BY DEF Recover, Local, serverVars
  <1>2. PICK step \in {"restore", "apply", "confirm"} :
          /\ Resume(step)
          /\ pointer' \in {pointer, journal.dev}
          /\ step = "restore" => journal.phase # "confirmed" \/ journal.dev = NoDevice
          /\ step # "restore" => /\ pointer' = journal.dev /\ journal.dev # NoDevice
                                 /\ journal.dev \in keyring
          /\ step = "apply" => journal.phase = "confirmed"
          /\ step = "confirm" => journal.phase # "confirmed"
    <2>1. journal.phase = "confirmed" => journal.dev \in keyring
      BY <1>1 DEF PairingInv, JournalInv
    <2> QED  BY <2>1, <1>1 DEF Recover, Undecided
  <1>3. /\ client' \in Client /\ client'.pc = step /\ client'.mode = "recover"
        /\ client'.mem = journal /\ client'.call = NoCall
    <2>1. client' = [[[IdleClient EXCEPT !.pc = step] EXCEPT !.mode = "recover"] EXCEPT !.mem = journal]
      BY <1>2 DEF Resume
    <2>2. journal \in Journal /\ step \in Step
      BY Types DEF PairingInv, StoreType, Step
    <2> QED  BY <2>1, <2>2, Primitives DEF Client
  <1>4. /\ Sound(journal)
        /\ journal.phase = "confirmed" => /\ journal.dev \in keyring
                                          /\ journal.dev # NoDevice
    BY <1>1, Types, Primitives DEF PairingInv, JournalInv, StoreType
  <1> USE <1>1, <1>2, <1>3, <1>4 DEF PairingInv
  <1>5. StoreType'
    BY Types DEF StoreType, Journal
  <1>6. JournalInv'
    BY DEF JournalInv, Sound, Whole, Accepted, Registered
  <1>7. TransactionInv'
    BY DEF TransactionInv, Sound, Whole, Registered, Old, SameTransaction, Closing,
       Undoing
  <1>8. StepInv'
    BY DEF StepInv, Closing, Applying, Accepted, Old, New
  <1> QED  BY <1>5, <1>6, <1>7, <1>8, LocalStep

-----------------------------------------------------------------------------
(* The steps of the server *)

\* What the server never takes back.
Kept == \A d \in DeviceId : device[d].status # "unknown" =>
          /\ device'[d].status # "unknown"
          /\ device'[d].server = device[d].server
          /\ device'[d].code = device[d].code
          /\ Dead(d) => Dead(d)'
          /\ Accepted(d) => Accepted(d)'

\* Only a confirmation accepts a device.
Accepts(c) == \A d \in DeviceId :
                /\ Accepted(d)' => Accepted(d) \/ (c.kind = "confirm" /\ d = c.dev)
                /\ device'[d].status = "active" =>
                     \/ device[d].status = "active"
                     \/ /\ c.kind = "confirm" /\ c.step = "authed" /\ d = c.dev
                        /\ device[d].status = "pending"

\* A code that is still good was so before.
Spends == \A s \in Server : code'[s].left > 0 => code[s].left > 0 /\ code'[s].id = code[s].id

\* What is registered under a code.
Registers(c, a) ==
  \/ /\ a.dev = c.dev
     /\ \A d \in DeviceId : device'[d].code = device[d].code
  \/ /\ c.kind = "pair" /\ code[c.server].left > 0
     /\ \E d \in DeviceId :
          /\ device[d].status = "unknown" /\ device'[d].status = "pending"
          /\ device'[d].server = c.server /\ device'[d].code = code[c.server].id
          /\ \A e \in DeviceId \ {d} : device'[e] = device[e]
          /\ a.dev = c.dev \/ (a.dev = d /\ code'[c.server].left = 0)

LEMMA Pruning ==
  ASSUME ServerType, NEW s, device' = Pruned(s)
  PROVE  /\ device' \in [DeviceId -> Device] /\ Kept
         /\ \A d \in DeviceId : /\ device'[d].code = device[d].code
                                /\ Accepted(d)' => Accepted(d)
                                /\ device'[d].status = "active" => device[d].status = "active"
  <1>1. \A d \in DeviceId :
          /\ device[d] \in Device
          /\ device'[d] = device[d] \/ (/\ device[d].status = "expired"
                                       /\ device'[d] = [device[d] EXCEPT !.status = "removed"])
    BY DEF Pruned, ServerType
  <1>2. device' \in [DeviceId -> Device]
    <2>1. \A d \in DeviceId : device'[d] \in Device
      BY <1>1 DEF Device
    <2>2. device' = [d \in DeviceId |-> device'[d]]
      BY DEF Pruned
    <2> QED  BY <2>1, <2>2
  <1>3. \A d \in DeviceId :
          /\ device'[d].server = device[d].server /\ device'[d].code = device[d].code
          /\ \/ device'[d].status = device[d].status
             \/ device[d].status = "expired" /\ device'[d].status = "removed"
    BY <1>1 DEF Device
  <1>4. Kept
    BY <1>3 DEF Kept, Dead, Accepted
  <1> QED  BY <1>2, <1>3, <1>4 DEF Accepted

LEMMA Served ==
  ASSUME ServerType, NEW c \in Call, NEW a \in After(c), Serve(c, a), c.server \in Server,
         c.kind # "pair" => c.dev \in DeviceId
  PROVE  /\ ServerType' /\ codes' = codes /\ a \in Call /\ Kept /\ Accepts(c) /\ Spends
         /\ Registers(c, a)
         /\ a.kind = c.kind /\ a.server = c.server /\ a.code = c.code
         /\ c.kind # "pair" => a.dev = c.dev
         /\ c.kind = "pair" /\ a.dev # c.dev => /\ a.dev \in DeviceId
                                                /\ device[a.dev].status = "unknown"
                                                /\ Registered(a.dev, c.server)'
         /\ c.kind = "pair" /\ a.step = "ok" => a.dev \in DeviceId
         /\ c.kind = "confirm" /\ a.step = "ok" => Accepted(c.dev)'
         /\ c.kind = "cancel" /\ a.step \in {"ok", "refused"} /\ device[c.dev].status # "unknown"
              => Dead(c.dev)'
         /\ Unanswered(c)
         /\ Unanswered(a) => c.kind # "pair"
  <1>1. /\ a \in Call /\ a.kind = c.kind /\ a.server = c.server /\ a.code = c.code
        /\ a.step \in {"authed", "ok", "refused", "conflict"}
    BY DEF After, Call
  <1> DEFINE Goal ==
         /\ ServerType' /\ codes' = codes /\ Kept /\ Accepts(c) /\ Spends
         /\ Registers(c, a)
         /\ c.kind # "pair" => a.dev = c.dev
         /\ c.kind = "pair" /\ a.dev # c.dev => /\ a.dev \in DeviceId
                                                /\ device[a.dev].status = "unknown"
                                                /\ Registered(a.dev, c.server)'
         /\ c.kind = "pair" /\ a.step = "ok" => a.dev \in DeviceId
         /\ c.kind = "confirm" /\ a.step = "ok" => Accepted(c.dev)'
         /\ c.kind = "cancel" /\ a.step \in {"ok", "refused"} /\ device[c.dev].status # "unknown"
              => Dead(c.dev)'
         /\ Unanswered(c)
         /\ Unanswered(a) => c.kind # "pair"
  <1> SUFFICES Goal
    BY <1>1
  <1>2. CASE ServePair(c, a)
    <2>1. c.kind = "pair" /\ c.step = "sent" /\ codes' = codes
      BY <1>2 DEF ServePair
    <2>2. \/ /\ device' = device /\ a.dev = c.dev /\ a.step \in {"refused", "conflict"}
             /\ \/ code' = code
                \/ /\ code[c.server].left > 0
                   /\ code' = [code EXCEPT ![c.server].left = code[c.server].left - 1]
          \/ /\ code[c.server].left > 0 /\ code[c.server].id = c.code
             /\ \E d \in DeviceId :
                  /\ FreshDevice(d) /\ Register(d, c)
                  /\ \/ Claim(c.server) /\ a = [c EXCEPT !.step = "ok", !.dev = d]
                     \/ UNCHANGED code /\ a = [c EXCEPT !.step = "conflict"]
      BY <1>2 DEF ServePair, Call
    <2>3. CASE device' = device /\ a.dev = c.dev /\ a.step \in {"refused", "conflict"}
               /\ (code' = code \/ (code[c.server].left > 0 /\
                    code' = [code EXCEPT ![c.server].left = code[c.server].left - 1]))
      <3>1. /\ code' \in [Server -> [id : Code, left : 0..MaxAttempt]]
            /\ \A s \in Server : code'[s].left > 0 => code[s].left > 0 /\ code'[s].id = code[s].id
        BY <2>3, ServerAssumption DEF ServerType
      <3>2. Kept /\ Accepts(c) /\ Registers(c, a)
        BY <2>3 DEF Kept, Accepts, Accepted, Dead, Registers
      <3>3. ServerType' /\ Spends
        BY <2>1, <2>3, <3>1 DEF ServerType, Spends
      <3>4. ~ Unanswered(a)
        BY <1>1, <2>3 DEF Unanswered
      <3> QED  BY <2>1, <2>3, <3>2, <3>3, <3>4 DEF Unanswered
    <2>4. CASE \E d \in DeviceId :
                  /\ code[c.server].left > 0 /\ code[c.server].id = c.code
                  /\ FreshDevice(d) /\ Register(d, c)
                  /\ \/ Claim(c.server) /\ a = [c EXCEPT !.step = "ok", !.dev = d]
                     \/ UNCHANGED code /\ a = [c EXCEPT !.step = "conflict"]
      <3>1. PICK d \in DeviceId :
                  /\ code[c.server].left > 0 /\ code[c.server].id = c.code
                  /\ FreshDevice(d) /\ Register(d, c)
                  /\ \/ Claim(c.server) /\ a = [c EXCEPT !.step = "ok", !.dev = d]
                     \/ UNCHANGED code /\ a = [c EXCEPT !.step = "conflict"]
        BY <2>4
      <3>2. /\ device[d].status = "unknown"
            /\ device' \in [DeviceId -> Device]
            /\ device'[d].status = "pending" /\ device'[d].server = c.server
            /\ device'[d].code = c.code
            /\ \A e \in DeviceId \ {d} : device'[e] = device[e]
        BY <3>1 DEF FreshDevice, Register, ServerType, Device, Call
      <3>3. \/ a.dev = d /\ a.step = "ok" /\ code' = [code EXCEPT ![c.server] = NoCode]
            \/ a.dev = c.dev /\ a.step = "conflict" /\ code' = code
        BY <3>1 DEF Call, Claim
      <3>4. /\ code' \in [Server -> [id : Code, left : 0..MaxAttempt]]
            /\ \A s \in Server : code'[s].left > 0 => code[s].left > 0 /\ code'[s].id = code[s].id
            /\ a.dev = d => code'[c.server].left = 0 \/ a.dev = c.dev
        BY <3>3, ServerAssumption DEF ServerType, NoCode, Code
      <3>5. ServerType' /\ Kept /\ Accepts(c) /\ Spends
        BY <2>1, <3>2, <3>4 DEF ServerType, Kept, Accepts, Spends, Accepted, Dead
      <3>6. Registers(c, a)
        BY <2>1, <3>1, <3>2, <3>3, <3>4 DEF Registers
      <3>7. a.dev # c.dev => a.dev \in DeviceId /\ device[a.dev].status = "unknown"
                             /\ Registered(a.dev, c.server)'
        BY <3>2, <3>3 DEF Registered
      <3> QED  BY <2>1, <3>3, <3>5, <3>6, <3>7 DEF Unanswered
    <2> QED  BY <2>2, <2>3, <2>4
  <1>3. CASE Authenticate(c, a)
    <2>1. /\ c.kind \in {"confirm", "cancel"} /\ c.step = "sent" /\ codes' = codes /\ code' = code
          /\ device' = Pruned(c.server)
      BY <1>3 DEF Authenticate
    <2>2. /\ a.dev = c.dev
          /\ a.step = "ok" => c.kind = "confirm" /\ device[c.dev].status = "active"
          /\ a.step = "refused" => device[c.dev].status \notin {"pending", "active"}
      BY <1>3, <1>1, <2>1 DEF Authenticate, Call
    <2>3. ServerType' /\ Accepts(c) /\ Spends /\ Registers(c, a)
      BY <2>1, <2>2, Pruning DEF ServerType, Accepts, Spends, Registers
    <2>4. c.kind = "confirm" /\ a.step = "ok" => Accepted(c.dev)'
      BY <2>1, <2>2, Pruning DEF Kept, Accepted
    <2>5. c.kind = "cancel" /\ a.step \in {"ok", "refused"} /\ device[c.dev].status # "unknown"
              => Dead(c.dev)'
      BY <2>1, <2>2, Pruning DEF Kept, Dead, ServerType, Device
    <2> QED  BY <2>1, <2>2, <2>3, <2>4, <2>5, Pruning DEF Unanswered
  <1>4. CASE ServeConfirm(c, a)
    <2>1. /\ c.kind = "confirm" /\ c.step = "authed" /\ codes' = codes /\ code' = code
          /\ c.dev \in DeviceId
      BY <1>4 DEF ServeConfirm
    <2>2. \/ /\ device[c.dev].status = "pending" /\ device' = [device EXCEPT ![c.dev].status = "active"]
             /\ a.dev = c.dev
          \/ device' = device /\ a.step = "conflict" /\ a.dev = c.dev
      BY <1>4, <1>1 DEF ServeConfirm, Call
    <2>3. /\ ServerType' /\ Kept /\ Accepts(c) /\ Spends
          /\ \A d \in DeviceId : device'[d].code = device[d].code
          /\ a.step = "ok" => Accepted(c.dev)'
      BY <2>1, <2>2 DEF ServerType, Device, Kept, Accepts, Spends, Accepted, Dead
    <2> QED  BY <2>1, <2>2, <2>3 DEF Unanswered, Registers
  <1>5. CASE ServeCancel(c, a)
    <2>1. /\ c.kind = "cancel" /\ c.step = "authed" /\ codes' = codes /\ code' = code
          /\ c.dev \in DeviceId
      BY <1>5 DEF ServeCancel
    <2>2. \/ /\ device[c.dev].status \in {"pending", "expired"}
             /\ device' = [device EXCEPT ![c.dev].status = "removed"]
             /\ a.dev = c.dev
          \/ device' = device /\ a.step = "conflict" /\ a.dev = c.dev
      BY <1>5, <1>1 DEF ServeCancel, Call
    <2>3. /\ ServerType' /\ Kept /\ Accepts(c) /\ Spends
          /\ \A d \in DeviceId : device'[d].code = device[d].code
          /\ a.step \in {"ok", "refused"} => Dead(c.dev)'
      BY <2>1, <2>2 DEF ServerType, Device, Kept, Accepts, Spends, Accepted, Dead
    <2> QED  BY <2>1, <2>2, <2>3 DEF Unanswered, Registers
  <1> QED  BY <1>1, <1>2, <1>3, <1>4, <1>5 DEF Serve

\* Such a step leaves the transaction what it is.
LEMMA Observes ==
  ASSUME PairingInv, Kept, UNCHANGED localVars, client' \in Client,
         client'.pc = client.pc, client'.mode = client.mode, client'.mem = client.mem,
         client' = client \/ client.pc # "idle"
  PROVE  StoreType' /\ JournalInv' /\ TransactionInv' /\ StepInv'
  <1>1. UNCHANGED <<settings, ca, staged, backup, pointer, keyring, journal>>
    BY DEF localVars
  <1>2. \A d, s : Registered(d, s) => Registered(d, s)'
    BY DEF Kept, Registered
  <1>3. \A s, c, p : Whole(s, c, p) => Whole(s, c, p)'
    BY <1>1, <1>2 DEF Whole
  <1>4. \A j \in Journal : Sound(j) => Sound(j)'
    BY <1>2, <1>3 DEF Sound
  <1>5. \A d \in DeviceId : Accepted(d) => Accepted(d)'
    BY DEF Kept, Accepted
  <1> USE <1>1 DEF PairingInv
  <1>6. StoreType'
    BY Types DEF StoreType
  <1>7. JournalInv'
    BY <1>3, <1>4, <1>5, Types DEF JournalInv, StoreType
  <1>8. TransactionInv'
    BY <1>4, Types DEF TransactionInv, Old, SameTransaction, Client, StoreType
  <1>9. StepInv'
    BY <1>5, Types DEF StepInv, Old, New, Client, Journal, StoreType, Applying
  <1> QED  BY <1>6, <1>7, <1>8, <1>9

\* Nothing new is handed out.
LEMMA HandedSame ==
  ASSUME ServerType, HandedInv, ServerType', Kept, Spends, codes' = codes,
         \A d \in DeviceId : device'[d].code <= codes,
         Handed' \subseteq Handed
  PROVE  HandedInv'
  <1>1. \A d \in Handed' : d \in DeviceId /\ d \in Handed
    BY DEF Handed
  <1>2. \A d \in Handed' : /\ device[d].status # "unknown" /\ device'[d].status # "unknown"
                           /\ device'[d].code = device[d].code
    BY <1>1 DEF HandedInv, Kept
  <1>3. \A d, e \in Handed' : device'[d].code = device'[e].code => d = e
    BY <1>1, <1>2 DEF HandedInv
  <1>4. \A d \in Handed' : \A s \in Server : code'[s].left > 0 => code'[s].id # device'[d].code
    BY <1>1, <1>2 DEF HandedInv, Spends
  <1>5. \A s \in Server : code'[s].left > 0 => 0 < code'[s].id /\ code'[s].id <= codes'
    BY DEF HandedInv, Spends
  <1>6. \A s, t \in Server : /\ code'[s].left > 0 /\ code'[t].left > 0
                             /\ code'[s].id = code'[t].id
                             => s = t
    BY DEF HandedInv, Spends
  <1> QED  BY <1>2, <1>3, <1>4, <1>5, <1>6 DEF HandedInv

\* The device of a claimed code is handed out.
LEMMA HandedNew ==
  ASSUME ServerType, HandedInv, ServerType', Kept, Spends, codes' = codes,
         NEW s \in Server, code[s].left > 0, code'[s].left = 0,
         NEW d \in DeviceId, device[d].status = "unknown", device'[d].status # "unknown",
         device'[d].code = code[s].id,
         \A e \in DeviceId \ {d} : device'[e] = device[e],
         Handed' \subseteq Handed \cup {d}
  PROVE  HandedInv'
  <1>1. \A e \in Handed' : e \in DeviceId /\ (e \in Handed \/ e = d)
    BY DEF Handed
  <1>2. d \notin Handed
    BY DEF HandedInv
  <1>3. \A e \in Handed : /\ e # d /\ device'[e] = device[e]
                          /\ device'[e].code # device'[d].code
    BY <1>2 DEF HandedInv, Handed
  <1>4. \A e, f \in Handed' : device'[e].code = device'[f].code => e = f
    BY <1>1, <1>3 DEF HandedInv
  <1>5. \A e \in Handed' : device'[e].status # "unknown"
    BY <1>1, <1>3 DEF HandedInv
  <1>6. \A e \in Handed' : \A t \in Server : code'[t].left > 0 => code'[t].id # device'[e].code
    <2> TAKE e \in Handed'
    <2> TAKE t \in Server
    <2> HAVE code'[t].left > 0
    <2>1. t # s /\ code[t].left > 0 /\ code'[t].id = code[t].id
      BY DEF Spends, ServerType
    <2>2. CASE e = d
      BY <2>1, <2>2 DEF HandedInv
    <2>3. CASE e # d
      BY <1>1, <1>3, <2>1, <2>3 DEF HandedInv
    <2> QED  BY <2>2, <2>3
  <1>7. \A e \in DeviceId : device'[e].code <= codes'
    BY DEF HandedInv
  <1>8. \A t \in Server : code'[t].left > 0 => 0 < code'[t].id /\ code'[t].id <= codes'
    BY DEF HandedInv, Spends
  <1>9. \A t, u \in Server : /\ code'[t].left > 0 /\ code'[u].left > 0
                             /\ code'[t].id = code'[u].id
                             => t = u
    BY DEF HandedInv, Spends
  <1> QED  BY <1>4, <1>5, <1>6, <1>7, <1>8, <1>9 DEF HandedInv

\* A code registers at most the device it hands out.
LEMMA HandedServed ==
  ASSUME ServerType, HandedInv, ServerType', Kept, Spends, codes' = codes,
         NEW c \in Call, NEW a \in Call, c.server \in Server, Registers(c, a),
         Handed' \subseteq Handed \cup ({a.dev} \ {c.dev})
  PROVE  HandedInv'
  <1>1. CASE a.dev = c.dev /\ \A d \in DeviceId : device'[d].code = device[d].code
    <2>1. \A d \in DeviceId : device'[d].code <= codes
      BY <1>1 DEF HandedInv
    <2> QED  BY <1>1, <2>1, HandedSame
  <1>2. CASE /\ code[c.server].left > 0
             /\ \E d \in DeviceId :
                  /\ device[d].status = "unknown" /\ device'[d].status = "pending"
                  /\ device'[d].code = code[c.server].id
                  /\ \A e \in DeviceId \ {d} : device'[e] = device[e]
                  /\ a.dev = c.dev \/ (a.dev = d /\ code'[c.server].left = 0)
    <2>1. PICK d \in DeviceId :
                  /\ device[d].status = "unknown" /\ device'[d].status = "pending"
                  /\ device'[d].code = code[c.server].id
                  /\ \A e \in DeviceId \ {d} : device'[e] = device[e]
                  /\ a.dev = c.dev \/ (a.dev = d /\ code'[c.server].left = 0)
      BY <1>2
    <2>2. CASE a.dev = c.dev
      <3>1. \A e \in DeviceId : device'[e].code <= codes
        BY <1>2, <2>1 DEF HandedInv
      <3> QED  BY <2>2, <3>1, HandedSame
    <2>3. CASE a.dev = d /\ code'[c.server].left = 0
      <3>1. Handed' \subseteq Handed \cup {d}
        BY <2>3
      <3> QED  BY <1>2, <2>1, <2>3, <3>1, HandedNew
    <2> QED  BY <2>1, <2>2, <2>3
  <1> QED  BY <1>1, <1>2 DEF Registers

LEMMA ServeCurrentStep ==
  ASSUME PairingInv, ServeCurrent PROVE PairingInv'
  <1>1. PICK c \in Call, a \in Call :
          /\ c = client.call /\ a \in After(c) /\ Serve(c, a)
          /\ client' = [client EXCEPT !.call = a]
    BY Types DEF ServeCurrent, PairingInv, Client, After, Call
  <1>2. /\ client.pc = c.kind /\ c.server = client.mem.server
        /\ client.pc \in {"pair", "confirm", "cancel"}
        /\ c.kind # "pair" => c.dev = client.mem.dev /\ c.dev # NoDevice
        /\ Sound(client.mem)
    BY <1>1, Types DEF ServeCurrent, Calling, PairingInv, CallInv, TransactionInv,
       StepInv, Client, Call, Applying
  <1>3. c.server \in Server /\ (c.kind # "pair" => c.dev \in DeviceId)
    BY <1>2 DEF Sound, Registered
  <1>4. /\ ServerType' /\ codes' = codes /\ a \in Call /\ Kept /\ Accepts(c) /\ Spends
        /\ Registers(c, a)
        /\ a.kind = c.kind /\ a.server = c.server /\ a.code = c.code
        /\ c.kind # "pair" => a.dev = c.dev
        /\ c.kind = "pair" /\ a.dev # c.dev => /\ a.dev \in DeviceId
                                               /\ device[a.dev].status = "unknown"
                                               /\ Registered(a.dev, c.server)'
        /\ c.kind = "pair" /\ a.step = "ok" => a.dev \in DeviceId
        /\ c.kind = "confirm" /\ a.step = "ok" => Accepted(c.dev)'
        /\ c.kind = "cancel" /\ a.step \in {"ok", "refused"} /\ device[c.dev].status # "unknown"
             => Dead(c.dev)'
    BY <1>1, <1>2, <1>3, Served, Types DEF PairingInv
  <1>5. /\ client' \in Client /\ client'.pc = client.pc /\ client'.mode = client.mode
        /\ client'.mem = client.mem /\ client'.call = a
        /\ UNCHANGED localVars /\ late' = late /\ faults' = faults
    BY <1>1, <1>4, Types DEF ServeCurrent, PairingInv, Client
  <1>6. PairingTypeOK'
    <2>1. StoreType'
      BY <1>5, Types DEF PairingInv, StoreType, localVars
    <2> QED  BY <1>4, <1>5, <2>1, Types DEF PairingInv, PairingTypeOK, ServerType,
         StoreType, Client
  <1>7. JournalInv' /\ TransactionInv' /\ StepInv'
    BY <1>2, <1>4, <1>5, Observes DEF PairingInv
  <1>8. HandedInv'
    <2>1. Handed' \subseteq Handed \cup ({a.dev} \ {c.dev})
      BY <1>1, <1>4, <1>5 DEF Handed, Accepts, localVars
    <2> QED  BY <1>2, <1>3, <1>4, <2>1, HandedServed, Types DEF PairingInv
  <1>9. CallInv'
    <2>1. \A d \in DeviceId : \A s : Registered(d, s) => Registered(d, s)'
      BY <1>4 DEF Kept, Registered
    <2>2. a.kind = "pair" /\ a.dev # NoDevice =>
             a.dev # client.mem.pointer /\ Registered(a.dev, client.mem.server)'
      <3>1. CASE a.dev = c.dev
        BY <1>1, <1>2, <1>4, <1>5, <2>1, <3>1 DEF PairingInv, CallInv, Registered
      <3>2. CASE a.dev # c.dev
        BY <1>2, <1>4, <1>5, <3>2 DEF Sound, Whole, Registered
      <3> QED  BY <3>1, <3>2
    <2>3. a.kind = "pair" /\ a.step = "ok" => a.dev # NoDevice
      BY <1>4, Primitives
    <2>4. a.kind = "cancel" /\ a.step \in {"ok", "refused"} => Dead(a.dev)'
      BY <1>2, <1>4 DEF Sound, Registered
    <2> QED  BY <1>2, <1>4, <1>5, <2>2, <2>3, <2>4 DEF PairingInv, CallInv
  <1> QED  BY <1>6, <1>7, <1>8, <1>9 DEF PairingInv

LEMMA ServeLateStep ==
  ASSUME PairingInv, ServeLate PROVE PairingInv'
  <1>1. PICK c \in late, a \in Call :
          /\ a \in After(c) /\ Serve(c, a)
          /\ late' = (late \ {c}) \cup (IF Unanswered(a) THEN {a} ELSE {})
    <2>1. \A c \in late : After(c) \subseteq Call
      BY Types DEF PairingInv, After, Call
    <2> QED  BY <2>1 DEF ServeLate
  <1>2. c \in Call /\ c.server \in Server /\ (c.kind # "pair" => c.dev \in DeviceId)
    BY Types DEF PairingInv, CallInv
  <1>3. /\ ServerType' /\ codes' = codes /\ Kept /\ Accepts(c) /\ Spends
        /\ Registers(c, a) /\ a.server = c.server
        /\ c.kind # "pair" => a.dev = c.dev
        /\ Unanswered(a) => a.dev = c.dev /\ (a.kind # "pair" => a.dev \in DeviceId)
    BY <1>1, <1>2, Served, Types DEF PairingInv
  <1>4. client' = client /\ UNCHANGED localVars /\ faults' = faults
    BY DEF ServeLate
  <1>5. /\ late' \subseteq Call
        /\ \A l \in late' : l \in late \/ (l = a /\ Unanswered(a))
    BY <1>1, Types DEF PairingInv
  <1>6. StoreType' /\ JournalInv' /\ TransactionInv' /\ StepInv'
    BY <1>3, <1>4, Observes, Types DEF PairingInv
  <1>7. PairingTypeOK'
    BY <1>3, <1>4, <1>5, <1>6, Types DEF PairingInv, PairingTypeOK, ServerType,
       StoreType, Client
  <1>8. HandedInv'
    <2>1. Handed' \subseteq Handed \cup ({a.dev} \ {c.dev})
      BY <1>1, <1>3, <1>4, <1>5 DEF Handed, Accepts, localVars
    <2> QED  BY <1>2, <1>3, <2>1, HandedServed, Types DEF PairingInv
  <1>9. CallInv'
    <2>1. \A d, s : Registered(d, s) => Registered(d, s)'
      BY <1>3 DEF Kept, Registered
    <2>2. \A l \in late' : l.server \in Server /\ (l.kind # "pair" => l.dev \in DeviceId)
      BY <1>2, <1>3, <1>5 DEF PairingInv, CallInv
    <2>3. client.call.kind = "confirm" /\ client.call.step = "ok" => Accepted(client.call.dev)'
      BY <1>3, <1>4, Primitives DEF PairingInv, CallInv, TransactionInv, StepInv,
         Sound, Registered, Kept, Applying
    <2>4. client.call.kind = "cancel" /\ client.call.step \in {"ok", "refused"}
            => Dead(client.call.dev)'
      BY <1>3, <1>4, Primitives DEF PairingInv, CallInv, TransactionInv, StepInv,
         Sound, Registered, Kept
    <2> QED  BY <1>4, <2>1, <2>2, <2>3, <2>4 DEF PairingInv, CallInv
  <1> QED  BY <1>6, <1>7, <1>8, <1>9 DEF PairingInv

\* The request that is given up joins the late ones.
LEMMA GivesUp ==
  ASSUME PairingInv, Given(client.call)
  PROVE  /\ late' \subseteq Call
         /\ \A l \in late' : l \in late \/ (l = client.call /\ l.kind # "none" /\ Unanswered(l))
         /\ \A l \in late' : l.server \in Server /\ (l.kind # "pair" => l.dev \in DeviceId)
  <1>1. /\ late' \subseteq Call
        /\ \A l \in late' : l \in late \/ (l = client.call /\ l.kind # "none" /\ Unanswered(l))
    BY Types DEF PairingInv, Given, Client
  <1>2. client.call.kind # "none" =>
          /\ client.call.server \in Server
          /\ client.call.kind # "pair" => client.call.dev \in DeviceId
    BY Types, Primitives DEF PairingInv, CallInv, TransactionInv, StepInv, Sound,
       Registered, Client, Call, Applying
  <1> QED  BY <1>1, <1>2 DEF PairingInv, CallInv

LEMMA LoseReplyStep ==
  ASSUME PairingInv, LoseReply PROVE PairingInv'
  <1>1. /\ client' \in Client /\ client'.pc = client.pc /\ client'.mode = client.mode
        /\ client'.mem = client.mem /\ client'.call = [client.call EXCEPT !.step = "lost"]
        /\ client.pc # "idle" /\ client.call.kind # "none" /\ client.call \in Call
    BY Types DEF LoseReply, Calling, PairingInv, CallInv, Client, Call
  <1>2. /\ client'.call.kind = client.call.kind /\ client'.call.dev = client.call.dev
        /\ client'.call.server = client.call.server /\ client'.call.step = "lost"
    BY <1>1 DEF Call
  <1>3. UNCHANGED <<serverVars, localVars>> /\ Fault /\ Given(client.call)
    BY DEF LoseReply
  <1>4. /\ ServerType' /\ Kept /\ Spends /\ codes' = codes /\ faults' \in 0..MaxFault
        /\ \A d \in DeviceId : device'[d] = device[d]
    BY <1>3, Types, ClientAssumption DEF PairingInv, serverVars, ServerType, Kept,
       Dead, Accepted, Spends, Fault
  <1>5. StoreType' /\ JournalInv' /\ TransactionInv' /\ StepInv'
    BY <1>1, <1>3, <1>4, Observes
  <1>6. PairingTypeOK'
    BY <1>1, <1>4, <1>5, <1>3, GivesUp DEF PairingTypeOK, ServerType, StoreType, Client
  <1>7. HandedInv'
    <2>1. Handed' \subseteq Handed
      BY <1>1, <1>2, <1>3, GivesUp DEF Handed, Accepted, serverVars, localVars
    <2> QED  BY <1>4, <2>1, HandedSame, Types DEF PairingInv, HandedInv
  <1>8. CallInv'
    BY <1>1, <1>2, <1>3, GivesUp DEF PairingInv, CallInv, Registered, serverVars
  <1> QED  BY <1>5, <1>6, <1>7, <1>8 DEF PairingInv

LEMMA CrashStep ==
  ASSUME PairingInv, Crash PROVE PairingInv'
  <1>1. client.pc # "idle" /\ client' = IdleClient /\ Fault /\ Given(client.call)
        /\ UNCHANGED <<serverVars, localVars>>
    BY DEF Crash
  <1>2. /\ client' \in Client /\ client'.call = NoCall /\ client'.mem = NoJournal
        /\ client'.pc = "idle" /\ client' = IdleClient'
    BY <1>1, Primitives DEF IdleClient, NoJournal, NoCall
  <1>3. /\ ServerType' /\ Kept /\ Spends /\ codes' = codes /\ faults' \in 0..MaxFault
        /\ \A d \in DeviceId : device'[d] = device[d]
    BY <1>1, Types, ClientAssumption DEF PairingInv, serverVars, ServerType, Kept,
       Dead, Accepted, Spends, Fault
  <1>4. StoreType' /\ JournalInv'
    BY <1>1, Types DEF PairingInv, StoreType, JournalInv, Sound, Whole, Registered,
       Accepted, serverVars, localVars
  <1>5. TransactionInv' /\ StepInv'
    BY <1>2 DEF TransactionInv, StepInv, Applying, Closing
  <1>6. PairingTypeOK'
    BY <1>1, <1>2, <1>3, <1>4, GivesUp DEF PairingTypeOK, ServerType, StoreType, Client
  <1>7. HandedInv'
    <2>1. Handed' \subseteq Handed
      BY <1>1, <1>2, Primitives, GivesUp DEF Handed, Accepted, serverVars, localVars
    <2> QED  BY <1>3, <2>1, HandedSame, Types DEF PairingInv, HandedInv
  <1>8. CallInv'
    BY <1>1, <1>2, Primitives, GivesUp DEF PairingInv, CallInv
  <1> QED  BY <1>4, <1>5, <1>6, <1>7, <1>8 DEF PairingInv

-----------------------------------------------------------------------------
(* The clock and the administrator *)

\* They accept no device and make no code good again; a new code is unlike all others.
LEMMA Environs ==
  ASSUME PairingInv, ServerEnvironment
  PROVE  /\ ServerType' /\ Kept
         /\ \A d \in DeviceId : /\ device'[d].code = device[d].code
                                /\ Accepted(d)' => Accepted(d)
                                /\ device'[d].status = "active" => device[d].status = "active"
         /\ \/ codes' = codes /\ Spends
            \/ /\ codes' = codes + 1
               /\ \E s \in Server : /\ code'[s].id = codes'
                                    /\ \A t \in Server \ {s} : code'[t] = code[t]
  <1> USE DEF PairingInv
  <1>1. CASE CreateCode
    <2>1. PICK s \in Server : code' = [code EXCEPT ![s] = [id |-> codes + 1, left |-> MaxAttempt]]
      BY <1>1 DEF CreateCode
    <2>2. codes + 1 \in Code /\ MaxAttempt \in 0..MaxAttempt
      BY <1>1, Types, ServerAssumption DEF CreateCode, ServerType, Code
    <2>3. /\ ServerType' /\ code'[s].id = codes + 1
          /\ \A t \in Server \ {s} : code'[t] = code[t]
      BY <1>1, <2>1, <2>2, Types DEF CreateCode, ServerType
    <2> QED  BY <1>1, <2>3 DEF CreateCode, Kept, Accepted, Dead
  <1>2. CASE CodeLapses
    <2>1. /\ code' \in [Server -> [id : Code, left : 0..MaxAttempt]] /\ Spends
          /\ codes' = codes /\ device' = device
      BY <1>2, Types, ServerAssumption DEF CodeLapses, Spends, ServerType
    <2> QED  BY <2>1, Types DEF ServerType, Kept, Accepted, Dead
  <1>3. CASE PendingLapses
    <2>1. PICK d \in DeviceId : /\ device[d].status = "pending"
                                /\ device' = [device EXCEPT ![d].status = "expired"]
      BY <1>3 DEF PendingLapses
    <2>2. code' = code /\ codes' = codes
      BY <1>3 DEF PendingLapses
    <2> QED  BY <2>1, <2>2, Types DEF ServerType, Device, Kept, Accepted, Dead, Spends
  <1>4. CASE ListDevices
    BY <1>4, Pruning, Types DEF ListDevices, ServerType, Spends
  <1>5. CASE Revoke
    <2>1. PICK d \in DeviceId : /\ device[d].status = "active"
                                /\ device' = [device EXCEPT ![d].status = "revoked"]
      BY <1>5 DEF Revoke
    <2>2. code' = code /\ codes' = codes
      BY <1>5 DEF Revoke
    <2> QED  BY <2>1, <2>2, Types DEF ServerType, Device, Kept, Accepted, Dead, Spends
  <1> QED  BY <1>1, <1>2, <1>3, <1>4, <1>5 DEF ServerEnvironment

LEMMA EnvironmentStep ==
  ASSUME PairingInv, Environment PROVE PairingInv'
  <1>1. /\ ServerType' /\ Kept
        /\ \A d \in DeviceId : device'[d].code = device[d].code /\ (Accepted(d)' => Accepted(d))
        /\ \/ codes' = codes /\ Spends
           \/ /\ codes' = codes + 1
              /\ \E s \in Server : /\ code'[s].id = codes'
                                   /\ \A t \in Server \ {s} : code'[t] = code[t]
    BY Environs DEF Environment
  <1>2. client' = client /\ late' = late /\ faults' = faults /\ UNCHANGED localVars
    BY DEF Environment
  <1>3. StoreType' /\ JournalInv' /\ TransactionInv' /\ StepInv'
    BY <1>1, <1>2, Observes, Types DEF PairingInv
  <1>4. PairingTypeOK'
    BY <1>1, <1>2, <1>3, Types DEF PairingInv, PairingTypeOK, ServerType, StoreType,
       Client
  <1>5. Handed' \subseteq Handed
    BY <1>1, <1>2 DEF Handed, localVars
  <1>6. HandedInv'
    <2>1. CASE codes' = codes /\ Spends
      BY <1>1, <1>5, <2>1, HandedSame, Types DEF PairingInv, HandedInv
    <2>2. CASE codes' = codes + 1 /\ \E s \in Server : /\ code'[s].id = codes'
                                                      /\ \A t \in Server \ {s} : code'[t] = code[t]
      <3>1. PICK s \in Server : code'[s].id = codes' /\ \A t \in Server \ {s} : code'[t] = code[t]
        BY <2>2
      <3>2. codes \in Nat /\ codes' = codes + 1
        BY <2>2, Types, ServerAssumption DEF PairingInv, ServerType, Code
      <3>3. \A d \in DeviceId : device'[d].code \in Nat /\ device'[d].code <= codes
        BY <1>1, Types, ServerAssumption DEF PairingInv, HandedInv, ServerType, Device,
           Code
      <3>4. \A d, e \in Handed' : device'[d].code = device'[e].code => d = e
        BY <1>1, <1>5 DEF PairingInv, HandedInv, Handed
      <3>5. \A d \in Handed' : device'[d].status # "unknown"
        BY <1>1, <1>5 DEF PairingInv, HandedInv, Handed, Kept
      <3>6. \A d \in Handed' : \A t \in Server : code'[t].left > 0 => code'[t].id # device'[d].code
        <4> TAKE d \in Handed'
        <4> TAKE t \in Server
        <4>1. d \in DeviceId /\ d \in Handed
          BY <1>5 DEF Handed
        <4>2. CASE t = s
          BY <4>1, <4>2, <3>1, <3>2, <3>3
        <4>3. CASE t # s
          BY <1>1, <4>1, <4>3, <3>1 DEF PairingInv, HandedInv
        <4> QED  BY <4>2, <4>3
      <3>7. \A t \in Server : code'[t].left > 0 => 0 < code'[t].id /\ code'[t].id <= codes'
        <4> TAKE t \in Server
        <4>1. CASE t = s
          BY <4>1, <3>1, <3>2
        <4>2. CASE t # s
          <5>1. code[t].id \in Nat
            BY Types, ServerAssumption DEF PairingInv, ServerType, Code
          <5> QED  BY <5>1, <4>2, <3>1, <3>2 DEF PairingInv, HandedInv
        <4> QED  BY <4>1, <4>2
      <3>8. \A t, u \in Server : /\ code'[t].left > 0 /\ code'[u].left > 0
                                 /\ code'[t].id = code'[u].id
                                 => t = u
        <4>1. \A t \in Server \ {s} : code'[t].left > 0 => code'[t].id # code'[s].id
          <5>1. \A t \in Server : code[t].id \in Nat
            BY Types, ServerAssumption DEF PairingInv, ServerType, Code
          <5> QED  BY <5>1, <3>1, <3>2 DEF PairingInv, HandedInv
        <4> QED  BY <4>1, <3>1 DEF PairingInv, HandedInv
      <3>9. \A d \in DeviceId : device'[d].code <= codes'
        BY <3>2, <3>3
      <3> QED  BY <3>4, <3>5, <3>6, <3>7, <3>8, <3>9 DEF HandedInv
    <2> QED  BY <1>1, <2>1, <2>2
  <1>7. CallInv'
    <2>1. \A d, s : Registered(d, s) => Registered(d, s)'
      BY <1>1 DEF Kept, Registered
    <2>2. client.call.kind = "confirm" /\ client.call.step = "ok" => Accepted(client.call.dev)'
      BY <1>1, <1>2, Primitives DEF PairingInv, CallInv, TransactionInv, StepInv,
         Sound, Registered, Kept, Applying
    <2>3. client.call.kind = "cancel" /\ client.call.step \in {"ok", "refused"}
            => Dead(client.call.dev)'
      BY <1>1, <1>2, Primitives DEF PairingInv, CallInv, TransactionInv, StepInv,
         Sound, Registered, Kept
    <2> QED  BY <1>2, <2>1, <2>2, <2>3 DEF PairingInv, CallInv
  <1> QED  BY <1>3, <1>4, <1>6, <1>7 DEF PairingInv

-----------------------------------------------------------------------------
(* The invariant *)

LEMMA Starts ==
  ASSUME Init
  PROVE  PairingInv /\ CredentialInv
  <1>1. 1 \in DeviceId /\ 0 \in Code
    BY ServerAssumption DEF DeviceId, Code
  <1>2. /\ device \in [DeviceId -> Device]
        /\ \A d \in DeviceId : device[d].code = 0 /\ device[d].status \in {"unknown", "active"}
        /\ \A d \in DeviceId : device[d].status = "active" => d = 1 /\ device[d].server \in Server
        /\ device[1].status = "unknown" => device[1].server = None
    <2>1. Unknown \in Device /\ Unknown.status = "unknown" /\ Unknown.code = 0 /\ Unknown.server = None
      BY <1>1 DEF Unknown, Device
    <2>2. CASE device = [d \in DeviceId |-> Unknown]
      BY <1>1, <2>1, <2>2
    <2>3. ASSUME NEW s \in Server,
                 device = [d \in DeviceId |->
                   IF d = 1 THEN [status |-> "active", server |-> s, code |-> 0] ELSE Unknown]
          PROVE  <1>2!1 /\ <1>2!2 /\ <1>2!3 /\ <1>2!4
      <3>1. [status |-> "active", server |-> s, code |-> 0] \in Device
        BY <1>1 DEF Device
      <3> QED  BY <1>1, <2>1, <2>3, <3>1
    <2> QED  BY <2>2, <2>3 DEF Init, ServerInit
  <1>3. /\ code \in [Server -> [id : Code, left : 0..MaxAttempt]]
        /\ \A s \in Server : code[s].left = 0
        /\ codes = 0
    BY <1>1, ServerAssumption DEF Init, ServerInit, NoCode, Code
  <1>4. /\ client = IdleClient /\ late = {} /\ faults = 0 /\ journal = NoJournal
        /\ settings = device[1].server /\ ca = settings /\ staged = None /\ backup = None
        /\ keyring = {d \in DeviceId : device[d].status = "active"}
        /\ pointer = IF 1 \in keyring THEN 1 ELSE NoDevice
    BY DEF Init
  <1>5. PairingTypeOK
    <2>1. ServerType
      BY <1>1, <1>2, <1>3 DEF ServerType
    <2>2. StoreType
      BY <1>1, <1>2, <1>4, Primitives DEF StoreType, Device
    <2>3. faults \in 0..MaxFault
      BY <1>4, ClientAssumption
    <2> QED  BY <1>4, <2>1, <2>2, <2>3, Types, Primitives
  <1>6. JournalInv
    BY <1>1, <1>2, <1>4, Primitives DEF JournalInv, Whole, Registered
  <1>7. TransactionInv /\ StepInv /\ CallInv
    BY <1>4, Primitives DEF TransactionInv, StepInv, CallInv, Applying, Closing
  <1>8. HandedInv
    BY <1>2, <1>3, <1>4, Primitives DEF HandedInv, Handed, Accepted
  <1>9. CredentialInv
    BY <1>4, Primitives DEF CredentialInv
  <1> QED  BY <1>5, <1>6, <1>7, <1>8, <1>9 DEF PairingInv

LEMMA PairingStep ==
  ASSUME PairingInv, [Next]_vars
  PROVE  PairingInv'
  <1>1. CASE UNCHANGED vars
    <2>1. UNCHANGED <<device, code, codes, settings, ca, staged, backup, pointer,
                      keyring,
                      journal, client, late, faults>>
      BY <1>1 DEF vars, serverVars, localVars
    <2>2. PairingTypeOK'
      BY <2>1 DEF PairingInv, PairingTypeOK
    <2>3. JournalInv' /\ TransactionInv' /\ StepInv'
      BY <2>1 DEF PairingInv, JournalInv, TransactionInv, StepInv, Sound, Whole, Old,
         New,
                  SameTransaction, Registered, Accepted
    <2>4. CallInv'
      BY <2>1 DEF PairingInv, CallInv, Registered, Accepted, Dead
    <2>5. HandedInv'
      BY <2>1 DEF PairingInv, HandedInv, Handed, Accepted
    <2> QED  BY <2>2, <2>3, <2>4, <2>5 DEF PairingInv
  <1>2. CASE ClientStep
    BY <1>2, CheckStep, SendPairStep, GotPairStep, GiveUpStep, RecordRegistrationStep,
       KeepCredentialStep, PointToNewStep, ApplyCaStep, InstallStep, ApplySettingsStep,
       RecordAppliedStep, SendConfirmStep, GotConfirmStep, RecordConfirmedStep,
       SendCancelStep, GotCancelStep, ForgetStep, UnpointStep, RestoreSettingsStep,
       RestoreCaStep, RestorePointerStep, CleanStep, CloseStep
    DEF ClientStep
  <1> QED
    BY <1>1, <1>2, StartPairStep, ServeCurrentStep, LoseReplyStep, RecoverStep,
       CrashStep,
       ServeLateStep, EnvironmentStep
    DEF Next

\* What the journal, the five local writes and the server's devices are at every
\* step of a pairing, of its undoing and of its recovery.
THEOREM PairingInvariant == Spec => []PairingInv
  BY Starts, PairingStep, PTL DEF Spec

\* Type correctness of both halves of pairing.
THEOREM PairingTyped == Spec => []PairingTypeOK
  <1>1. PairingInv => PairingTypeOK
    BY DEF PairingInv
  <1> QED  BY <1>1, PairingInvariant, PTL

\* Whatever failed or crashed: with no pairing open, address, certificate,
\* pointer and credential are those of one device of one server, or none.
THEOREM ConnectionStaysWhole == Spec => []ConnectionIsWhole
  <1>1. PairingInv => ConnectionIsWhole
    BY DEF PairingInv, JournalInv, Whole, Registered, ConnectionIsWhole
  <1> QED  BY <1>1, PairingInvariant, PTL

\* No code makes a second confirmed device.
THEOREM CodeMakesOneDevice == Spec => []OneDevicePerCode
  <1>1. PairingInv => OneDevicePerCode
    BY DEF PairingInv, HandedInv, Handed, Accepted, OneDevicePerCode
  <1> QED  BY <1>1, PairingInvariant, PTL

-----------------------------------------------------------------------------
(* The connection of the computer *)

LEMMA ConnectionStep ==
  ASSUME PairingInv, [Next]_vars, Connection' # Connection
  PROVE  journal'.phase = "confirmed" /\ Accepted(journal'.dev)
  <1> USE DEF PairingInv
  <1>1. UNCHANGED <<pointer, journal>> => Connection' = Connection
    BY DEF Connection
  <1>2. /\ ~UNCHANGED vars
        /\ ~ServeCurrent /\ ~LoseReply /\ ~Crash /\ ~ServeLate /\ ~Environment /\ ~StartPair
        /\ ~SendPair /\ ~GotPair /\ ~GiveUp /\ ~SendConfirm /\ ~GotConfirm /\ ~SendCancel
        /\ ~GotCancel
    BY <1>1, Zenon DEF vars, localVars, ServeCurrent, LoseReply, Crash, ServeLate,
       Environment,
       StartPair, SendPair, GotPair, GiveUp, SendConfirm, GotConfirm, SendCancel,
       GotCancel
  <1>3. ~KeepCredential /\ ~ApplyCa /\ ~Install /\ ~ApplySettings /\ ~Forget
        /\ ~RestoreSettings /\ ~RestoreCa /\ ~Clean
    BY <1>1, Zenon DEF KeepCredential, ApplyCa, Install, ApplySettings, Forget,
       RestoreSettings, RestoreCa, Clean
  <1>4. ~Check
    BY Primitives, Types DEF Check, Connection, TransactionInv, StepInv, Old, Sound
  <1>5. ~RecordRegistration
    BY Primitives DEF RecordRegistration, Connection, TransactionInv, StepInv,
       SameTransaction,
       Sound, Undoing, Closing
  <1>6. ~PointToNew
    BY Primitives DEF PointToNew, Connection, TransactionInv, StepInv, Undoing, Closing
  <1>7. ~RecordApplied
    <2> SUFFICES ASSUME RecordApplied PROVE FALSE
      OBVIOUS
    <2>1. PICK m \in Journal :
            /\ m.phase = "applied" /\ m.pointer = client.mem.pointer /\ m # NoJournal
            /\ pointer' = pointer /\ journal' \in {journal, m}
      BY Marked, Types DEF RecordApplied
    <2>2. /\ journal # NoJournal /\ journal.phase # "confirmed"
          /\ journal.pointer = client.mem.pointer
      BY DEF RecordApplied, TransactionInv, StepInv, SameTransaction, Undoing, Closing
    <2> QED  BY <2>1, <2>2 DEF Connection
  <1>8. CASE RecordConfirmed
    <2>1. PICK m \in Journal :
            /\ m.phase = "confirmed" /\ m.dev = client.mem.dev
            /\ pointer' = pointer /\ journal' \in {journal, m}
      BY <1>8, Marked, Types DEF RecordConfirmed
    <2>2. journal' = m
      BY <1>1, <2>1
    <2>3. Accepted(client.mem.dev)
      BY <1>8 DEF RecordConfirmed, StepInv
    <2> QED  BY <2>1, <2>2, <2>3
  <1>9. ~Unpoint
    BY Primitives DEF Unpoint, Connection, TransactionInv, StepInv, Undoing, Closing
  <1>10. ~RestorePointer
    BY Primitives DEF RestorePointer, RestoredPointer, Connection, TransactionInv, Old
  <1>11. ~Close
    BY Primitives DEF Close, Connection, TransactionInv, StepInv, Closing, New, Old,
       SameTransaction
  <1>12. ~Recover
    BY DEF Recover, Connection
  <1> QED
    BY <1>2, <1>3, <1>4, <1>5, <1>6, <1>7, <1>8, <1>9, <1>10, <1>11, <1>12
    DEF Next, ClientStep

\* Only the record of a confirmation changes the connection the computer will
\* use, and only to a device the server has confirmed.
THEOREM ConfirmationSwitches == Spec => ConnectionSwitches
  <1>1. PairingInv /\ [Next]_vars =>
          [Connection' # Connection =>
             /\ journal'.phase = "confirmed"
             /\ device[journal'.dev].status \in {"active", "revoked"}]_vars
    BY ConnectionStep DEF Accepted
  <1> QED  BY <1>1, PairingInvariant, PTL DEF Spec, ConnectionSwitches

-----------------------------------------------------------------------------
(* Credentials, where Credential Manager is in order *)

\* A step of the process that deletes no credential and asks for nothing.
Quiet == /\ UNCHANGED <<device, late>> /\ keyring \subseteq keyring'
         /\ client'.call \in {NoCall, client.call}
         /\ client'.pc # "forget"

LEMMA QuietStep ==
  ASSUME PairingInv, CredentialInv, Quiet
  PROVE  CredentialInv'
  BY Primitives DEF CredentialInv, Quiet, Dead

LEMMA QuietMoves ==
  ASSUME PairingInv,
         \/ Check \/ GotPair \/ GiveUp \/ RecordRegistration \/ KeepCredential
         \/ ApplyCa \/ Install \/ ApplySettings \/ GotConfirm
         \/ Unpoint \/ RestoreSettings \/ RestoreCa \/ RestorePointer \/ Clean \/ Close
  PROVE  Quiet
  <1> DEFINE GoesOn == \E step \in Step \ {"forget"} : Goto(step)
  <1>1. Stop => client'.call = NoCall /\ client'.pc # "forget"
    BY Primitives DEF Stop
  <1>2. GoesOn => client'.call = NoCall /\ client'.pc # "forget"
    BY Goes, Types DEF PairingInv, Went
  <1>3. CASE Check \/ GiveUp \/ RecordRegistration \/ KeepCredential \/ Install
    BY <1>1, <1>2, <1>3 DEF Check, GiveUp, RecordRegistration, KeepCredential, Install,
       ApplyFails, serverVars, localVars, Step, Quiet
  <1>4. CASE ApplyCa \/ ApplySettings \/ GotConfirm \/ Unpoint
    BY <1>1, <1>2, <1>4 DEF ApplyCa, ApplySettings, GotConfirm, Unpoint,
       ApplyFails, Confirmed, serverVars, localVars, Step, Quiet
  <1>5. CASE RestoreSettings \/ RestoreCa \/ RestorePointer \/ Clean \/ Close
    BY <1>1, <1>2, <1>5 DEF RestoreSettings, RestoreCa, RestorePointer, Clean, Close,
       serverVars, Step, Quiet
  <1>6. CASE GotPair
    <2>1. client'.call = NoCall /\ client'.pc # "forget"
      BY <1>2, <1>6, Types DEF GotPair, Step, PairingInv, Client
    <2> QED  BY <1>6, <2>1 DEF GotPair, serverVars, localVars, Quiet
  <1> QED  BY <1>3, <1>4, <1>5, <1>6

LEMMA QuietOthers ==
  ASSUME PairingInv,
         StartPair \/ PointToNew \/ RecordApplied \/ RecordConfirmed \/ Recover
  PROVE  Quiet
  <1>1. CASE StartPair
    BY <1>1, Primitives DEF StartPair, IdleClient, serverVars, Quiet
  <1>2. CASE PointToNew
    <2>1. Goto("cancel") => client'.call = NoCall /\ client'.pc # "forget"
      BY Goes, Types DEF PairingInv, Went, Step
    <2> QED  BY <1>2, <2>1, Types DEF PointToNew, serverVars, Quiet, PairingInv, Client
  <1>3. CASE RecordApplied
    BY <1>3, Types DEF RecordApplied, serverVars, Quiet, PairingInv, Client
  <1>4. CASE RecordConfirmed
    <2>1. Stop => client'.call = NoCall /\ client'.pc # "forget"
      BY Primitives DEF Stop
    <2> QED  BY <1>4, <2>1, Types DEF RecordConfirmed, serverVars, Quiet, PairingInv,
         Client
  <1>5. CASE Recover
    BY <1>5, Primitives DEF Recover, Resume, IdleClient, serverVars, Quiet
  <1> QED  BY <1>1, <1>2, <1>3, <1>4, <1>5

\* A request changes what the server knows only as it is served.
LEMMA Unforgotten ==
  ASSUME PairingInv, CredentialInv, Kept, UNCHANGED localVars, ServerType',
         client'.mem = client.mem, client'.pc = client.pc, NEW c \in Call,
         c \in late \cup {client.call}, Accepts(c),
         \A l \in late' \cup {client'.call} :
           Unanswered(l) /\ l.kind = "confirm" =>
             \/ l \in late \cup {client.call}
             \/ c.kind = "confirm" /\ Unanswered(c) /\ l.dev = c.dev
  PROVE  CredentialInv'
  <1>1. keyring' = keyring /\ (\A d \in DeviceId : Dead(d) => Dead(d)')
    <2>1. \A d \in DeviceId : Dead(d) => device[d].status # "unknown"
      BY DEF Dead
    <2> QED  BY <2>1 DEF localVars, Kept
  <1>2. /\ \A l \in late \cup {client.call} : l.kind = "confirm" => l.dev \in DeviceId
        /\ client.pc = "forget" => client.mem.dev \in DeviceId
    BY Types, Primitives DEF PairingInv, CallInv, StepInv, Applying, Client, Journal
  <1>3. \A d \in DeviceId : device'[d].status = "active" => d \in keyring'
    BY <1>1 DEF CredentialInv, Accepts, Dead, Unanswered
  <1>4. \A l \in late' \cup {client'.call} :
           l.kind = "confirm" /\ Unanswered(l) => l.dev \in keyring' \/ Dead(l.dev)'
    <2> SUFFICES ASSUME NEW l \in late' \cup {client'.call}, l.kind = "confirm", Unanswered(l)
                 PROVE  l.dev \in keyring \/ Dead(l.dev)'
      BY <1>1
    <2>1. PICK m \in late \cup {client.call} :
             m.kind = "confirm" /\ Unanswered(m) /\ m.dev = l.dev
      OBVIOUS
    <2>2. l.dev \in DeviceId /\ (l.dev \in keyring \/ Dead(l.dev))
      <3>1. m.dev \in keyring \/ Dead(m.dev)
        BY <2>1 DEF CredentialInv
      <3> QED  BY <1>2, <2>1, <3>1
    <2> QED  BY <2>2, <1>1
  <1>5. client'.pc = "forget" => Dead(client.mem.dev)'
    <2>1. client.pc = "forget" => Dead(client.mem.dev)
      BY DEF CredentialInv
    <2> QED  BY <1>1, <1>2, <2>1
  <1> QED  BY <1>3, <1>4, <1>5 DEF CredentialInv

LEMMA CredentialRequests ==
  ASSUME ~KeyringFails, PairingInv, CredentialInv,
         SendPair \/ SendConfirm \/ SendCancel \/ GotCancel
  PROVE  CredentialInv'
  <1>1. UNCHANGED <<device, late, keyring>>
    BY DEF SendPair, SendConfirm, SendCancel, GotCancel, serverVars, localVars
  <1>2. ASSUME client'.call \in {NoCall, client.call}, client'.pc # "forget"
        PROVE  CredentialInv'
    BY <1>1, <1>2, QuietStep DEF Quiet
  <1>3. ASSUME NEW kind, NEW c, Send(kind, c), client.pc # "forget",
               kind = "confirm" => client.mem.dev \in keyring
        PROVE  CredentialInv'
    <2>1. /\ client'.pc = client.pc /\ client'.call.kind = kind
          /\ client'.call.dev = client.mem.dev
      BY <1>3, Types DEF Send, PairingInv, Client
    <2> QED  BY <1>1, <1>3, <2>1 DEF CredentialInv, Dead
  <1>4. CASE SendPair
    BY <1>3, <1>4 DEF SendPair
  <1>5. CASE SendConfirm
    <2>1. Goto("cancel") => client'.call = NoCall /\ client'.pc = "cancel"
      BY Goes, Types DEF PairingInv, Went, Step
    <2> QED  BY <1>2, <1>3, <1>5, <2>1 DEF SendConfirm, CredentialRead
  <1>6. CASE SendCancel
    <2>1. client.mode # "begin" => CredentialRead
      BY <1>6 DEF SendCancel, PairingInv, StepInv, CredentialRead
    <2>2. Send("cancel", 0) \/ Stop
      BY <1>6, <2>1 DEF SendCancel
    <2>3. Stop => client'.call = NoCall /\ client'.pc # "forget"
      BY Primitives DEF Stop
    <2> QED  BY <1>2, <1>3, <1>6, <2>2, <2>3 DEF SendCancel
  <1>7. CASE GotCancel
    <2>1. /\ Stop => client'.call = NoCall /\ client'.pc # "forget"
          /\ Goto("finish") => client'.call = NoCall /\ client'.pc = "finish"
      BY Primitives, Goes, Types DEF Stop, PairingInv, Went, Step
    <2>2. CASE Final(Reply) /\ Goto("forget")
      <3>1. Dead(client.mem.dev)
        BY <1>7, <2>2 DEF GotCancel, Answered, Calling, Final, Reply, PairingInv,
           CallInv
      <3>2. client'.call = NoCall /\ client'.mem = client.mem
        BY <2>2, Goes, Types DEF PairingInv, Went, Step
      <3> QED  BY <1>1, <3>1, <3>2, Primitives DEF CredentialInv, Dead
    <2> QED  BY <1>2, <1>7, <2>1, <2>2 DEF GotCancel
  <1> QED  BY <1>4, <1>5, <1>6, <1>7

LEMMA CredentialForget ==
  ASSUME PairingInv, CredentialInv, Forget
  PROVE  CredentialInv'
  <1>1. /\ UNCHANGED <<device, late>> /\ Dead(client.mem.dev)
        /\ \A d \in keyring : d \in keyring' \/ d = client.mem.dev
    BY DEF Forget, serverVars, CredentialInv
  <1>2. client'.call = NoCall /\ client'.pc = "unpoint"
    BY Goes, Types DEF Forget, PairingInv, Went, Step
  <1> QED  BY <1>1, <1>2, Primitives DEF CredentialInv, Dead

LEMMA CredentialServed ==
  ASSUME PairingInv, CredentialInv, ServeCurrent \/ ServeLate \/ LoseReply \/ Environment
  PROVE  CredentialInv'
  <1> USE DEF PairingInv
  <1>1. CASE ServeCurrent
    <2>1. PICK c \in Call, a \in Call :
            /\ c = client.call /\ a \in After(c) /\ Serve(c, a) /\ c.kind # "none"
            /\ client' = [client EXCEPT !.call = a]
      BY <1>1, Types DEF ServeCurrent, Calling, Client, After, Call
    <2>2. c.server \in Server /\ (c.kind # "pair" => c.dev \in DeviceId)
      BY <2>1, Types, Primitives DEF CallInv, TransactionInv, StepInv, Sound,
         Registered,
         Client, Call, Applying
    <2>3. /\ ServerType' /\ Kept /\ Accepts(c) /\ Unanswered(c) /\ a.kind = c.kind
          /\ c.kind # "pair" => a.dev = c.dev
      BY <2>1, <2>2, Served, Types
    <2>4. /\ client'.mem = client.mem /\ client'.pc = client.pc /\ client'.call = a
          /\ UNCHANGED localVars /\ late' = late
      BY <1>1, <2>1, Types DEF ServeCurrent, Client
    <2> QED  BY <2>1, <2>3, <2>4, Unforgotten
  <1>2. CASE ServeLate
    <2>1. PICK c \in late, a \in Call :
            /\ c \in Call /\ a \in After(c) /\ Serve(c, a)
            /\ late' = (late \ {c}) \cup (IF Unanswered(a) THEN {a} ELSE {})
      <3>1. \A c \in late : c \in Call /\ After(c) \subseteq Call
        BY Types DEF After, Call
      <3> QED  BY <1>2, <3>1 DEF ServeLate
    <2>2. /\ ServerType' /\ Kept /\ Accepts(c) /\ Unanswered(c) /\ a.kind = c.kind
          /\ c.kind # "pair" => a.dev = c.dev
      BY <2>1, Served, Types DEF CallInv
    <2>3. client' = client /\ UNCHANGED localVars
      BY <1>2 DEF ServeLate
    <2> QED  BY <2>1, <2>2, <2>3, Unforgotten
  <1>3. CASE LoseReply
    <2>1. /\ client'.mem = client.mem /\ client'.pc = client.pc
          /\ client'.call = [client.call EXCEPT !.step = "lost"] /\ client.call \in Call
          /\ UNCHANGED <<serverVars, localVars>> /\ Given(client.call)
      BY <1>3, Types DEF LoseReply, Client
    <2>2. ~ Unanswered(client'.call)
      BY <2>1 DEF Unanswered, Call
    <2>3. ServerType' /\ Kept /\ Accepts(client.call)
      BY <2>1, Types DEF serverVars, ServerType, Kept, Accepts, Accepted, Dead
    <2> QED  BY <2>1, <2>2, <2>3, GivesUp, Unforgotten
  <1>4. CASE Environment
    <2>1. client' = client /\ UNCHANGED localVars /\ late' = late /\ client.call \in Call
      BY <1>4, Types DEF Environment, Client
    <2>2. ServerType' /\ Kept /\ Accepts(client.call)
      BY <1>4, Environs DEF Environment, Accepts
    <2> QED  BY <2>1, <2>2, Unforgotten
  <1> QED  BY <1>1, <1>2, <1>3, <1>4

LEMMA CredentialCrash ==
  ASSUME PairingInv, CredentialInv, Crash
  PROVE  CredentialInv'
  <1>1. /\ client'.call = NoCall /\ client'.pc = "idle"
        /\ UNCHANGED <<device, keyring>> /\ Given(client.call)
    BY Primitives DEF Crash, serverVars, localVars
  <1> QED  BY <1>1, GivesUp, Primitives DEF CredentialInv, Dead

\* Where Credential Manager is in order, the computer holds the credential of
\* every device the server has confirmed, and no late request changes that.
THEOREM ServerAgrees == ASSUME ~KeyringFails PROVE Spec => []AgreesWithServer
  <1>1. PairingInv /\ CredentialInv /\ [Next]_vars => CredentialInv'
    <2> SUFFICES ASSUME PairingInv, CredentialInv, [Next]_vars PROVE CredentialInv'
      OBVIOUS
    <2>1. CASE UNCHANGED vars
      BY <2>1 DEF vars, serverVars, localVars, CredentialInv, Dead
    <2>2. CASE ClientStep
      BY <2>2, QuietStep, QuietMoves, QuietOthers, CredentialRequests, CredentialForget
      DEF ClientStep
    <2> QED
      BY <2>1, <2>2, QuietStep, QuietOthers, CredentialServed, CredentialCrash DEF Next
  <1>2. CredentialInv => AgreesWithServer
    BY DEF CredentialInv, AgreesWithServer
  <1> QED  BY <1>1, <1>2, Starts, PairingInvariant, PTL DEF Spec
=============================================================================
