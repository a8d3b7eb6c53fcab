------------------------------- MODULE Pairing -------------------------------
(***************************************************************************)
(* Pairing a computer with a server (services/client_pairing_service.py    *)
(* and the pairing half of services/api_client.py) over PairingServer: one *)
(* local transaction over five stores (connection settings, CA             *)
(* certificate, Credential Manager, device pointer, pairing journal) and   *)
(* one remote registration, with a journal that lets the next start finish *)
(* or undo it.                                                             *)
(*                                                                         *)
(* The whole transaction runs under a lock between processes, so there is  *)
(* one process at a time; a crash may fall between any two durable writes. *)
(* A certificate is compared by its hash: it is the name of its server.    *)
(* The two settings (URL and certificate path) are the server they name.   *)
(***************************************************************************)
EXTENDS PairingServer

CONSTANTS
  MaxFault,       \* bound on crashes, lost replies and failed local writes
  KeyringFails    \* whether Credential Manager may be out of order

ASSUME ClientAssumption == MaxFault \in Nat /\ KeyringFails \in BOOLEAN

VARIABLES
  settings,   \* the server of the saved connection
  ca,         \* the saved CA certificate
  staged,     \* the transaction's copy of the new certificate
  backup,     \* the transaction's backup of the saved certificate
  pointer,    \* the device the computer uses (api-device.json)
  keyring,    \* the devices whose credential is in Credential Manager
  journal,    \* the pairing journal on disk
  client,     \* the process: its next step, its journal and its request
  late,       \* requests the client has given up that the server may still serve
  faults      \* number of faults so far

localVars == <<settings, ca, staged, backup, pointer, keyring, journal>>
vars == <<serverVars, localVars, client, late, faults>>

\* phase; the new server and device; what the stores held before; whether the
\* transaction has a certificate of its own and a name for the backup.
NoJournal == [phase |-> "none", server |-> None, dev |-> NoDevice,
              settings |-> None, ca |-> None, pointer |-> NoDevice,
              staged |-> FALSE, backup |-> FALSE]

Journal == [phase : {"none", "prepared", "registered", "applied", "confirmed"},
            server : Server \cup {None}, dev : DeviceId \cup {NoDevice},
            settings : Server \cup {None}, ca : Server \cup {None},
            pointer : DeviceId \cup {NoDevice}, staged : BOOLEAN, backup : BOOLEAN]

\* mode: inside begin_pair, after it, or recovering an earlier attempt.
IdleClient == [pc |-> "idle", mode |-> "begin", mem |-> NoJournal, call |-> NoCall]

Step == {"idle", "check", "pair", "register", "keep", "point", "apply", "install",
         "settings", "applied", "confirm", "mark", "finish", "cancel", "forget",
         "unpoint", "restore", "restoreCa", "restorePointer", "clean", "close"}

Init ==
  /\ ServerInit
  /\ settings = device[1].server /\ ca = settings
  /\ keyring = {d \in DeviceId : device[d].status = "active"}
  /\ pointer = IF 1 \in keyring THEN 1 ELSE NoDevice
  /\ staged = None /\ backup = None /\ journal = NoJournal
  /\ client = IdleClient
  /\ late = {}
  /\ faults = 0

mem == client.mem
At(step) == client.pc = step
Goto(step) == client' = [client EXCEPT !.pc = step, !.call = NoCall]
Stop == client' = IdleClient        \* an exception leaves the transaction
Fault == faults < MaxFault /\ faults' = faults + 1

-----------------------------------------------------------------------------
(* Requests *)

Send(kind, c) == client' = [client EXCEPT !.call =
                   [kind |-> kind, dev |-> mem.dev, server |-> mem.server,
                    code |-> c, step |-> "sent"]]
Calling == client.call.kind # "none"
Answered == Calling /\ ~Unanswered(client.call)
Reply == client.call.step

ServeCurrent ==
  /\ Calling
  /\ \E a \in After(client.call) : /\ Serve(client.call, a)
                                  /\ client' = [client EXCEPT !.call = a]
  /\ UNCHANGED <<localVars, late, faults>>

\* A request that timed out is served all the same, or never.
ServeLate ==
  /\ \E c \in late : \E a \in After(c) :
       /\ Serve(c, a)
       /\ late' = (late \ {c}) \cup (IF Unanswered(a) THEN {a} ELSE {})
  /\ UNCHANGED <<localVars, client, faults>>

Given(c) == late' = IF c.kind # "none" /\ Unanswered(c) THEN late \cup {c} ELSE late

LoseReply ==
  /\ Calling /\ Reply # "lost"
  /\ Given(client.call)
  /\ client' = [client EXCEPT !.call.step = "lost"]
  /\ Fault
  /\ UNCHANGED <<serverVars, localVars>>

\* GET /v1/session succeeds only for a confirmed device.
SessionActive == device[mem.dev].status = "active"

-----------------------------------------------------------------------------
(* Pairing *)

Verified(j) == ca = j.server \/ (j.staged /\ staged = j.server)

\* _pair_client_locked, up to the certificate copy.  The user may choose the
\* saved certificate itself, which is not copied.
StartPair ==
  /\ At("idle") /\ journal = NoJournal
  /\ \E s \in Server, own \in BOOLEAN :
       /\ own => ca = s
       /\ staged' = IF own THEN None ELSE s
       /\ client' = [IdleClient EXCEPT !.pc = "check", !.mem =
            [NoJournal EXCEPT !.phase = "prepared", !.server = s,
               !.settings = settings, !.ca = ca, !.pointer = pointer,
               !.staged = ~own, !.backup = ~own /\ ca # None]]
  /\ backup' = None
  /\ UNCHANGED <<serverVars, settings, ca, pointer, keyring, journal, late, faults>>

\* The health check, then the journal before anything remote or local changes.
Check ==
  /\ At("check")
  /\ \/ journal' = mem /\ Goto("pair") /\ UNCHANGED faults
     \/ Goto("restore") /\ Fault /\ UNCHANGED journal
  /\ UNCHANGED <<serverVars, settings, ca, staged, backup, pointer, keyring, late>>

\* The user has typed a code the administrator created for this server.
SendPair ==
  /\ At("pair") /\ ~Calling
  /\ \E c \in 1..MaxCode : c <= codes /\ Send("pair", c)
  /\ UNCHANGED <<serverVars, localVars, late, faults>>

GotPair ==
  /\ At("pair") /\ Answered
  /\ IF Reply = "ok"
     THEN client' = [client EXCEPT !.pc = "register", !.call = NoCall,
                       !.mem.phase = "registered", !.mem.dev = client.call.dev]
     ELSE Goto("restore")
  /\ UNCHANGED <<serverVars, localVars, late, faults>>

\* No code can be typed before one exists: the user gives up.
GiveUp ==
  /\ At("pair") /\ ~Calling
  /\ Goto("restore")
  /\ UNCHANGED <<serverVars, localVars, late, faults>>

\* before_local_persist, keyring.set_password and _write_device_pointer.
RecordRegistration ==
  /\ At("register")
  /\ \/ journal' = mem /\ Goto("keep") /\ UNCHANGED faults
     \/ Goto("cancel") /\ Fault /\ UNCHANGED journal
  /\ UNCHANGED <<serverVars, settings, ca, staged, backup, pointer, keyring, late>>

KeepCredential ==
  /\ At("keep")
  /\ \/ keyring' = keyring \cup {mem.dev} /\ Goto("point") /\ UNCHANGED faults
     \/ Goto("cancel") /\ Fault /\ UNCHANGED keyring
  /\ UNCHANGED <<serverVars, settings, ca, staged, backup, pointer, journal, late>>

PointToNew ==
  /\ At("point")
  /\ \/ /\ pointer' = mem.dev
        /\ client' = [client EXCEPT !.pc = "apply", !.mode = "pair"]
        /\ UNCHANGED faults
     \/ Goto("cancel") /\ Fault /\ UNCHANGED pointer
  /\ UNCHANGED <<serverVars, settings, ca, staged, backup, keyring, journal, late>>

-----------------------------------------------------------------------------
(* _apply_new_local_state *)

\* Before the confirmation a failure is followed by a cancellation; after it,
\* the journal is left for the next start.
ApplyFails == IF mem.phase = "confirmed" THEN Stop ELSE Goto("cancel")

\* Mutant of BackUp: the saved certificate is replaced without a backup.
OverWrite == UNCHANGED <<ca, backup>>

BackUp == IF ca # None /\ backup = None THEN backup' = ca /\ ca' = None
                                       ELSE UNCHANGED <<ca, backup>>

ApplyCa ==
  /\ At("apply")
  /\ \/ /\ ca = mem.server
        /\ Goto("settings")
        /\ UNCHANGED <<ca, backup, faults>>
     \/ /\ ca # mem.server
        /\ mem.staged /\ staged = mem.server
        /\ ca = None \/ (ca = mem.ca /\ mem.backup)
        /\ BackUp
        /\ Goto("install")
        /\ UNCHANGED faults
     \/ /\ \/ ca # mem.server /\ ~(mem.staged /\ staged = mem.server)
           \/ ca \notin {None, mem.server} /\ ~(ca = mem.ca /\ mem.backup)
        /\ ApplyFails
        /\ UNCHANGED <<ca, backup, faults>>
     \/ ApplyFails /\ Fault /\ UNCHANGED <<ca, backup>>
  /\ UNCHANGED <<serverVars, settings, staged, pointer, keyring, journal, late>>

Install ==
  /\ At("install")
  /\ \/ ca' = mem.server /\ staged' = None /\ Goto("settings") /\ UNCHANGED faults
     \/ ApplyFails /\ Fault /\ UNCHANGED <<ca, staged>>
  /\ UNCHANGED <<serverVars, settings, backup, pointer, keyring, journal, late>>

ApplySettings ==
  /\ At("settings")
  /\ settings' \in {settings, mem.server}
  /\ \/ /\ settings' = mem.server
        /\ Goto(IF mem.phase = "confirmed" THEN "clean" ELSE "applied")
        /\ UNCHANGED faults
     \/ ApplyFails /\ Fault
  /\ UNCHANGED <<serverVars, ca, staged, backup, pointer, keyring, journal, late>>

RecordApplied ==
  /\ At("applied")
  /\ LET m == [mem EXCEPT !.phase = "applied"] IN
     \/ /\ journal' = m
        /\ client' = [client EXCEPT !.pc = "confirm", !.mem = m]
        /\ UNCHANGED faults
     \/ /\ client' = [client EXCEPT !.pc = "cancel", !.mem = m]
        /\ Fault /\ UNCHANGED journal
  /\ UNCHANGED <<serverVars, settings, ca, staged, backup, pointer, keyring, late>>

-----------------------------------------------------------------------------
(* confirm_pairing *)

CredentialRead == pointer = mem.dev /\ mem.dev \in keyring

SendConfirm ==
  /\ At("confirm") /\ ~Calling
  /\ \/ CredentialRead /\ Send("confirm", 0)
     \/ (~CredentialRead \/ KeyringFails) /\ Goto("cancel")
  /\ UNCHANGED <<serverVars, localVars, late, faults>>

Confirmed == Goto(IF client.mode = "recover" THEN "finish" ELSE "mark")

\* Mutant of SaysConfirmed: an answer that did not come is not a refusal.
NotRefused(reply) == reply # "refused"

SaysConfirmed(reply) == reply = "ok"

\* A confirmation without an answer is looked for in the session.
GotConfirm ==
  /\ At("confirm") /\ Answered
  /\ \/ /\ SaysConfirmed(Reply) \/ (SessionActive /\ CredentialRead)
        /\ Confirmed
        /\ UNCHANGED faults
     \/ /\ ~SaysConfirmed(Reply)
        /\ ~SessionActive \/ ~CredentialRead \/ KeyringFails
        /\ Goto("cancel")
        /\ UNCHANGED faults
     \/ ~SaysConfirmed(Reply) /\ Goto("cancel") /\ Fault
  /\ UNCHANGED <<serverVars, localVars, late>>

\* The first record of the confirmation is still inside the try block: if it
\* fails the server is asked again; the second one is final.
RecordConfirmed ==
  /\ client.pc \in {"mark", "finish"}
  /\ LET m == [mem EXCEPT !.phase = "confirmed"] IN
     \/ /\ journal' = m
        /\ client' = [client EXCEPT !.pc = IF At("mark") THEN "finish" ELSE "apply",
                                    !.mem = m]
        /\ UNCHANGED faults
     \/ /\ IF At("mark") THEN client' = [client EXCEPT !.pc = "cancel", !.mem = m]
                         ELSE Stop
        /\ Fault /\ UNCHANGED journal
  /\ UNCHANGED <<serverVars, settings, ca, staged, backup, pointer, keyring, late>>

-----------------------------------------------------------------------------
(* cancel_pairing, and the cancellation inside begin_pair, which still holds *)
(* the credential                                                            *)

SendCancel ==
  /\ At("cancel") /\ ~Calling
  /\ IF client.mode = "begin" THEN Send("cancel", 0)
     ELSE \/ client.mode = "pair" /\ ~Verified(mem) /\ Stop
          \/ /\ client.mode = "pair" => Verified(mem)
             /\ \/ CredentialRead /\ Send("cancel", 0)
                \/ (~CredentialRead \/ KeyringFails) /\ Goto("forget")
  /\ UNCHANGED <<serverVars, localVars, late, faults>>

\* Mutant of Final: a conflict is taken for a refusal.
FinalUnlessLost(reply) == reply \in {"ok", "refused", "conflict"}

Final(reply) == reply \in {"ok", "refused"}

GotCancel ==
  /\ At("cancel") /\ Answered
  /\ \/ Final(Reply) /\ Goto("forget") /\ UNCHANGED faults
     \/ /\ ~Final(Reply)
        /\ \/ client.mode = "begin" \/ Reply = "lost" \/ ~SessionActive
           \/ ~CredentialRead \/ KeyringFails
        /\ Stop
        /\ UNCHANGED faults
     \/ /\ client.mode # "begin" /\ Reply = "conflict" /\ SessionActive /\ CredentialRead
        /\ \/ Goto("finish") /\ UNCHANGED faults
           \/ Stop /\ Fault
  /\ UNCHANGED <<serverVars, localVars, late>>

\* _discard_local_pairing: the credential, whose deletion may fail unnoticed...
Forget ==
  /\ At("forget")
  /\ \/ keyring' = keyring \ {mem.dev}
     \/ KeyringFails /\ UNCHANGED keyring
  /\ Goto("unpoint")
  /\ UNCHANGED <<serverVars, settings, ca, staged, backup, pointer, journal, late, faults>>

\* ... and the pointer to it.  The process that changed the pointer puts the
\* previous one back.
Unpoint ==
  /\ At("unpoint")
  /\ \/ /\ pointer' = IF client.mode # "recover" THEN mem.pointer
                      ELSE IF pointer = mem.dev THEN NoDevice ELSE pointer
        /\ Goto("restore")
        /\ UNCHANGED faults
     \/ /\ pointer' = IF pointer = mem.dev THEN NoDevice ELSE pointer
        /\ IF client.mode = "begin" THEN Goto("restore") ELSE Stop
        /\ Fault
  /\ UNCHANGED <<serverVars, settings, ca, staged, backup, keyring, journal, late>>

-----------------------------------------------------------------------------
(* _rollback_local_state and _cleanup_completed_journal *)

RestoreSettings ==
  /\ At("restore")
  /\ settings' \in {settings, mem.settings}
  /\ \/ settings' = mem.settings /\ Goto("restoreCa") /\ UNCHANGED faults
     \/ Stop /\ Fault
  /\ UNCHANGED <<serverVars, ca, staged, backup, pointer, keyring, journal, late>>

HasBackup == mem.backup /\ backup = mem.ca

RestoreCa ==
  /\ At("restoreCa")
  /\ \/ /\ mem.ca # None /\ HasBackup
        /\ \/ ca' = backup /\ backup' = None /\ Goto("restorePointer") /\ UNCHANGED faults
           \/ ca' \in {ca, None} /\ Stop /\ Fault /\ UNCHANGED backup
     \/ /\ mem.ca # None /\ ~HasBackup
        /\ IF ca = mem.ca THEN Goto("restorePointer") ELSE Stop
        /\ UNCHANGED <<ca, backup, faults>>
     \/ /\ mem.ca = None
        /\ \/ /\ ca \in {None, mem.server}
              /\ ca' = None
              /\ Goto("restorePointer")
              /\ UNCHANGED faults
           \/ ca \notin {None, mem.server} /\ Stop /\ UNCHANGED <<ca, faults>>
           \/ Stop /\ Fault /\ UNCHANGED ca
        /\ UNCHANGED backup
  /\ UNCHANGED <<serverVars, settings, staged, pointer, keyring, journal, late>>

\* Mutant of RestoredPointer: the pointer stays where it is.
KeptPointer == pointer

RestoredPointer == mem.pointer

RestorePointer ==
  /\ At("restorePointer")
  /\ \/ /\ pointer \in {NoDevice, mem.pointer, mem.dev}
        /\ pointer' = RestoredPointer
        /\ Goto("clean")
        /\ UNCHANGED faults
     \/ Stop /\ Fault /\ UNCHANGED pointer
  /\ UNCHANGED <<serverVars, settings, ca, staged, backup, keyring, journal, late>>

\* Artifacts that cannot be deleted are left behind.
Clean ==
  /\ At("clean")
  /\ staged' \in {staged, None} /\ backup' \in {backup, None}
  /\ \/ staged' = None /\ backup' = None /\ UNCHANGED faults
     \/ Fault
  /\ Goto("close")
  /\ UNCHANGED <<serverVars, settings, ca, pointer, keyring, journal, late>>

Close ==
  /\ At("close")
  /\ \/ journal' = NoJournal /\ UNCHANGED faults
     \/ Fault /\ UNCHANGED journal
  /\ Stop
  /\ UNCHANGED <<serverVars, settings, ca, staged, backup, pointer, keyring, late>>

-----------------------------------------------------------------------------
(* recover_interrupted_pairing, at every start and before every pairing *)

Resume(step) == client' = [IdleClient EXCEPT !.pc = step, !.mode = "recover",
                                             !.mem = journal]

\* Without a credential the server's registration cannot be used: undo.
Undecided == journal.dev \in keyring

Recover ==
  /\ At("idle") /\ journal # NoJournal
  /\ \/ /\ journal.dev = NoDevice
        /\ Resume("restore")
        /\ UNCHANGED pointer
     \/ /\ journal.dev # NoDevice
        /\ pointer \in {NoDevice, journal.pointer, journal.dev}
        /\ \/ /\ journal.phase = "confirmed"
              /\ pointer' = journal.dev
              /\ Resume("apply")
           \/ /\ journal.phase # "confirmed" /\ ~Undecided
              /\ Resume("restore")
              /\ UNCHANGED pointer
           \/ /\ journal.phase # "confirmed" /\ Undecided
              /\ Verified(journal)
              /\ pointer' = journal.dev
              /\ Resume("confirm")
  /\ UNCHANGED <<serverVars, settings, ca, staged, backup, keyring, journal, late, faults>>

Crash ==
  /\ ~At("idle")
  /\ Given(client.call)
  /\ client' = IdleClient
  /\ Fault
  /\ UNCHANGED <<serverVars, localVars>>

ClientStep ==
  \/ Check \/ SendPair \/ GotPair \/ GiveUp
  \/ RecordRegistration \/ KeepCredential \/ PointToNew
  \/ ApplyCa \/ Install \/ ApplySettings \/ RecordApplied
  \/ SendConfirm \/ GotConfirm \/ RecordConfirmed
  \/ SendCancel \/ GotCancel \/ Forget \/ Unpoint
  \/ RestoreSettings \/ RestoreCa \/ RestorePointer \/ Clean \/ Close

Environment == ServerEnvironment /\ UNCHANGED <<localVars, client, late, faults>>

Next == \/ StartPair \/ ClientStep \/ ServeCurrent \/ LoseReply
        \/ Recover \/ Crash \/ ServeLate \/ Environment

\* A running process goes on, the server answers, and after a crash or an
\* error the user opens Mission Legal again.
Fairness == WF_vars(ClientStep) /\ WF_vars(ServeCurrent) /\ WF_vars(Recover)

Spec == Init /\ [][Next]_vars /\ Fairness

-----------------------------------------------------------------------------
(* Properties *)

\* Type invariant of both halves.
PairingTypeOK ==
  /\ device \in [DeviceId -> Device]
  /\ code \in [Server -> [id : Code, left : 0..MaxAttempt]]
  /\ codes \in Code
  /\ {settings, ca, staged, backup} \subseteq Server \cup {None}
  /\ pointer \in DeviceId \cup {NoDevice} /\ keyring \subseteq DeviceId
  /\ journal \in Journal
  /\ client \in [pc : Step, mode : {"begin", "pair", "recover"}, mem : Journal,
                 call : Call]
  /\ late \subseteq Call
  /\ faults \in 0..MaxFault

\* Whenever no pairing is open, whatever failed or crashed before, the four
\* local stores belong together: one server's address and certificate, a device
\* of that server and its credential; or none of them.
ConnectionIsWhole ==
  At("idle") /\ journal = NoJournal =>
    /\ settings = ca
    /\ settings = None <=> pointer = NoDevice
    /\ pointer # NoDevice => /\ pointer \in keyring
                             /\ device[pointer].server = settings

\* When no pairing is open, the computer holds the credential of every device
\* the server has confirmed for it: a rolled back pairing is not, and by no late
\* request becomes, a confirmed one.
AgreesWithServer ==
  At("idle") /\ journal = NoJournal =>
    \A d \in DeviceId : device[d].status = "active" => d \in keyring

\* A pairing code makes at most one confirmed device, even when the reply to the
\* registration was lost or the code file could not be deleted.
OneDevicePerCode ==
  \A d, e \in DeviceId :
    /\ device[d].status \in {"active", "revoked"}
    /\ device[e].status \in {"active", "revoked"}
    /\ device[d].code = device[e].code
    => d = e

\* The connection the computer will use once all journals are settled: a
\* durable "confirmed" decides for the new one, nothing else does.
Connection == IF journal = NoJournal THEN pointer
              ELSE IF journal.phase = "confirmed" THEN journal.dev
              ELSE journal.pointer

\* It changes in one step, by the record of a confirmation, and to a device
\* the server has confirmed; neither the start of a pairing, nor its roll-back,
\* nor the clean-up of the journal changes it.
ConnectionSwitches ==
  [][Connection' # Connection =>
       /\ journal'.phase = "confirmed"
       /\ device[journal'.dev].status \in {"active", "revoked"}]_vars

\* Every interrupted pairing is finished or undone once the faults are over.
PairingSettles == journal # NoJournal ~> journal = NoJournal
=============================================================================
