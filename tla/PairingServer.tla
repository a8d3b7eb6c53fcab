---------------------------- MODULE PairingServer ----------------------------
(***************************************************************************)
(* The server's half of pairing: the one-use pairing codes and the         *)
(* registered devices of server/security.py, and the endpoints /pair,      *)
(* /pair/confirm and /pair/pending of server/app.py.                       *)
(*                                                                         *)
(* A store operation holds its file's lock from read to write, so it is    *)
(* one step; an endpoint first authenticates the device in one such        *)
(* operation and then acts in another, and other requests, the clock and   *)
(* the administrator may come in between.                                  *)
(***************************************************************************)
EXTENDS Naturals

CONSTANTS
  Server,       \* the servers of the mission, each with its own CA
  MaxDevice,    \* bound on device IDs
  MaxCode,      \* bound on pairing codes
  MaxAttempt    \* wrong codes a pairing code survives

ASSUME ServerAssumption ==
  /\ MaxDevice \in Nat \ {0} /\ MaxCode \in Nat /\ MaxAttempt \in Nat \ {0}
  /\ "nothing" \notin Server

None == "nothing"
NoDevice == 0
DeviceId == 1..MaxDevice
Code == 0..MaxCode              \* 0: no code was ever created

VARIABLES
  device,   \* device[d]: what the device store of its server says of d
  code,     \* code[s]: the code file: the code and its attempts; none: deleted
  codes     \* number of codes created so far

serverVars == <<device, code, codes>>

Unknown == [status |-> "unknown", server |-> None, code |-> 0]
NoCode == [id |-> 0, left |-> 0]

Device == [status : {"unknown", "pending", "expired", "active", "revoked", "removed"},
           server : Server \cup {None}, code : Code]

\* A request and how far it has got: sent, authenticated as a pending device,
\* or answered with 2xx (ok), 401 (refused) or 409 and 5xx (conflict).
Call == [kind : {"none", "pair", "confirm", "cancel"}, dev : DeviceId \cup {NoDevice},
         server : Server \cup {None}, code : Code,
         step : {"sent", "authed", "ok", "refused", "conflict", "lost"}]

NoCall == [kind |-> "none", dev |-> NoDevice, server |-> None, code |-> 0,
           step |-> "lost"]

Unanswered(c) == c.step \in {"sent", "authed"}

\* What a call may become when the server takes a step for it.
After(c) == [kind : {c.kind}, dev : DeviceId \cup {c.dev}, server : {c.server},
             code : {c.code}, step : {"authed", "ok", "refused", "conflict"}]

\* No device is known yet, or one was paired in an earlier release.
ServerInit ==
  /\ \/ device = [d \in DeviceId |-> Unknown]
     \/ \E s \in Server : device = [d \in DeviceId |->
          IF d = 1 THEN [status |-> "active", server |-> s, code |-> 0] ELSE Unknown]
  /\ code = [s \in Server |-> NoCode]
  /\ codes = 0

\* authenticate and list_devices drop the pending registrations of the past.
Pruned(s) == [d \in DeviceId |->
                IF device[d].status = "expired" /\ device[d].server = s
                THEN [device[d] EXCEPT !.status = "removed"] ELSE device[d]]

\* A device ID is a random token, never given out twice.
FreshDevice(d) == /\ d \in DeviceId
                  /\ device[d].status = "unknown"
                  /\ \A e \in DeviceId : e < d => device[e].status # "unknown"

\* Mutant of Register: the registration does not say what it belongs to.
RegisterBare(d, c) == device' = [device EXCEPT ![d] = [status |-> "pending"]]

Register(d, c) ==
  device' = [device EXCEPT ![d] = [status |-> "pending", server |-> c.server,
                                   code |-> c.code]]

\* Mutant of Claim: the code outlives the registration.
KeepCode(s) == UNCHANGED code

Claim(s) == code' = [code EXCEPT ![s] = NoCode]

\* A step of the server makes the call c the call a.

\* POST /pair: consume_and_execute.  The device is registered before the code
\* file is deleted; a failed deletion removes the device again, if it can.
ServePair(c, a) ==
  /\ c.kind = "pair" /\ c.step = "sent"
  /\ \/ /\ code[c.server].left = 0
        /\ a = [c EXCEPT !.step = "refused"]
        /\ UNCHANGED <<device, code>>
     \/ /\ code[c.server].left > 0 /\ code[c.server].id # c.code
        /\ code' = [code EXCEPT ![c.server].left = @ - 1]
        /\ a = [c EXCEPT !.step = "refused"]
        /\ UNCHANGED device
     \/ /\ code[c.server].left > 0 /\ code[c.server].id = c.code
        /\ \E d \in DeviceId :
             /\ FreshDevice(d)
             /\ Register(d, c)
             /\ \/ /\ Claim(c.server)
                   /\ a = [c EXCEPT !.step = "ok", !.dev = d]
                \/ /\ UNCHANGED code    \* neither deletion succeeded
                   /\ a = [c EXCEPT !.step = "conflict"]
     \/ /\ code[c.server].left > 0 /\ code[c.server].id = c.code
        /\ a = [c EXCEPT !.step = "conflict"]   \* not registered, or rolled back
        /\ UNCHANGED <<device, code>>
  /\ UNCHANGED codes

\* pairing_confirmation_device and pending_pairing_device.
Authenticate(c, a) ==
  /\ c.kind \in {"confirm", "cancel"} /\ c.step = "sent"
  /\ device' = Pruned(c.server)
  /\ a = [c EXCEPT !.step =
       CASE device[c.dev].status = "pending" -> "authed"
         [] device[c.dev].status = "active" -> IF c.kind = "confirm" THEN "ok"
                                               ELSE "conflict"
         [] OTHER -> "refused"]
  /\ UNCHANGED <<code, codes>>

ServeConfirm(c, a) ==
  /\ c.kind = "confirm" /\ c.step = "authed"
  /\ IF device[c.dev].status = "pending"
     THEN /\ device' = [device EXCEPT ![c.dev].status = "active"]
          /\ a = [c EXCEPT !.step = "ok"]
     ELSE /\ a = [c EXCEPT !.step = "conflict"]
          /\ UNCHANGED device
  /\ UNCHANGED <<code, codes>>

\* remove_pending: a registration confirmed meanwhile stays.
ServeCancel(c, a) ==
  /\ c.kind = "cancel" /\ c.step = "authed"
  /\ IF device[c.dev].status \in {"pending", "expired"}
     THEN /\ device' = [device EXCEPT ![c.dev].status = "removed"]
          /\ a = [c EXCEPT !.step = "ok"]
     ELSE /\ a = [c EXCEPT !.step = "conflict"]
          /\ UNCHANGED device
  /\ UNCHANGED <<code, codes>>

Serve(c, a) == \/ ServePair(c, a) \/ Authenticate(c, a)
               \/ ServeConfirm(c, a) \/ ServeCancel(c, a)

-----------------------------------------------------------------------------
(* The clock and the administrator *)

CreateCode ==
  /\ codes < MaxCode
  /\ codes' = codes + 1
  /\ \E s \in Server :
       code' = [code EXCEPT ![s] = [id |-> codes + 1, left |-> MaxAttempt]]
  /\ UNCHANGED device

CodeLapses ==
  /\ \E s \in Server : /\ code[s].left > 0
                       /\ code' = [code EXCEPT ![s].left = 0]
  /\ UNCHANGED <<device, codes>>

PendingLapses ==
  /\ \E d \in DeviceId : /\ device[d].status = "pending"
                         /\ device' = [device EXCEPT ![d].status = "expired"]
  /\ UNCHANGED <<code, codes>>

ListDevices ==
  /\ \E s \in Server : device' = Pruned(s)
  /\ UNCHANGED <<code, codes>>

Revoke ==
  /\ \E d \in DeviceId : /\ device[d].status = "active"
                         /\ device' = [device EXCEPT ![d].status = "revoked"]
  /\ UNCHANGED <<code, codes>>

ServerEnvironment == \/ CreateCode \/ CodeLapses \/ PendingLapses
                     \/ ListDevices \/ Revoke
=============================================================================
