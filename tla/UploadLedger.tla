---------------------------- MODULE UploadLedger ----------------------------
(***************************************************************************)
(* What the document service promises about the upload IDs its clients     *)
(* choose, without threads, files, retries or failures: an upload is       *)
(* submitted at most once at a time, its data is applied at most once and  *)
(* only while the document is in use, and an upload goes out of use with   *)
(* its replacement coming into use, by invalidation, or by deletion.       *)
(***************************************************************************)
CONSTANTS UploadId

VARIABLE ledger   \* ledger[u]: the stage of the upload u

Stage == {"absent",    \* no document of this ID
          "open",      \* saved, its data is still to be applied
          "done",      \* saved, nothing left to apply
          "void",      \* out of use, never applied
          "retired"}   \* out of use, with nothing left to apply

Init == ledger = [u \in UploadId |-> "absent"]

\* The stage of an upload that goes out of use.
OutOfUse(stage) == CASE stage = "open" -> "void"
                     [] stage = "done" -> "retired"
                     [] OTHER -> stage

\* A document is saved, alone or in the place of one that is in use.
Submit(u) ==
  /\ ledger[u] = "absent"
  /\ \E stage \in {"open", "done"} :
       \/ ledger' = [ledger EXCEPT ![u] = stage]
       \/ \E o \in UploadId :
            /\ ledger[o] \in {"open", "done"}
            /\ ledger' = [ledger EXCEPT ![u] = stage, ![o] = OutOfUse(@)]

\* The data of a document in use is applied.
Process(u) ==
  /\ ledger[u] = "open"
  /\ ledger' = [ledger EXCEPT ![u] = "done"]

\* Documents of a missed appointment go out of use together.
Withdraw ==
  \E S \in SUBSET {u \in UploadId : ledger[u] \in {"open", "done"}} :
    ledger' = [u \in UploadId |-> IF u \in S THEN OutOfUse(ledger[u])
                                  ELSE ledger[u]]

Delete(u) ==
  /\ ledger[u] # "absent"
  /\ ledger' = [ledger EXCEPT ![u] = "absent"]

Next == \/ \E u \in UploadId : Submit(u) \/ Process(u) \/ Delete(u)
        \/ Withdraw

Spec == Init /\ [][Next]_ledger
=============================================================================
