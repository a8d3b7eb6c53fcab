-------------------------- MODULE MCDocumentUpload --------------------------
(* Small instances of DocumentUpload for TLC. *)
EXTENDS DocumentUpload, TLC

Symmetry == Permutations(Handler) \cup Permutations(FileName)
            \cup Permutations(UploadId)
=============================================================================
