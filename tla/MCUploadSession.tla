--------------------------- MODULE MCUploadSession ---------------------------
(* Small instances of UploadSession for TLC. *)
EXTENDS UploadSession
=============================================================================
