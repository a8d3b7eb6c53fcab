------------------------------ MODULE MCServer ------------------------------
(* Server on an instance TLC can explore: three schema versions, the second *)
(* of which fills in last entry dates and the third normalises names.       *)
EXTENDS Server
=============================================================================
