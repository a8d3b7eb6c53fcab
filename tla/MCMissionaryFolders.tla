------------------------- MODULE MCMissionaryFolders ------------------------
(* MissionaryFolders on an instance TLC can explore: two missionaries, who *)
(* have the same name or not.                                              *)
EXTENDS MissionaryFolders

MCNaming == {<<1, 1>>, <<1, 2>>}
=============================================================================
