------------------------------ MODULE MCOffice ------------------------------
(* OfficeWork on an instance TLC can explore.  Two missionaries whose       *)
(* residencies expire a day apart, within one cluster.                      *)
EXTENDS OfficeWork

MCExpiry == [m \in 1 .. MaxMissionary |-> 9 + m]
Symmetry == Permutations(Request)
=============================================================================
