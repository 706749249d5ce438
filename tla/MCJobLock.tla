------------------------------ MODULE MCJobLock ------------------------------
(***************************************************************************)
(* Small instances of JobLock.                                             *)
(***************************************************************************)
EXTENDS JobLock, TLC

Symmetry == Permutations(Pods) \cup Permutations(Connections)

=============================================================================
