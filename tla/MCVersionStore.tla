--------------------------- MODULE MCVersionStore ---------------------------
(* VersionStore on small instances.                                         *)
EXTENDS VersionStore, TLC

\* Every process is pinned to version 1.
SamePin == [p \in Procs |-> 1]

\* The processes are alike.
Symmetry == Permutations(Procs)
=============================================================================
