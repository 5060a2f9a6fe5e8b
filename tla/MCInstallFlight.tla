-------------------------- MODULE MCInstallFlight --------------------------
(* InstallFlight on small instances.                                        *)
EXTENDS InstallFlight, TLC

\* The calls are interchangeable where no liveness property is checked.
Symmetry == Permutations(Callers)
=============================================================================
