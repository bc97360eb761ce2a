--------------------------- MODULE MCVpcNamespace ---------------------------
(* VpcNamespace on small instances, for TLC.                               *)
EXTENDS VpcNamespace, TLC

\* Runtimes that are not residents are interchangeable.
Symmetry == Permutations(Runtime \ Resident)
=============================================================================
