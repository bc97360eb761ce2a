---------------------------- MODULE MCFirstStart ----------------------------
(* FirstStart on small instances, for TLC.                                 *)
EXTENDS FirstStart, TLC

\* Two VMs that share an image, or a snapshot, or have no boot source.
Sources == [Vm -> Image] \cup [Vm -> Snapshot \cup {None}]

Symmetry == Permutations(Vm) \cup Permutations(Snapshot)
=============================================================================
