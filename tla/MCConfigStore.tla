---------------------------- MODULE MCConfigStore ----------------------------
(* ConfigStore on small instances, for TLC.                                *)
EXTENDS ConfigStore, TLC

Sizes == 1 .. 3

\* Addresses are interchangeable, and so are firewalls.
Symmetry == Permutations(Address) \cup Permutations(Rules)
=============================================================================
