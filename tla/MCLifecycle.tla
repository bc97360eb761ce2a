---------------------------- MODULE MCLifecycle ----------------------------
(* Lifecycle on small instances, for TLC.                                  *)
EXTENDS Lifecycle, TLC

\* Handlers are interchangeable.
Symmetry == Permutations(Handler)
=============================================================================
