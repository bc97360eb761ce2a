---------------------------- MODULE SnapshotSet -----------------------------
(***************************************************************************)
(* What the snapshots of one VM promise, with no files in sight: a set     *)
(* from which a power loss takes nothing that has been acknowledged.       *)
(***************************************************************************)
CONSTANT Snapshot

VARIABLES
    kept,       \* the snapshots that a list shows and nobody has asked to delete
    acked,      \* the snapshots whose creation was answered with success
    removed     \* the snapshots that somebody has asked to delete

vars == <<kept, acked, removed>>

Init ==
    /\ kept = {}
    /\ acked = {}
    /\ removed = {}

\* A snapshot appears complete, in one step.
Publish(s) ==
    /\ s \notin kept \cup acked \cup removed
    /\ kept' = kept \cup {s}
    /\ UNCHANGED <<acked, removed>>

\* A caller may be told late: another may have asked to delete it meanwhile.
Acknowledge(s) ==
    /\ s \in kept \cup removed
    /\ acked' = acked \cup {s}
    /\ UNCHANGED <<kept, removed>>

Remove(s) ==
    /\ s \in kept
    /\ kept' = kept \ {s}
    /\ removed' = removed \cup {s}
    /\ UNCHANGED acked

\* What nobody was told of may be lost.
PowerLoss ==
    /\ kept' \in SUBSET kept
    /\ acked \cap kept \subseteq kept'
    /\ UNCHANGED <<acked, removed>>

Next == PowerLoss \/ \E s \in Snapshot : Publish(s) \/ Acknowledge(s) \/ Remove(s)

Spec == Init /\ [][Next]_vars
=============================================================================
