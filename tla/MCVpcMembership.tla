-------------------------- MODULE MCVpcMembership --------------------------
(* VpcMembership on small instances, for TLC.                              *)
EXTENDS VpcMembership, TLC

CONSTANTS x, b, c, n1, n2, n3

\* One VM that moves, and two on a node of their own.
ThreeVms == (x :> n2) @@ (b :> n1) @@ (c :> n1)
TwoVms   == (x :> n2) @@ (b :> n1)

\* A state of Spec to start from: x is up and published, and its watcher has been
\* sent that, when the VMs of the other node are started for the first time.
SharedInit ==
    /\ pc    = [v \in Vm |-> IF v = x THEN "up" ELSE "down"]
    /\ watch = [v \in Vm |-> IF v = x THEN "watch" ELSE "off"]
    /\ log   = <<[vm |-> x, node |-> n2, deleted |-> FALSE]>>
    /\ pos   = [v \in Vm |-> IF v = x THEN 1 ELSE 0]
    /\ route = [n \in Node |-> [v \in Vm |-> IF <<n, v>> = <<n2, x>> THEN "tap" ELSE None]]
    /\ at = Home /\ been = [v \in Vm |-> {Home[v]}]
    /\ reachable = TRUE /\ outages = 0
    /\ mem = [v \in Vm |-> Empty] /\ file = [v \in Vm |-> Empty]
    /\ sub = [v \in Vm |-> 0] /\ job = [v \in Vm |-> None]
    /\ cut = {} /\ behind = {}

SharedSpec == SharedInit /\ [][Next]_vars
=============================================================================
