---------------------------- MODULE VpcMembership ----------------------------
(***************************************************************************)
(* How the nodes of one VPC learn where its VMs are (vpc_remote.go,        *)
(* vpc_members.go, beacon.go, Network.Create and Network.Delete).          *)
(*                                                                         *)
(* Every VM publishes one object in beacon and watches the objects of the  *)
(* other VMs. It programs a route to each VM that is on another node into  *)
(* the namespace that the VMs of the VPC share on its own node, and caches *)
(* what it has learnt, with the revision reached, in vpc-members.json.     *)
(* Beacon is external: it numbers the changes, sends a subscriber the last *)
(* change of every object after `since`, and then every change, in order.  *)
(*                                                                         *)
(* An address stands for its VM and a GRE address for its node.            *)
(***************************************************************************)
EXTENDS Naturals, Sequences, FiniteSets

CONSTANTS
    Vm,          \* the VMs of the VPC
    Node,        \* the nodes
    Home,        \* the node each VM is on at first
    Mobile,      \* the VMs whose machine directory may move to another node
    Target,      \* the nodes that a machine directory may be moved to
    Stoppable,   \* the VMs that may be stopped
    Killable,    \* the VMs whose runtime may be killed
    Outages,     \* bound on how often beacon becomes unreachable
    MaxRevision, \* bound on the changes that beacon records
    None         \* no node, no route, no job

ASSUME HomeAssumption == Home \in [Vm -> Node] /\ Target \subseteq Node
ASSUME VmAssumption == Mobile \subseteq Stoppable /\ Stoppable \subseteq Vm /\ Killable \subseteq Vm
ASSUME RevisionAssumption == MaxRevision \in Nat /\ Outages \in Nat
ASSUME NodeAssumption == {None, "tap"} \cap Node = {}
ASSUME FiniteAssumption == IsFiniteSet(Vm)
ASSUME NoneAssumption == None \notin [vm : Vm, to : Node \cup {None}]

VARIABLES
    pc,         \* the runtime of each VM: Network.Create and Network.Delete
    watch,      \* where its watcher is, or "off"
    at,         \* the node that holds its machine directory
    been,       \* history: the nodes it has been on
    log,        \* the changes beacon has recorded; the index is the timestamp
    reachable,  \* beacon answers
    outages,    \* how often it has become unreachable
    mem,        \* network.membersRevision and network.members
    file,       \* vpc-members.json
    sub,        \* the last change when the watcher subscribed, 0 once it is sent
    pos,        \* the last change it has been sent
    job,        \* the route it is about to program, or None
    route,      \* the routes to the VMs in the namespace of each node: a node,
                \* "tap" for the VM's own TAP, or None
    cut,        \* history: the nodes on which a watcher died between forgetting
                \* a member and removing its route
    behind      \* history: the nodes on which a watcher was stopped while a route
                \* was out of date that it had not been told of yet, or was
                \* killed while it was being stopped

runtime == <<pc, watch, at, been>>
beacon  == <<log, reachable, outages>>
cache   == <<mem, file>>
stream  == <<sub, pos, job>>
kernel  == <<route, cut, behind>>
vars    == <<runtime, beacon, cache, stream, kernel>>

Revision == 0..MaxRevision
Cache    == [revision : Revision, members : [Vm -> Node \cup {None}]]
Change   == [vm : Vm, node : Node, deleted : BOOLEAN]

Empty == [revision |-> 0, members |-> [v \in Vm |-> None]]

TypeOK ==
    /\ pc \in [Vm -> {"down", "killed", "halted", "tap", "up", "drain", "withdraw", "leave"}]
    /\ watch \in [Vm -> {"off", "cache", "publish", "connect", "watch", "route", "wait"}]
    /\ at \in [Vm -> Node]
    /\ been \in [Vm -> SUBSET Node]
    /\ log \in Seq(Change) /\ Len(log) <= MaxRevision
    /\ reachable \in BOOLEAN /\ outages \in 0..Outages
    /\ mem \in [Vm -> Cache] /\ file \in [Vm -> Cache]
    /\ sub \in [Vm -> Revision] /\ pos \in [Vm -> Revision]
    /\ job \in [Vm -> [vm : Vm, to : Node \cup {None}] \cup {None}]
    /\ \A v \in Vm : watch[v] = "route" <=> job[v] # None
    /\ route \in [Node -> [Vm -> Node \cup {None, "tap"}]]
    /\ cut \subseteq Node /\ behind \subseteq Node

Init ==
    /\ pc = [v \in Vm |-> "down"]
    /\ watch = [v \in Vm |-> "off"]
    /\ at = Home
    /\ been = [v \in Vm |-> {Home[v]}]
    /\ log = <<>>
    /\ reachable = TRUE
    /\ outages = 0
    /\ mem = [v \in Vm |-> Empty]
    /\ file = [v \in Vm |-> Empty]
    /\ sub = [v \in Vm |-> 0]
    /\ pos = [v \in Vm |-> 0]
    /\ job = [v \in Vm |-> None]
    /\ route = [n \in Node |-> [v \in Vm |-> None]]
    /\ cut = {}
    /\ behind = {}

-----------------------------------------------------------------------------
(* Beacon.                                                                 *)

\* The timestamp of the last change of an object, 0 if it never existed.
Last(v) == LET I == {i \in DOMAIN log : log[i].vm = v}
           IN  IF I = {} THEN 0 ELSE CHOOSE i \in I : \A j \in I : j <= i

Published(v) == Last(v) # 0 /\ ~log[Last(v)].deleted

\* The node that beacon says a VM is on.
Owner(v) == IF Published(v) THEN log[Last(v)].node ELSE None

\* The changes that VMs which are not down may still need: their publication
\* and, where they may be stopped, their withdrawal. Nothing starts that would
\* exceed the bound.
Needed(S) == Cardinality({v \in S : ~Published(v) \/ log[Last(v)].node # at[v]})
                 + Cardinality(S \cap Stoppable)
Active    == {v \in Vm : pc[v] # "down"}
Room(v)   == Len(log) + Needed(Active \cup {v}) <= MaxRevision

Record(v, n, gone) == log' = Append(log, [vm |-> v, node |-> n, deleted |-> gone])

\* Put overwrites the object. Whether an equal object gets a new timestamp is
\* beacon's choice.
Put(v) == \/ /\ Published(v) /\ log[Last(v)].node = at[v]
             /\ log' = log
          \/ /\ Published(v) /\ log[Last(v)].node = at[v] => Len(log) + Needed(Active) < MaxRevision
             /\ Record(v, at[v], FALSE)

\* Delete leaves a tombstone with the labels of the object.
Delete(v) == IF Published(v) THEN Record(v, log[Last(v)].node, TRUE) ELSE log' = log

\* The changes a subscriber is still to be sent: of those before it subscribed
\* only the last of each object, and all that came later.
Unsent(v) == {i \in pos[v] + 1 .. Len(log) :
                 i > sub[v] \/ \A j \in i + 1 .. sub[v] : log[j].vm # log[i].vm}

Fall == /\ reachable /\ outages < Outages
        /\ reachable' = FALSE
        /\ outages' = outages + 1

Outage == Fall /\ UNCHANGED <<runtime, log, cache, stream, kernel>>

Recover ==
    /\ ~reachable
    /\ reachable' = TRUE
    /\ UNCHANGED <<runtime, log, outages, cache, stream, kernel>>

-----------------------------------------------------------------------------
(* Network.Create and Network.Delete, for a VM that is started and stopped *)
(* by requests. A runtime that is killed is started again by systemd: with *)
(* its VM, "killed", or in the middle of a stop without it, "halted".      *)

\* vpcEnter, then the watcher unless it runs already.
Start(v) ==
    /\ pc[v] \in {"down", "killed", "halted", "up"}
    /\ Room(v)
    /\ pc' = [pc EXCEPT ![v] = "tap"]
    /\ watch' = [watch EXCEPT ![v] = IF @ = "off" THEN "cache" ELSE @]
    /\ UNCHANGED <<at, been, beacon, cache, stream, kernel>>

\* `route add` does not replace a route that is there.
AddTap(v) ==
    /\ pc[v] = "tap"
    /\ pc' = [pc EXCEPT ![v] = "up"]
    /\ route' = [route EXCEPT ![at[v]][v] = IF @ = None THEN "tap" ELSE @]
    /\ UNCHANGED <<watch, at, been, beacon, cache, stream, cut, behind>>

\* Deletes the TAP, and its route with it, then cancels the watcher. A runtime
\* that has not created the TAP does not know its name.
Stop(v) ==
    /\ v \in Stoppable
    /\ pc[v] \in {"up", "down", "halted"}
    /\ pc[v] # "up" => Room(v)
    /\ pc' = [pc EXCEPT ![v] = "drain"]
    /\ route' = [route EXCEPT ![at[v]][v] = IF pc[v] = "up" /\ @ = "tap" THEN None ELSE @]
    /\ UNCHANGED <<watch, at, been, beacon, cache, stream, cut, behind>>

\* <-watchDone.
MutantDrain(v) ==
    /\ pc[v] = "drain"
    /\ pc' = [pc EXCEPT ![v] = "withdraw"]
    /\ UNCHANGED <<watch, at, been, beacon, cache, stream, kernel>>

Drain(v) ==
    /\ pc[v] = "drain"
    /\ watch[v] = "off"
    /\ pc' = [pc EXCEPT ![v] = "withdraw"]
    /\ UNCHANGED <<watch, at, been, beacon, cache, stream, kernel>>

\* A withdrawal that fails is not tried again.
Withdraw(v) ==
    /\ pc[v] = "withdraw"
    /\ IF reachable THEN Delete(v) ELSE log' = log
    /\ pc' = [pc EXCEPT ![v] = "leave"]
    /\ UNCHANGED <<watch, at, been, reachable, outages, cache, stream, kernel>>

\* vpcLeave: the last VM takes the namespace, and every route in it, away.
Leave(v) ==
    /\ pc[v] = "leave"
    /\ pc' = [pc EXCEPT ![v] = "down"]
    /\ IF \E u \in Vm \ {v} : at[u] = at[v] /\ pc[u] # "down"
       THEN UNCHANGED kernel
       ELSE /\ route' = [route EXCEPT ![at[v]] = [u \in Vm |-> None]]
            /\ cut' = cut \ {at[v]}
            /\ behind' = behind \ {at[v]}
    /\ UNCHANGED <<watch, at, been, beacon, cache, stream>>

-----------------------------------------------------------------------------
(* runVPCWatch.                                                            *)

\* applyCachedMembers: an empty cache changes nothing.
ApplyCachedMembers(v) ==
    /\ watch[v] = "cache"
    /\ LET known == {u \in Vm : file[v].members[u] # None}
       IN  /\ mem' = [mem EXCEPT ![v] = IF known = {} THEN @ ELSE file[v]]
           /\ route' = [route EXCEPT ![at[v]] =
                           [u \in Vm |-> IF u \in known THEN file[v].members[u] ELSE @[u]]]
    /\ watch' = [watch EXCEPT ![v] = "publish"]
    /\ UNCHANGED <<pc, at, been, beacon, file, stream, cut, behind>>

\* publishMembership, on every attempt.
Publish(v) ==
    /\ watch[v] = "publish"
    /\ IF reachable THEN Put(v) ELSE log' = log
    /\ watch' = [watch EXCEPT ![v] = IF reachable THEN "connect" ELSE "wait"]
    /\ UNCHANGED <<pc, at, been, reachable, outages, cache, stream, kernel>>

\* Beacon has taken the object, but its answer is lost.
PublishUnanswered(v) ==
    /\ watch[v] = "publish"
    /\ Put(v)
    /\ Fall
    /\ watch' = [watch EXCEPT ![v] = "wait"]
    /\ UNCHANGED <<pc, at, been, cache, stream, kernel>>

\* watchOnce: dial, and subscribe with since.
Connect(v) ==
    /\ watch[v] = "connect"
    /\ sub' = [sub EXCEPT ![v] = IF reachable /\ mem[v].revision < Len(log) THEN Len(log) ELSE 0]
    /\ pos' = [pos EXCEPT ![v] = IF reachable THEN mem[v].revision ELSE 0]
    /\ watch' = [watch EXCEPT ![v] = IF reachable THEN "watch" ELSE "wait"]
    /\ UNCHANGED <<pc, at, been, beacon, cache, job, kernel>>

\* rememberMember and forgetMember: the revision advances in memory, and the
\* file is written only when the entry changes.
MutantLearn(v, u, n, i) ==
    /\ mem' = [mem EXCEPT ![v] = [revision |-> i, members |-> [mem[v].members EXCEPT ![u] = n]]]
    /\ file' = [file EXCEPT ![v].revision = i]

Learn(v, u, n, i) ==
    LET new == [revision |-> IF i > mem[v].revision THEN i ELSE mem[v].revision,
                members  |-> [mem[v].members EXCEPT ![u] = n]]
    IN  /\ mem' = [mem EXCEPT ![v] = new]
        /\ file' = IF mem[v].members[u] = n THEN file ELSE [file EXCEPT ![v] = new]

\* routeRemoteVM, up to the cache. An object of this node is not looked at.
MutantReceive(v) ==
    /\ watch[v] = "watch"
    /\ Unsent(v) # {}
    /\ LET i == CHOOSE i \in Unsent(v) : \A j \in Unsent(v) : i <= j
           to == IF log[i].deleted THEN None ELSE log[i].node
       IN  /\ pos' = [pos EXCEPT ![v] = i]
           /\ sub' = [sub EXCEPT ![v] = IF i = @ THEN 0 ELSE @]
           /\ Learn(v, log[i].vm, to, i)
           /\ job' = [job EXCEPT ![v] = [vm |-> log[i].vm, to |-> to]]
           /\ watch' = [watch EXCEPT ![v] = "route"]
    /\ UNCHANGED <<pc, at, been, beacon, kernel>>

Receive(v) ==
    /\ watch[v] = "watch"
    /\ Unsent(v) # {}
    /\ LET i == CHOOSE i \in Unsent(v) : \A j \in Unsent(v) : i <= j
           to == IF log[i].deleted THEN None ELSE log[i].node
       IN  /\ pos' = [pos EXCEPT ![v] = i]
           /\ sub' = [sub EXCEPT ![v] = IF i = @ THEN 0 ELSE @]
           /\ IF log[i].node = at[v]
              THEN UNCHANGED <<cache, job, watch>>
              ELSE /\ Learn(v, log[i].vm, to, i)
                   /\ job' = [job EXCEPT ![v] = [vm |-> log[i].vm, to |-> to]]
                   /\ watch' = [watch EXCEPT ![v] = "route"]
    /\ UNCHANGED <<pc, at, been, beacon, kernel>>

\* routeMember: `route replace`, or `route del` of whatever is there.
MutantAdd(v) ==
    /\ watch[v] = "route"
    /\ route' = [route EXCEPT ![at[v]][job[v].vm] =
                     IF job[v].to # None /\ @ # None THEN @ ELSE job[v].to]
    /\ job' = [job EXCEPT ![v] = None]
    /\ watch' = [watch EXCEPT ![v] = "watch"]
    /\ UNCHANGED <<pc, at, been, beacon, cache, sub, pos, cut, behind>>

MutantDelete(v) ==
    /\ watch[v] = "route"
    /\ job[v].to = None => route' = route
    /\ job[v].to # None => route' = [route EXCEPT ![at[v]][job[v].vm] = job[v].to]
    /\ job' = [job EXCEPT ![v] = None]
    /\ watch' = [watch EXCEPT ![v] = "watch"]
    /\ UNCHANGED <<pc, at, been, beacon, cache, sub, pos, cut, behind>>

Route(v) ==
    /\ watch[v] = "route"
    /\ route' = [route EXCEPT ![at[v]][job[v].vm] = job[v].to]
    /\ job' = [job EXCEPT ![v] = None]
    /\ watch' = [watch EXCEPT ![v] = "watch"]
    /\ UNCHANGED <<pc, at, been, beacon, cache, sub, pos, cut, behind>>

\* The connection breaks.
Disconnect(v) ==
    /\ watch[v] = "watch"
    /\ ~reachable
    /\ watch' = [watch EXCEPT ![v] = "wait"]
    /\ sub' = [sub EXCEPT ![v] = 0]
    /\ pos' = [pos EXCEPT ![v] = 0]
    /\ UNCHANGED <<pc, at, been, beacon, cache, job, kernel>>

\* Five seconds later.
MutantRetry(v) ==
    /\ watch[v] = "wait"
    /\ pc[v] # "drain"
    /\ watch' = [watch EXCEPT ![v] = "connect"]
    /\ UNCHANGED <<pc, at, been, beacon, cache, stream, kernel>>

Retry(v) ==
    /\ watch[v] = "wait"
    /\ pc[v] # "drain"
    /\ watch' = [watch EXCEPT ![v] = "publish"]
    /\ UNCHANGED <<pc, at, been, beacon, cache, stream, kernel>>

\* A route to a VM of another node is not where its last change says, and the
\* watcher of v has not been sent that change.
OutOfDate(v) ==
    \E u \in Vm : /\ Last(u) > mem[v].revision
                  /\ log[Last(u)].node # at[v]
                  /\ route[at[v]][u] # Owner(u)

\* A cancelled watcher ends wherever it looks at its context; a request or a
\* message that is in progress is finished first.
MutantExit(v) ==
    /\ pc[v] = "drain"
    /\ watch[v] # "off"
    /\ watch' = [watch EXCEPT ![v] = "off"]
    /\ sub' = [sub EXCEPT ![v] = 0]
    /\ pos' = [pos EXCEPT ![v] = 0]
    /\ UNCHANGED <<pc, at, been, beacon, cache, job, kernel>>

Exit(v) ==
    /\ pc[v] = "drain"
    /\ watch[v] \in {"publish", "connect", "watch", "wait"}
    /\ watch' = [watch EXCEPT ![v] = "off"]
    /\ sub' = [sub EXCEPT ![v] = 0]
    /\ pos' = [pos EXCEPT ![v] = 0]
    /\ behind' = IF OutOfDate(v) THEN behind \cup {at[v]} ELSE behind
    /\ UNCHANGED <<pc, at, been, beacon, cache, job, route, cut>>

-----------------------------------------------------------------------------
(* The environment.                                                        *)

\* The runtime dies; its files, the namespace and the TAP stay.
Kill(v) ==
    /\ v \in Killable
    /\ pc[v] \notin {"down", "killed", "halted"}
    /\ pc' = [pc EXCEPT ![v] = IF @ \in {"tap", "up"} THEN "killed" ELSE "halted"]
    /\ watch' = [watch EXCEPT ![v] = "off"]
    /\ mem' = [mem EXCEPT ![v] = Empty]
    /\ sub' = [sub EXCEPT ![v] = 0]
    /\ pos' = [pos EXCEPT ![v] = 0]
    /\ job' = [job EXCEPT ![v] = None]
    /\ cut' = IF watch[v] = "route" /\ job[v].to = None THEN cut \cup {at[v]} ELSE cut
    /\ behind' = IF pc[v] = "drain" /\ watch[v] # "off" THEN behind \cup {at[v]} ELSE behind
    /\ UNCHANGED <<at, been, beacon, file, route>>

\* The machine directory of a stopped VM moves, its cache with it.
Move(v, n) ==
    /\ v \in Mobile
    /\ pc[v] = "down"
    /\ n # at[v]
    /\ at' = [at EXCEPT ![v] = n]
    /\ been' = [been EXCEPT ![v] = @ \cup {n}]
    /\ mem' = [mem EXCEPT ![v] = Empty]
    /\ UNCHANGED <<pc, watch, beacon, file, stream, kernel>>

-----------------------------------------------------------------------------

Operate(v) == AddTap(v) \/ Drain(v) \/ Withdraw(v) \/ Leave(v)

Watcher(v) ==
    \/ ApplyCachedMembers(v) \/ Publish(v) \/ Connect(v) \/ Receive(v) \/ Route(v)
    \/ Disconnect(v) \/ Retry(v) \/ Exit(v)

Disturb ==
    \/ \E v \in Vm : Start(v) \/ Stop(v) \/ Kill(v) \/ PublishUnanswered(v)
    \/ \E v \in Vm, n \in Target : Move(v, n)
    \/ Outage \/ Recover

Next == Disturb \/ \E v \in Vm : Operate(v) \/ Watcher(v)

Spec == Init /\ [][Next]_vars

\* The goroutine of a watcher runs when it can.
Fairness == \A v \in Vm : WF_vars(Watcher(v))

FairSpec == Spec /\ Fairness

-----------------------------------------------------------------------------
(* Properties.                                                             *)

\* Every VM that is up is connected to beacon and has been sent every change.
Settled == \A v \in Vm :
    \/ pc[v] = "down"
    \/ pc[v] = "up" /\ watch[v] = "watch" /\ Unsent(v) = {}

Moved(v) == been[v] # {at[v]}

\* A cache holds, for every remote VM whose last change is not after the
\* revision of the cache, exactly that change: resuming with `since` loses
\* nothing, in memory, in the file and across kills, however often the
\* connection breaks (vpcMembersFile "The revision lets the watcher resume").
CacheCoversRevision ==
    \A v \in Vm, u \in Vm : \A c \in {mem[v], file[v]} :
        (/\ ~Moved(v)
         /\ Last(u) \in 1 .. c.revision
         /\ log[Last(u)].node # at[v]) => c.members[u] = Owner(u)

\* Once the watchers have caught up, a node that a VM has never been on sends
\* its packets to the node that VM is on, also after moves, restarts, outages
\* and watchers that raced: docs/network.md "the other nodes move the route".
\* The exception: a watcher that was stopped before it caught up, after it had
\* put an older route over the one that a faster watcher programmed, or that was
\* killed while it was being stopped.
OtherNodesFollow ==
    Settled => \A v \in Vm, u \in Vm :
        (pc[v] = "up" /\ ~Moved(v) /\ at[v] \notin been[u] /\ Published(u) /\ at[v] \notin behind
            /\ \A w \in Vm : at[v] \in been[w] => ~Moved(w))
            => route[at[v]][u] = Owner(u)

\* ... and has no route to a VM that has withdrawn, unless a watcher was killed
\* between forgetting the VM and removing its route.
NoStaleRoute ==
    Settled => \A v \in Vm, u \in Vm :
        (pc[v] = "up" /\ ~Moved(v) /\ at[v] \notin been[u] /\ ~Published(u)
            /\ at[v] \notin cut \cup behind
            /\ \A w \in Vm : at[v] \in been[w] => ~Moved(w))
            => route[at[v]][u] = None

\* The route to the TAP of a VM that is up stays, whatever the watchers of the
\* other VMs in its namespace learn and cache, if no VM has moved to the node.
LocalRouteKept ==
    \A v \in Vm : (pc[v] = "up" /\ \A w \in Vm : at[v] \in been[w] => ~Moved(w))
                      => route[at[v]][v] = "tap"

\* An address that was withdrawn is not published again before the next start:
\* "Withdraw this VM's address after the watcher stops".
WithdrawnStays ==
    [][\A v \in Vm : pc[v] = "down" /\ pc'[v] = "down" /\ ~Published(v) => ~Published(v)']_vars

\* When beacon stays reachable, every watcher gets through to the last change,
\* having published its own VM where it is now: whatever failed on the way is
\* tried again (runVPCWatch "It reconnects on error").
WatchersCatchUp ==
    <>[]reachable =>
        \A v \in Vm : watch[v] # "off" ~>
            \/ watch[v] = "off"
            \/ watch[v] = "watch" /\ Unsent(v) = {} /\ Published(v) /\ Owner(v) = at[v]

\* docs/network.md "A VM therefore keeps its address when it moves to another
\* node": once the watchers have caught up, the node that a VM is on sends its
\* packets to the VM.
MovedVmReachable == Settled => \A v \in Vm : pc[v] = "up" => route[at[v]][v] = "tap"

=============================================================================
