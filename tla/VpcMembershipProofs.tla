------------------------ MODULE VpcMembershipProofs -------------------------
(***************************************************************************)
(* What VpcMembership promises for any number of VMs, nodes, changes,      *)
(* outages, kills and moves: a cache is exact up to its revision, the      *)
(* route to a local VM is left alone, what was withdrawn stays so, and the *)
(* routes to the VMs of other nodes follow what beacon says.               *)
(***************************************************************************)
EXTENDS VpcMembership, FiniteSetTheorems, TLAPS

(* Types, without the bounds of the runs.                                  *)

Caches == [revision : Nat, members : [Vm -> Node \cup {None}]]
Job    == [vm : Vm, to : Node \cup {None}]

TypeInv ==
    /\ pc \in [Vm -> {"down", "killed", "halted", "tap", "up", "drain", "withdraw", "leave"}]
    /\ watch \in [Vm -> {"off", "cache", "publish", "connect", "watch", "route", "wait"}]
    /\ at \in [Vm -> Node]
    /\ been \in [Vm -> SUBSET Node]
    /\ log \in Seq(Change)
    /\ mem \in [Vm -> Caches] /\ file \in [Vm -> Caches]
    /\ sub \in [Vm -> Nat] /\ pos \in [Vm -> Nat]
    /\ job \in [Vm -> Job \cup {None}]
    /\ \A v \in Vm : watch[v] = "route" => job[v] \in Job
    /\ route \in [Node -> [Vm -> Node \cup {None, "tap"}]]

\* Every set of changes has a first and a last one. The log grows by one change
\* at a time, so that the steps of the system are the induction.
Counted == \A S \in SUBSET (1 .. Len(log)) : S # {} =>
    /\ \E i \in S : \A j \in S : i <= j
    /\ \E i \in S : \A j \in S : j <= i

\* Last, of any sequence of changes.
LastIn(changes, v) == LET I == {i \in DOMAIN changes : changes[i].vm = v}
                      IN  IF I = {} THEN 0 ELSE CHOOSE i \in I : \A j \in I : j <= i

LEMMA LastOfLog == \A v \in Vm : Last(v) = LastIn(log, v) /\ Last(v)' = LastIn(log', v)
BY DEF Last, LastIn

\* A last change is all that decides Last.
LEMMA LastIs ==
    ASSUME NEW L, L \in Seq(Change), NEW v \in Vm, NEW k \in 0 .. Len(L),
           k # 0 => L[k].vm = v,
           \A i \in 1 .. Len(L) : L[i].vm = v => i <= k /\ k # 0
    PROVE  LastIn(L, v) = k
<1> DEFINE I == {i \in DOMAIN L : L[i].vm = v}
<1>1. DOMAIN L = 1 .. Len(L) /\ Len(L) \in Nat
  OBVIOUS
<1>2. CASE k = 0
  <2>1. I = {}
    BY <1>1, <1>2
  <2> QED
    BY <1>2, <2>1 DEF LastIn
<1>3. CASE k # 0
  <2>1. k \in I /\ \A j \in I : j <= k
    BY <1>1, <1>3
  <2>2. \A i \in I : (\A j \in I : j <= i) => i = k
    BY <1>1, <2>1
  <2>3. I # {}
    BY <2>1
  <2>4. LastIn(L, v) = CHOOSE i \in I : \A j \in I : j <= i
    BY <2>3 DEF LastIn
  <2> QED
    BY <2>1, <2>2, <2>4
<1> QED
  BY <1>2, <1>3

LEMMA LastChange ==
    ASSUME log \in Seq(Change), Counted, NEW v \in Vm
    PROVE  /\ Last(v) \in 0 .. Len(log)
           /\ Last(v) # 0 => log[Last(v)].vm = v
           /\ \A i \in 1 .. Len(log) : log[i].vm = v => i <= Last(v) /\ Last(v) # 0
<1> DEFINE I == {i \in DOMAIN log : log[i].vm = v}
<1>1. DOMAIN log = 1 .. Len(log) /\ Len(log) \in Nat
  OBVIOUS
<1>2. CASE I = {}
  <2>1. Last(v) = 0
    BY <1>2 DEF Last
  <2> QED
    BY <1>1, <1>2, <2>1
<1>3. CASE I # {}
  <2>1. \E i \in I : \A j \in I : j <= i
    BY <1>1, <1>3 DEF Counted
  <2>2. Last(v) = CHOOSE i \in I : \A j \in I : j <= i
    BY <1>3 DEF Last
  <2>3. Last(v) \in I /\ \A j \in I : j <= Last(v)
    BY <2>1, <2>2
  <2> QED
    BY <1>1, <2>3
<1> QED
  BY <1>2, <1>3

LEMMA Recorded ==
    ASSUME log \in Seq(Change), Counted,
           NEW v \in Vm, NEW n \in Node, NEW gone \in BOOLEAN, Record(v, n, gone)
    PROVE  /\ log' \in Seq(Change) /\ Counted' /\ Len(log') = Len(log) + 1
           /\ \A i \in 1 .. Len(log) : log'[i] = log[i]
           /\ log'[Len(log) + 1] = [vm |-> v, node |-> n, deleted |-> gone]
           /\ Last(v)' = Len(log) + 1
           /\ \A u \in Vm \ {v} : Last(u)' = Last(u)
<1> DEFINE c == [vm |-> v, node |-> n, deleted |-> gone]
<1>1. c \in Change /\ c.vm = v
  BY DEF Change
<1> HIDE DEF c
<1>2. log' = Append(log, c)
  BY DEF Record, c
<1>3. Len(log) \in Nat
  OBVIOUS
<1>4. log' \in Seq(Change) /\ Len(log') = Len(log) + 1
  BY <1>1, <1>2
<1>5. (\A i \in 1 .. Len(log) : log'[i] = log[i]) /\ log'[Len(log) + 1] = c
  BY <1>1, <1>2
<1>6. Counted'
  <2> SUFFICES ASSUME NEW S \in SUBSET (1 .. Len(log) + 1), S # {}
               PROVE  /\ \E i \in S : \A j \in S : i <= j
                      /\ \E i \in S : \A j \in S : j <= i
    BY <1>4 DEF Counted
  <2> DEFINE T == S \cap (1 .. Len(log))
  <2>1. CASE T = {}
    <3>1. \A i \in S : i = Len(log) + 1
      BY <1>3, <2>1
    <3>2. \A i, j \in S : i <= j
      BY <1>3, <3>1
    <3> QED
      BY <3>2
  <2>2. CASE T # {}
    <3>1. (\E i \in T : \A j \in T : i <= j) /\ (\E i \in T : \A j \in T : j <= i)
      BY <2>2 DEF Counted
    <3>2. \A i \in S : i \in Nat /\ (i \in T \/ i = Len(log) + 1)
      BY <1>3
    <3>3. \A i \in T : i \in S /\ i < Len(log) + 1
      BY <1>3
    <3>4. \E i \in S : \A j \in S : i <= j
      <4>1. PICK i \in T : \A j \in T : i <= j
        BY <3>1
      <4> QED
        BY <3>2, <3>3, <4>1
    <3>5. \E i \in S : \A j \in S : j <= i
      <4>1. CASE Len(log) + 1 \in S
        BY <1>3, <3>2, <3>3, <4>1
      <4>2. CASE Len(log) + 1 \notin S
        BY <3>1, <3>2, <3>3, <4>2
      <4> QED
        BY <4>1, <4>2
    <3> QED
      BY <3>4, <3>5
  <2> QED
    BY <2>1, <2>2
<1>7. Last(v)' = Len(log) + 1
  <2>1. /\ log'[Len(log) + 1].vm = v
        /\ \A i \in 1 .. Len(log') : i <= Len(log) + 1
    BY <1>1, <1>3, <1>4, <1>5
  <2>2. log' \in Seq(Change) /\ Len(log) + 1 \in 0 .. Len(log') /\ Len(log) + 1 # 0
    BY <1>3, <1>4
  <2>3. LastIn(log', v) = Len(log) + 1
    BY <2>1, <2>2, LastIs
  <2> QED
    BY <2>3, LastOfLog
<1>8. ASSUME NEW u \in Vm \ {v} PROVE Last(u)' = Last(u)
  <2>1. /\ Last(u) \in 0 .. Len(log)
        /\ Last(u) # 0 => log[Last(u)].vm = u
        /\ \A i \in 1 .. Len(log) : log[i].vm = u => i <= Last(u) /\ Last(u) # 0
    BY LastChange
  <2>2. Last(u) \in 0 .. Len(log') /\ (Last(u) # 0 => log'[Last(u)].vm = u)
    BY <1>3, <1>4, <1>5, <2>1
  <2>3. \A i \in 1 .. Len(log') : log'[i].vm = u => i <= Last(u) /\ Last(u) # 0
    <3>1. \A i \in 1 .. Len(log') : i \in 1 .. Len(log) \/ i = Len(log) + 1
      BY <1>3, <1>4
    <3>2. log'[Len(log) + 1].vm # u
      BY <1>1, <1>5
    <3> QED
      BY <1>5, <2>1, <3>1, <3>2
  <2>4. LastIn(log', u) = Last(u)
    BY <1>4, <2>2, <2>3, LastIs
  <2> QED
    BY <2>4, LastOfLog
<1> QED
  BY <1>4, <1>5, <1>6, <1>7, <1>8 DEF c

-----------------------------------------------------------------------------
(* Type correctness.                                                       *)

\* A publication is recorded by the watcher of its VM, a withdrawal after it;
\* both name a node that the VM has been on.
Places == /\ \A v \in Vm : at[v] \in been[v]
          /\ \A i \in 1 .. Len(log) : log[i].node \in been[log[i].vm]

Logs == \/ log' = log
        \/ \E v \in Vm, n \in Node, gone \in BOOLEAN :
              /\ Record(v, n, gone)
              /\ n \in been[v]
              /\ ~gone => watch[v] = "publish"

LEMMA PutLogs ==
    ASSUME TypeInv, Places, NEW v \in Vm, watch[v] = "publish", Put(v)
    PROVE  Logs
<1>1. at[v] \in Node /\ at[v] \in been[v]
  BY DEF TypeInv, Places
<1>2. log' = log \/ Record(v, at[v], FALSE)
  BY DEF Put
<1> QED
  BY <1>1, <1>2 DEF Logs

LEMMA DeleteLogs ==
    ASSUME TypeInv, Counted, Places, NEW v \in Vm, Delete(v)
    PROVE  Logs
<1>1. CASE Published(v)
  <2>1. Last(v) \in 1 .. Len(log) /\ log[Last(v)].vm = v
    <3>1. log \in Seq(Change) /\ Last(v) # 0
      BY <1>1 DEF TypeInv, Published
    <3> QED
      BY <3>1, LastChange
  <2>2. log[Last(v)] \in Change
    BY <2>1 DEF TypeInv
  <2>3. log[Last(v)].node \in Node /\ log[Last(v)].node \in been[v]
    BY <2>1, <2>2 DEF Change, Places
  <2>4. Record(v, log[Last(v)].node, TRUE)
    BY <1>1 DEF Delete
  <2> QED
    BY <2>3, <2>4 DEF Logs
<1>2. CASE ~Published(v)
  BY <1>2 DEF Delete, Logs
<1> QED
  BY <1>1, <1>2

LEMMA NextLogs == TypeInv /\ Counted /\ Places /\ [Next]_vars => Logs
<1> SUFFICES ASSUME TypeInv, Counted, Places, [Next]_vars PROVE Logs
  OBVIOUS
<1>1. CASE UNCHANGED vars
  BY <1>1 DEF vars, runtime, beacon, cache, stream, kernel, Logs
<1>2. CASE Outage
  BY <1>2 DEF Outage, Fall, runtime, beacon, cache, stream, kernel, Logs
<1>3. CASE Recover
  BY <1>3 DEF Recover, runtime, beacon, cache, stream, kernel, Logs
<1>4. ASSUME NEW v \in Vm, Start(v) PROVE Logs
  BY <1>4 DEF Start, runtime, beacon, cache, stream, kernel, Logs
<1>5. ASSUME NEW v \in Vm, AddTap(v) PROVE Logs
  BY <1>5 DEF AddTap, runtime, beacon, cache, stream, kernel, Logs
<1>6. ASSUME NEW v \in Vm, Stop(v) PROVE Logs
  BY <1>6 DEF Stop, runtime, beacon, cache, stream, kernel, Logs
<1>7. ASSUME NEW v \in Vm, Drain(v) PROVE Logs
  BY <1>7 DEF Drain, runtime, beacon, cache, stream, kernel, Logs
<1>8. ASSUME NEW v \in Vm, Withdraw(v) PROVE Logs
  BY <1>8, DeleteLogs DEF Withdraw, Logs
<1>9. ASSUME NEW v \in Vm, Leave(v) PROVE Logs
  BY <1>9 DEF Leave, runtime, beacon, cache, stream, kernel, Logs
<1>10. ASSUME NEW v \in Vm, ApplyCachedMembers(v) PROVE Logs
  BY <1>10 DEF ApplyCachedMembers, runtime, beacon, cache, stream, kernel, Logs
<1>11. ASSUME NEW v \in Vm, Publish(v) PROVE Logs
  BY <1>11, PutLogs DEF Publish, Logs
<1>12. ASSUME NEW v \in Vm, PublishUnanswered(v) PROVE Logs
  BY <1>12, PutLogs DEF PublishUnanswered
<1>13. ASSUME NEW v \in Vm, Connect(v) PROVE Logs
  BY <1>13 DEF Connect, runtime, beacon, cache, stream, kernel, Logs
<1>14. ASSUME NEW v \in Vm, Receive(v) PROVE Logs
  BY <1>14 DEF Receive, runtime, beacon, cache, stream, kernel, Logs
<1>15. ASSUME NEW v \in Vm, Route(v) PROVE Logs
  BY <1>15 DEF Route, runtime, beacon, cache, stream, kernel, Logs
<1>16. ASSUME NEW v \in Vm, Disconnect(v) PROVE Logs
  BY <1>16 DEF Disconnect, runtime, beacon, cache, stream, kernel, Logs
<1>17. ASSUME NEW v \in Vm, Retry(v) PROVE Logs
  BY <1>17 DEF Retry, runtime, beacon, cache, stream, kernel, Logs
<1>18. ASSUME NEW v \in Vm, Exit(v) PROVE Logs
  BY <1>18 DEF Exit, runtime, beacon, cache, stream, kernel, Logs
<1>19. ASSUME NEW v \in Vm, Kill(v) PROVE Logs
  BY <1>19 DEF Kill, runtime, beacon, cache, stream, kernel, Logs
<1>20. ASSUME NEW v \in Vm, NEW n \in Target, Move(v, n) PROVE Logs
  BY <1>20 DEF Move, runtime, beacon, cache, stream, kernel, Logs
<1> QED
  BY <1>1, <1>2, <1>3, <1>4, <1>5, <1>6, <1>7, <1>8, <1>9, <1>10, <1>11, <1>12, <1>13, <1>14, <1>15, <1>16, <1>17, <1>18, <1>19, <1>20 DEF Next, Disturb, Operate, Watcher

LEMMA LogTypes ==
    ASSUME TypeInv, Counted, Logs
    PROVE  log' \in Seq(Change) /\ Counted'
<1>1. CASE log' = log
  BY <1>1 DEF TypeInv, Counted
<1>2. CASE \E v \in Vm, n \in Node, gone \in BOOLEAN : Record(v, n, gone)
  BY <1>2, Recorded DEF TypeInv
<1> QED
  BY <1>1, <1>2 DEF Logs

\* The first change that a watcher has not been sent.
First(v) == CHOOSE i \in Unsent(v) : \A j \in Unsent(v) : i <= j

LEMMA FirstUnsent ==
    ASSUME TypeInv, Counted, NEW v \in Vm, Unsent(v) # {}
    PROVE  /\ First(v) \in Unsent(v) /\ \A j \in Unsent(v) : First(v) <= j
           /\ First(v) \in 1 .. Len(log) /\ First(v) > pos[v]
           /\ log[First(v)] \in Change
<1>1. pos[v] \in Nat /\ Len(log) \in Nat
  BY DEF TypeInv
<1>2. Unsent(v) \subseteq 1 .. Len(log) /\ \A i \in Unsent(v) : i > pos[v]
  BY <1>1 DEF Unsent
<1>3. \E i \in Unsent(v) : \A j \in Unsent(v) : i <= j
  BY <1>2 DEF Counted
<1>4. First(v) \in Unsent(v) /\ \A j \in Unsent(v) : First(v) <= j
  BY <1>3 DEF First
<1>5. First(v) \in 1 .. Len(log) /\ First(v) > pos[v]
  BY <1>2, <1>4
<1> QED
  BY <1>4, <1>5 DEF TypeInv

\* What Receive does, with the change named.
Received(v, i) ==
    /\ pos' = [pos EXCEPT ![v] = i]
    /\ sub' = [sub EXCEPT ![v] = IF i = @ THEN 0 ELSE @]
    /\ \/ log[i].node = at[v] /\ UNCHANGED <<cache, job, watch>>
       \/ /\ log[i].node # at[v]
          /\ \E to \in Node \cup {None} :
                /\ to = IF log[i].deleted THEN None ELSE log[i].node
                /\ Learn(v, log[i].vm, to, i)
                /\ job' = [job EXCEPT ![v] = [vm |-> log[i].vm, to |-> to]]
          /\ watch' = [watch EXCEPT ![v] = "route"]

LEMMA ReceiveFirst ==
    ASSUME TypeInv, Counted, NEW v \in Vm, Receive(v)
    PROVE  Received(v, First(v)) /\ watch[v] = "watch" /\ Unsent(v) # {}
<1>1. log[First(v)] \in Change
  BY FirstUnsent DEF Receive
<1>2. (IF log[First(v)].deleted THEN None ELSE log[First(v)].node) \in Node \cup {None}
  BY <1>1 DEF Change
<1> QED
  BY <1>2 DEF Receive, Received, First

\* A cache after Learn.
LEMMA Learnt ==
    ASSUME TypeInv, NEW v \in Vm, NEW u \in Vm, NEW to \in Node \cup {None}, NEW i \in Nat,
           Learn(v, u, to, i)
    PROVE  /\ mem' \in [Vm -> Caches] /\ file' \in [Vm -> Caches]
           /\ mem'[v].revision = IF i > mem[v].revision THEN i ELSE mem[v].revision
           /\ mem'[v].members = [mem[v].members EXCEPT ![u] = to]
           /\ file'[v] \in {file[v], mem'[v]}
           /\ \A w \in Vm \ {v} : mem'[w] = mem[w] /\ file'[w] = file[w]
<1> DEFINE new == [revision |-> IF i > mem[v].revision THEN i ELSE mem[v].revision,
                   members  |-> [mem[v].members EXCEPT ![u] = to]]
<1>1. mem \in [Vm -> Caches] /\ file \in [Vm -> Caches]
  BY DEF TypeInv
<1>2. mem[v].revision \in Nat /\ mem[v].members \in [Vm -> Node \cup {None}]
  BY <1>1 DEF Caches
<1>3. new \in Caches
  BY <1>2 DEF Caches
<1>4. /\ mem' = [mem EXCEPT ![v] = new]
      /\ file' = IF mem[v].members[u] = to THEN file ELSE [file EXCEPT ![v] = new]
  BY DEF Learn
<1>5. /\ new.revision = IF i > mem[v].revision THEN i ELSE mem[v].revision
      /\ new.members = [mem[v].members EXCEPT ![u] = to]
  OBVIOUS
<1> HIDE DEF new
<1>6. mem' \in [Vm -> Caches] /\ file' \in [Vm -> Caches]
  BY <1>1, <1>3, <1>4
<1>7. mem'[v] = new /\ file'[v] \in {file[v], new}
  BY <1>1, <1>4
<1>8. \A w \in Vm \ {v} : mem'[w] = mem[w] /\ file'[w] = file[w]
  BY <1>1, <1>4
<1> QED
  BY <1>5, <1>6, <1>7, <1>8

LEMMA TypeInit == Init => TypeInv /\ Counted /\ Places
<1> SUFFICES ASSUME Init PROVE TypeInv /\ Counted /\ Places
  OBVIOUS
<1>1. at \in [Vm -> Node] /\ Empty \in Caches /\ log \in Seq(Change) /\ Len(log) = 0
  BY HomeAssumption DEF Init, Empty, Caches
<1>2. TypeInv
  BY <1>1 DEF Init, TypeInv
<1>3. Counted
  <2>1. 1 .. Len(log) = {}
    BY <1>1
  <2> QED
    BY <2>1 DEF Counted
<1>4. Places
  BY <1>1, HomeAssumption DEF Init, Places
<1> QED
  BY <1>2, <1>3, <1>4

LEMMA TypeStep == TypeInv /\ Counted /\ Places /\ [Next]_vars => TypeInv'
<1> SUFFICES ASSUME TypeInv, Counted, Places, [Next]_vars PROVE TypeInv'
  OBVIOUS
<1>0. log' \in Seq(Change)
  BY NextLogs, LogTypes
<1>1. CASE UNCHANGED vars
  BY <1>1 DEF vars, runtime, beacon, cache, stream, kernel, TypeInv
<1>2. CASE Outage
  BY <1>2 DEF Outage, Fall, runtime, beacon, cache, stream, kernel, TypeInv
<1>3. CASE Recover
  BY <1>3 DEF Recover, runtime, beacon, cache, stream, kernel, TypeInv
<1>4. ASSUME NEW v \in Vm, Start(v) PROVE TypeInv'
  BY <1>4 DEF Start, runtime, beacon, cache, stream, kernel, TypeInv
<1>5. ASSUME NEW v \in Vm, AddTap(v) PROVE TypeInv'
  <2>1. route' \in [Node -> [Vm -> Node \cup {None, "tap"}]]
    BY <1>5 DEF AddTap, TypeInv
  <2> QED
    BY <1>5, <2>1 DEF AddTap, runtime, beacon, cache, stream, kernel, TypeInv
<1>6. ASSUME NEW v \in Vm, Stop(v) PROVE TypeInv'
  <2>1. route' \in [Node -> [Vm -> Node \cup {None, "tap"}]]
    BY <1>6 DEF Stop, TypeInv
  <2> QED
    BY <1>6, <2>1 DEF Stop, runtime, beacon, cache, stream, kernel, TypeInv
<1>7. ASSUME NEW v \in Vm, Drain(v) PROVE TypeInv'
  BY <1>7 DEF Drain, runtime, beacon, cache, stream, kernel, TypeInv
<1>8. ASSUME NEW v \in Vm, Withdraw(v) PROVE TypeInv'
  BY <1>0, <1>8 DEF Withdraw, runtime, beacon, cache, stream, kernel, TypeInv
<1>9. ASSUME NEW v \in Vm, Leave(v) PROVE TypeInv'
  <2>1. route' \in [Node -> [Vm -> Node \cup {None, "tap"}]]
    <3>1. [u \in Vm |-> None] \in [Vm -> Node \cup {None, "tap"}]
      OBVIOUS
    <3>2. route' = route \/ route' = [route EXCEPT ![at[v]] = [u \in Vm |-> None]]
      BY <1>9 DEF Leave, kernel
    <3> QED
      BY <3>1, <3>2 DEF TypeInv
  <2> QED
    BY <1>9, <2>1 DEF Leave, runtime, beacon, cache, stream, TypeInv
<1>10. ASSUME NEW v \in Vm, ApplyCachedMembers(v) PROVE TypeInv'
  <2> DEFINE known == {u \in Vm : file[v].members[u] # None}
  <2>1. file[v] \in Caches /\ file[v].members \in [Vm -> Node \cup {None}]
    BY DEF TypeInv, Caches
  <2>2. mem' = [mem EXCEPT ![v] = IF known = {} THEN @ ELSE file[v]]
    BY <1>10 DEF ApplyCachedMembers
  <2>3. route' = [route EXCEPT ![at[v]] =
                     [u \in Vm |-> IF u \in known THEN file[v].members[u] ELSE @[u]]]
    BY <1>10 DEF ApplyCachedMembers
  <2> HIDE DEF known
  <2>4. mem' \in [Vm -> Caches]
    BY <2>1, <2>2 DEF TypeInv
  <2>5. route' \in [Node -> [Vm -> Node \cup {None, "tap"}]]
    <3>1. route[at[v]] \in [Vm -> Node \cup {None, "tap"}]
      BY DEF TypeInv
    <3>2. [u \in Vm |-> IF u \in known THEN file[v].members[u] ELSE route[at[v]][u]]
             \in [Vm -> Node \cup {None, "tap"}]
      BY <2>1, <3>1
    <3> QED
      BY <2>3, <3>2 DEF TypeInv
  <2> QED
    BY <1>10, <2>4, <2>5 DEF ApplyCachedMembers, runtime, beacon, cache, stream, kernel, TypeInv
<1>11. ASSUME NEW v \in Vm, Publish(v) PROVE TypeInv'
  BY <1>0, <1>11 DEF Publish, runtime, beacon, cache, stream, kernel, TypeInv
<1>12. ASSUME NEW v \in Vm, PublishUnanswered(v) PROVE TypeInv'
  BY <1>0, <1>12 DEF PublishUnanswered, runtime, beacon, cache, stream, kernel, TypeInv
<1>13. ASSUME NEW v \in Vm, Connect(v) PROVE TypeInv'
  <2>1. mem[v].revision \in Nat /\ Len(log) \in Nat
    BY DEF TypeInv, Caches
  <2> QED
    BY <1>13, <2>1 DEF Connect, runtime, beacon, cache, stream, kernel, TypeInv
<1>14. ASSUME NEW v \in Vm, Receive(v) PROVE TypeInv'
  <2>1. Received(v, First(v)) /\ First(v) \in 1 .. Len(log) /\ log[First(v)] \in Change
    BY <1>14, ReceiveFirst, FirstUnsent
  <2> DEFINE i == First(v)
  <2> HIDE DEF i
  <2>2. i \in Nat /\ log[i].vm \in Vm /\ Received(v, i)
    BY <2>1 DEF Change, i, TypeInv
  <2>3. /\ UNCHANGED <<pc, at, been, log, route>>
        /\ pos' \in [Vm -> Nat] /\ sub' \in [Vm -> Nat]
    <3>1. UNCHANGED <<pc, at, been, log, route>>
      BY <1>14 DEF Receive, beacon, kernel
    <3>2. pos' = [pos EXCEPT ![v] = i] /\ sub' = [sub EXCEPT ![v] = IF i = @ THEN 0 ELSE @]
      BY <2>2 DEF Received
    <3>3. pos' \in [Vm -> Nat]
      BY <2>2, <3>2 DEF TypeInv
    <3>4. sub' \in [Vm -> Nat]
      BY <3>2 DEF TypeInv
    <3> QED
      BY <3>1, <3>3, <3>4
  <2>4. CASE log[i].node = at[v]
    BY <2>2, <2>3, <2>4 DEF Received, TypeInv, cache
  <2>5. CASE log[i].node # at[v]
    <3>1. PICK to \in Node \cup {None} :
              /\ Learn(v, log[i].vm, to, i)
              /\ job' = [job EXCEPT ![v] = [vm |-> log[i].vm, to |-> to]]
      BY <2>2, <2>5 DEF Received
    <3>2. mem' \in [Vm -> Caches] /\ file' \in [Vm -> Caches]
      BY <2>2, <3>1, Learnt
    <3>3. watch' = [watch EXCEPT ![v] = "route"]
      BY <2>2, <2>5 DEF Received
    <3>4. [vm |-> log[i].vm, to |-> to] \in Job
      BY <2>2 DEF Job
    <3> QED
      BY <2>3, <3>1, <3>2, <3>3, <3>4 DEF TypeInv
  <2> QED
    BY <2>4, <2>5
<1>15. ASSUME NEW v \in Vm, Route(v) PROVE TypeInv'
  <2>1. job[v] \in Job /\ job[v].vm \in Vm /\ job[v].to \in Node \cup {None}
    BY <1>15 DEF Route, TypeInv, Job
  <2>2. route' \in [Node -> [Vm -> Node \cup {None, "tap"}]]
    BY <1>15, <2>1 DEF Route, TypeInv
  <2> QED
    BY <1>15, <2>2 DEF Route, runtime, beacon, cache, stream, kernel, TypeInv
<1>16. ASSUME NEW v \in Vm, Disconnect(v) PROVE TypeInv'
  BY <1>16 DEF Disconnect, runtime, beacon, cache, stream, kernel, TypeInv
<1>17. ASSUME NEW v \in Vm, Retry(v) PROVE TypeInv'
  BY <1>17 DEF Retry, runtime, beacon, cache, stream, kernel, TypeInv
<1>18. ASSUME NEW v \in Vm, Exit(v) PROVE TypeInv'
  BY <1>18 DEF Exit, runtime, beacon, cache, stream, kernel, TypeInv
<1>19. ASSUME NEW v \in Vm, Kill(v) PROVE TypeInv'
  <2>1. Empty \in Caches
    BY DEF Empty, Caches
  <2> QED
    BY <1>19, <2>1 DEF Kill, runtime, beacon, cache, stream, kernel, TypeInv
<1>20. ASSUME NEW v \in Vm, NEW n \in Target, Move(v, n) PROVE TypeInv'
  <2>1. Empty \in Caches /\ n \in Node
    BY HomeAssumption DEF Empty, Caches
  <2> QED
    BY <1>20, <2>1 DEF Move, runtime, beacon, cache, stream, kernel, TypeInv
<1> QED
  BY <1>1, <1>2, <1>3, <1>4, <1>5, <1>6, <1>7, <1>8, <1>9, <1>10, <1>11, <1>12, <1>13, <1>14, <1>15, <1>16, <1>17, <1>18, <1>19, <1>20 DEF Next, Disturb, Operate, Watcher

\* A VM stays where it is, or has moved.
Stayed == \A v \in Vm :
    /\ been[v] \subseteq been'[v]
    /\ ~Moved(v)' => ~Moved(v) /\ at'[v] = at[v] /\ been'[v] = been[v]

LEMMA Stays == TypeInv /\ Places /\ [Next]_vars => Stayed
<1> SUFFICES ASSUME TypeInv, Places, [Next]_vars PROVE Stayed
  OBVIOUS
<1>1. CASE UNCHANGED vars
  BY <1>1 DEF vars, runtime, beacon, cache, stream, kernel, Stayed, Moved
<1>2. CASE Outage
  BY <1>2 DEF Outage, Fall, runtime, beacon, cache, stream, kernel, Stayed, Moved
<1>3. CASE Recover
  BY <1>3 DEF Recover, runtime, beacon, cache, stream, kernel, Stayed, Moved
<1>4. ASSUME NEW v \in Vm, Start(v) PROVE Stayed
  BY <1>4 DEF Start, runtime, beacon, cache, stream, kernel, Stayed, Moved
<1>5. ASSUME NEW v \in Vm, AddTap(v) PROVE Stayed
  BY <1>5 DEF AddTap, runtime, beacon, cache, stream, kernel, Stayed, Moved
<1>6. ASSUME NEW v \in Vm, Stop(v) PROVE Stayed
  BY <1>6 DEF Stop, runtime, beacon, cache, stream, kernel, Stayed, Moved
<1>7. ASSUME NEW v \in Vm, Drain(v) PROVE Stayed
  BY <1>7 DEF Drain, runtime, beacon, cache, stream, kernel, Stayed, Moved
<1>8. ASSUME NEW v \in Vm, Withdraw(v) PROVE Stayed
  BY <1>8 DEF Withdraw, runtime, beacon, cache, stream, kernel, Stayed, Moved
<1>9. ASSUME NEW v \in Vm, Leave(v) PROVE Stayed
  BY <1>9 DEF Leave, runtime, beacon, cache, stream, kernel, Stayed, Moved
<1>10. ASSUME NEW v \in Vm, ApplyCachedMembers(v) PROVE Stayed
  BY <1>10 DEF ApplyCachedMembers, runtime, beacon, cache, stream, kernel, Stayed, Moved
<1>11. ASSUME NEW v \in Vm, Publish(v) PROVE Stayed
  BY <1>11 DEF Publish, runtime, beacon, cache, stream, kernel, Stayed, Moved
<1>12. ASSUME NEW v \in Vm, PublishUnanswered(v) PROVE Stayed
  BY <1>12 DEF PublishUnanswered, runtime, beacon, cache, stream, kernel, Stayed, Moved
<1>13. ASSUME NEW v \in Vm, Connect(v) PROVE Stayed
  BY <1>13 DEF Connect, runtime, beacon, cache, stream, kernel, Stayed, Moved
<1>14. ASSUME NEW v \in Vm, Receive(v) PROVE Stayed
  BY <1>14 DEF Receive, runtime, beacon, cache, stream, kernel, Stayed, Moved
<1>15. ASSUME NEW v \in Vm, Route(v) PROVE Stayed
  BY <1>15 DEF Route, runtime, beacon, cache, stream, kernel, Stayed, Moved
<1>16. ASSUME NEW v \in Vm, Disconnect(v) PROVE Stayed
  BY <1>16 DEF Disconnect, runtime, beacon, cache, stream, kernel, Stayed, Moved
<1>17. ASSUME NEW v \in Vm, Retry(v) PROVE Stayed
  BY <1>17 DEF Retry, runtime, beacon, cache, stream, kernel, Stayed, Moved
<1>18. ASSUME NEW v \in Vm, Exit(v) PROVE Stayed
  BY <1>18 DEF Exit, runtime, beacon, cache, stream, kernel, Stayed, Moved
<1>19. ASSUME NEW v \in Vm, Kill(v) PROVE Stayed
  BY <1>19 DEF Kill, runtime, beacon, cache, stream, kernel, Stayed, Moved
<1>20. ASSUME NEW v \in Vm, NEW n \in Target, Move(v, n) PROVE Stayed
  <2>1. at' = [at EXCEPT ![v] = n] /\ been' = [been EXCEPT ![v] = @ \cup {n}] /\ n # at[v]
    BY <1>20 DEF Move
  <2>2. \A u \in Vm \ {v} : at'[u] = at[u] /\ been'[u] = been[u]
    BY <2>1 DEF TypeInv
  <2>3. at'[v] = n /\ been'[v] = been[v] \cup {n} /\ at[v] \in been[v]
    BY <2>1 DEF TypeInv, Places
  <2> QED
    BY <2>1, <2>2, <2>3 DEF Stayed, Moved
<1> QED
  BY <1>1, <1>2, <1>3, <1>4, <1>5, <1>6, <1>7, <1>8, <1>9, <1>10, <1>11, <1>12, <1>13, <1>14, <1>15, <1>16, <1>17, <1>18, <1>19, <1>20 DEF Next, Disturb, Operate, Watcher

LEMMA Housed == TypeInv /\ Places /\ [Next]_vars => \A u \in Vm : at'[u] \in been'[u]
<1> SUFFICES ASSUME TypeInv, Places, [Next]_vars PROVE \A u \in Vm : at'[u] \in been'[u]
  OBVIOUS
<1>1. CASE UNCHANGED vars
  BY <1>1 DEF vars, runtime, beacon, cache, stream, kernel, Places
<1>2. CASE Outage
  BY <1>2 DEF Outage, Fall, runtime, beacon, cache, stream, kernel, Places
<1>3. CASE Recover
  BY <1>3 DEF Recover, runtime, beacon, cache, stream, kernel, Places
<1>4. ASSUME NEW v \in Vm, Start(v) PROVE \A u \in Vm : at'[u] \in been'[u]
  BY <1>4 DEF Start, runtime, beacon, cache, stream, kernel, Places
<1>5. ASSUME NEW v \in Vm, AddTap(v) PROVE \A u \in Vm : at'[u] \in been'[u]
  BY <1>5 DEF AddTap, runtime, beacon, cache, stream, kernel, Places
<1>6. ASSUME NEW v \in Vm, Stop(v) PROVE \A u \in Vm : at'[u] \in been'[u]
  BY <1>6 DEF Stop, runtime, beacon, cache, stream, kernel, Places
<1>7. ASSUME NEW v \in Vm, Drain(v) PROVE \A u \in Vm : at'[u] \in been'[u]
  BY <1>7 DEF Drain, runtime, beacon, cache, stream, kernel, Places
<1>8. ASSUME NEW v \in Vm, Withdraw(v) PROVE \A u \in Vm : at'[u] \in been'[u]
  BY <1>8 DEF Withdraw, runtime, beacon, cache, stream, kernel, Places
<1>9. ASSUME NEW v \in Vm, Leave(v) PROVE \A u \in Vm : at'[u] \in been'[u]
  BY <1>9 DEF Leave, runtime, beacon, cache, stream, kernel, Places
<1>10. ASSUME NEW v \in Vm, ApplyCachedMembers(v) PROVE \A u \in Vm : at'[u] \in been'[u]
  BY <1>10 DEF ApplyCachedMembers, runtime, beacon, cache, stream, kernel, Places
<1>11. ASSUME NEW v \in Vm, Publish(v) PROVE \A u \in Vm : at'[u] \in been'[u]
  BY <1>11 DEF Publish, runtime, beacon, cache, stream, kernel, Places
<1>12. ASSUME NEW v \in Vm, PublishUnanswered(v) PROVE \A u \in Vm : at'[u] \in been'[u]
  BY <1>12 DEF PublishUnanswered, runtime, beacon, cache, stream, kernel, Places
<1>13. ASSUME NEW v \in Vm, Connect(v) PROVE \A u \in Vm : at'[u] \in been'[u]
  BY <1>13 DEF Connect, runtime, beacon, cache, stream, kernel, Places
<1>14. ASSUME NEW v \in Vm, Receive(v) PROVE \A u \in Vm : at'[u] \in been'[u]
  BY <1>14 DEF Receive, runtime, beacon, cache, stream, kernel, Places
<1>15. ASSUME NEW v \in Vm, Route(v) PROVE \A u \in Vm : at'[u] \in been'[u]
  BY <1>15 DEF Route, runtime, beacon, cache, stream, kernel, Places
<1>16. ASSUME NEW v \in Vm, Disconnect(v) PROVE \A u \in Vm : at'[u] \in been'[u]
  BY <1>16 DEF Disconnect, runtime, beacon, cache, stream, kernel, Places
<1>17. ASSUME NEW v \in Vm, Retry(v) PROVE \A u \in Vm : at'[u] \in been'[u]
  BY <1>17 DEF Retry, runtime, beacon, cache, stream, kernel, Places
<1>18. ASSUME NEW v \in Vm, Exit(v) PROVE \A u \in Vm : at'[u] \in been'[u]
  BY <1>18 DEF Exit, runtime, beacon, cache, stream, kernel, Places
<1>19. ASSUME NEW v \in Vm, Kill(v) PROVE \A u \in Vm : at'[u] \in been'[u]
  BY <1>19 DEF Kill, runtime, beacon, cache, stream, kernel, Places
<1>20. ASSUME NEW v \in Vm, NEW n \in Target, Move(v, n) PROVE \A u \in Vm : at'[u] \in been'[u]
  <2>1. at' = [at EXCEPT ![v] = n] /\ been' = [been EXCEPT ![v] = @ \cup {n}]
    BY <1>20 DEF Move
  <2> QED
    BY <2>1 DEF TypeInv, Places
<1> QED
  BY <1>1, <1>2, <1>3, <1>4, <1>5, <1>6, <1>7, <1>8, <1>9, <1>10, <1>11, <1>12, <1>13, <1>14, <1>15, <1>16, <1>17, <1>18, <1>19, <1>20 DEF Next, Disturb, Operate, Watcher

LEMMA PlacesStep == TypeInv /\ Counted /\ Places /\ [Next]_vars => Places'
<1> SUFFICES ASSUME TypeInv, Counted, Places, [Next]_vars PROVE Places'
  OBVIOUS
<1>1. Logs /\ Stayed
  BY NextLogs, Stays
<1>2. ASSUME NEW v \in Vm PROVE at'[v] \in been'[v]
  BY Housed
<1>3. ASSUME NEW i \in 1 .. Len(log') PROVE log'[i].node \in been'[log'[i].vm]
  <2>1. Len(log) \in Nat /\ \A j \in 1 .. Len(log) : log[j] \in Change
    BY DEF TypeInv
  <2>2. CASE i \in 1 .. Len(log) /\ log'[i] = log[i]
    <3>1. log[i].vm \in Vm
      BY <2>1, <2>2 DEF Change
    <3> QED
      BY <1>1, <2>2, <3>1 DEF Places, Stayed
  <2>3. CASE log' = log
    BY <1>3, <2>2, <2>3
  <2>4. CASE ~(log' = log)
    <3>1. PICK v \in Vm, n \in Node, gone \in BOOLEAN : Record(v, n, gone) /\ n \in been[v]
      BY <1>1, <2>4 DEF Logs
    <3>2. /\ Len(log') = Len(log) + 1
          /\ \A j \in 1 .. Len(log) : log'[j] = log[j]
          /\ log'[Len(log) + 1] = [vm |-> v, node |-> n, deleted |-> gone]
      BY <3>1, Recorded DEF TypeInv
    <3>3. CASE i = Len(log) + 1
      BY <1>1, <3>1, <3>2, <3>3 DEF Stayed
    <3>4. CASE i # Len(log) + 1
      <4>1. i \in 1 .. Len(log)
        BY <1>3, <2>1, <3>2, <3>4
      <4> QED
        BY <2>2, <3>2, <4>1
    <3> QED
      BY <3>3, <3>4
  <2> QED
    BY <2>3, <2>4
<1> QED
  BY <1>2, <1>3 DEF Places

LEMMA Basics == Spec => [](TypeInv /\ Counted /\ Places)
<1>1. TypeInv /\ Counted /\ Places /\ [Next]_vars => (TypeInv /\ Counted /\ Places)'
  BY TypeStep, NextLogs, LogTypes, PlacesStep
<1> QED
  BY <1>1, TypeInit, PTL DEF Spec

-----------------------------------------------------------------------------
(* Withdrawn addresses.                                                    *)

\* A VM that is down, or about to withdraw, has no watcher.
Off == \A v \in Vm : pc[v] \in {"down", "killed", "halted", "withdraw", "leave"} => watch[v] = "off"

LEMMA OffStep == TypeInv /\ Counted /\ Off /\ [Next]_vars => Off'
<1> SUFFICES ASSUME TypeInv, Counted, Off, [Next]_vars PROVE Off'
  OBVIOUS
<1>1. CASE UNCHANGED vars
  BY <1>1 DEF vars, runtime, beacon, cache, stream, kernel, Off, TypeInv
<1>2. CASE Outage
  BY <1>2 DEF Outage, Fall, runtime, beacon, cache, stream, kernel, Off, TypeInv
<1>3. CASE Recover
  BY <1>3 DEF Recover, runtime, beacon, cache, stream, kernel, Off, TypeInv
<1>4. ASSUME NEW v \in Vm, Start(v) PROVE Off'
  BY <1>4 DEF Start, runtime, beacon, cache, stream, kernel, Off, TypeInv
<1>5. ASSUME NEW v \in Vm, AddTap(v) PROVE Off'
  BY <1>5 DEF AddTap, runtime, beacon, cache, stream, kernel, Off, TypeInv
<1>6. ASSUME NEW v \in Vm, Stop(v) PROVE Off'
  BY <1>6 DEF Stop, runtime, beacon, cache, stream, kernel, Off, TypeInv
<1>7. ASSUME NEW v \in Vm, Drain(v) PROVE Off'
  BY <1>7 DEF Drain, runtime, beacon, cache, stream, kernel, Off, TypeInv
<1>8. ASSUME NEW v \in Vm, Withdraw(v) PROVE Off'
  BY <1>8 DEF Withdraw, runtime, beacon, cache, stream, kernel, Off, TypeInv
<1>9. ASSUME NEW v \in Vm, Leave(v) PROVE Off'
  BY <1>9 DEF Leave, runtime, beacon, cache, stream, kernel, Off, TypeInv
<1>10. ASSUME NEW v \in Vm, ApplyCachedMembers(v) PROVE Off'
  BY <1>10 DEF ApplyCachedMembers, runtime, beacon, cache, stream, kernel, Off, TypeInv
<1>11. ASSUME NEW v \in Vm, Publish(v) PROVE Off'
  BY <1>11 DEF Publish, runtime, beacon, cache, stream, kernel, Off, TypeInv
<1>12. ASSUME NEW v \in Vm, PublishUnanswered(v) PROVE Off'
  BY <1>12 DEF PublishUnanswered, runtime, beacon, cache, stream, kernel, Off, TypeInv
<1>13. ASSUME NEW v \in Vm, Connect(v) PROVE Off'
  BY <1>13 DEF Connect, runtime, beacon, cache, stream, kernel, Off, TypeInv
<1>14. ASSUME NEW v \in Vm, Receive(v) PROVE Off'
  <2>1. pc' = pc /\ \A u \in Vm : watch'[u] = "off" <=> watch[u] = "off"
    <3>1. Received(v, First(v)) /\ watch[v] = "watch" /\ pc' = pc
      BY <1>14, ReceiveFirst DEF Receive
    <3>2. watch' = watch \/ watch' = [watch EXCEPT ![v] = "route"]
      BY <3>1 DEF Received
    <3> QED
      BY <3>1, <3>2 DEF TypeInv
  <2> QED
    BY <2>1 DEF Off
<1>15. ASSUME NEW v \in Vm, Route(v) PROVE Off'
  BY <1>15 DEF Route, runtime, beacon, cache, stream, kernel, Off, TypeInv
<1>16. ASSUME NEW v \in Vm, Disconnect(v) PROVE Off'
  BY <1>16 DEF Disconnect, runtime, beacon, cache, stream, kernel, Off, TypeInv
<1>17. ASSUME NEW v \in Vm, Retry(v) PROVE Off'
  BY <1>17 DEF Retry, runtime, beacon, cache, stream, kernel, Off, TypeInv
<1>18. ASSUME NEW v \in Vm, Exit(v) PROVE Off'
  BY <1>18 DEF Exit, runtime, beacon, cache, stream, kernel, Off, TypeInv
<1>19. ASSUME NEW v \in Vm, Kill(v) PROVE Off'
  BY <1>19 DEF Kill, runtime, beacon, cache, stream, kernel, Off, TypeInv
<1>20. ASSUME NEW v \in Vm, NEW n \in Target, Move(v, n) PROVE Off'
  BY <1>20 DEF Move, runtime, beacon, cache, stream, kernel, Off, TypeInv
<1> QED
  BY <1>1, <1>2, <1>3, <1>4, <1>5, <1>6, <1>7, <1>8, <1>9, <1>10, <1>11, <1>12, <1>13, <1>14, <1>15, <1>16, <1>17, <1>18, <1>19, <1>20 DEF Next, Disturb, Operate, Watcher

LEMMA WithdrawnStep ==
    ASSUME TypeInv, Counted, Places, Off, [Next]_vars, NEW v \in Vm, pc[v] = "down", ~Published(v)
    PROVE  ~Published(v)'
<1>0. Logs
  BY NextLogs
<1>1. CASE log' = log
  BY <1>1 DEF Published, Last
<1>2. CASE log' # log
  <2>1. PICK u \in Vm, n \in Node, gone \in BOOLEAN :
            Record(u, n, gone) /\ (~gone => watch[u] = "publish")
    BY <1>0, <1>2 DEF Logs
  <2>2. /\ \A i \in 1 .. Len(log) : log'[i] = log[i]
        /\ log'[Len(log) + 1] = [vm |-> u, node |-> n, deleted |-> gone]
        /\ Last(u)' = Len(log) + 1
        /\ \A w \in Vm \ {u} : Last(w)' = Last(w)
    BY <2>1, Recorded DEF TypeInv
  <2>3. CASE u = v
    <3>1. gone
      BY <2>1, <2>3 DEF Off
    <3> QED
      BY <2>2, <2>3, <3>1 DEF Published
  <2>4. CASE u # v
    <3>1. Last(v) \in 0 .. Len(log)
      BY LastChange DEF TypeInv
    <3>2. Last(v)' = Last(v)
      BY <2>2, <2>4
    <3>3. Last(v) # 0 => log'[Last(v)] = log[Last(v)]
      BY <2>2, <3>1
    <3> QED
      BY <3>2, <3>3 DEF Published
  <2> QED
    BY <2>3, <2>4
<1> QED
  BY <1>1, <1>2

\* Once an address is withdrawn and its VM is down, nobody publishes it again
\* before the next start, for any number of VMs, outages and kills: Delete
\* cancels the watcher and waits for it before it withdraws.
THEOREM Withdrawn == Spec => WithdrawnStays
<1>1. Init => Off
  BY DEF Init, Off
<1>2. TypeInv /\ Counted /\ Off /\ [Next]_vars => Off'
  BY OffStep
<1>3. TypeInv /\ Counted /\ Places /\ Off /\ [Next]_vars
        => [\A v \in Vm : pc[v] = "down" /\ pc'[v] = "down" /\ ~Published(v) => ~Published(v)']_vars
  BY WithdrawnStep
<1> QED
  BY <1>1, <1>2, <1>3, Basics, PTL DEF Spec, WithdrawnStays

-----------------------------------------------------------------------------
(* The caches.                                                             *)

\* What CacheCoversRevision asks of one cache.
Exact(v, c) == \A u \in Vm :
    (~Moved(v) /\ Last(u) \in 1 .. c.revision /\ log[Last(u)].node # at[v])
        => c.members[u] = Owner(u)

\* No cache is ahead of the log, ...
Behind ==
    /\ \A v \in Vm : mem[v].revision <= Len(log) /\ file[v].revision <= Len(log)
    /\ \A v \in Vm : sub[v] <= Len(log) /\ pos[v] <= Len(log)

\* ... and what a watcher has been sent after the revision of its cache tells
\* nothing new of the VMs on other nodes.
Followed(v) == watch[v] \in {"watch", "route"} =>
    /\ mem[v].revision <= pos[v]
    /\ \A u \in Vm :
          ~Moved(v) /\ Last(u) \in mem[v].revision + 1 .. pos[v] => log[Last(u)].node = at[v]

Cover == Behind /\ \A v \in Vm : Exact(v, mem[v]) /\ Exact(v, file[v]) /\ Followed(v)

CacheInv == TypeInv /\ Counted /\ Places /\ Off /\ Cover

LEMMA CacheInit == Init => Cover
<1> SUFFICES ASSUME Init PROVE Cover
  OBVIOUS
<1>1. \A v \in Vm : mem[v] = Empty /\ file[v] = Empty /\ Empty.revision = 0
  BY DEF Init, Empty
<1>2. Len(log) = 0
  BY DEF Init
<1>3. Behind
  BY <1>1, <1>2 DEF Behind, Init
<1>4. \A v \in Vm : Exact(v, mem[v]) /\ Exact(v, file[v])
  BY <1>1 DEF Exact
<1>5. \A v \in Vm : Followed(v)
  BY DEF Followed, Init
<1> QED
  BY <1>3, <1>4, <1>5 DEF Cover

\* What beacon has said up to a revision is not changed by what it says later.
LEMMA PastStays ==
    ASSUME TypeInv, Counted, Logs, NEW u \in Vm, NEW k \in 0 .. Len(log),
           Last(u)' \in 1 .. k
    PROVE  /\ Last(u)' = Last(u) /\ Owner(u)' = Owner(u)
           /\ log'[Last(u)] = log[Last(u)] /\ Last(u) \in 1 .. Len(log)
<1>0. Len(log) \in Nat /\ Last(u) \in 0 .. Len(log)
  BY LastChange DEF TypeInv
<1>1. CASE log' = log
  <2>1. Last(u)' = Last(u)
    BY <1>1 DEF Last
  <2> QED
    BY <1>0, <1>1, <2>1 DEF Owner, Published
<1>2. CASE log' # log
  <2>1. PICK v \in Vm, n \in Node, gone \in BOOLEAN : Record(v, n, gone)
    BY <1>2 DEF Logs
  <2>2. /\ \A i \in 1 .. Len(log) : log'[i] = log[i]
        /\ Last(v)' = Len(log) + 1
        /\ \A w \in Vm \ {v} : Last(w)' = Last(w)
    BY <2>1, Recorded DEF TypeInv
  <2>3. u # v
    BY <1>0, <2>2
  <2>4. Last(u)' = Last(u)
    BY <2>2, <2>3
  <2>5. Last(u) \in 1 .. Len(log)
    BY <1>0, <2>4
  <2>6. log'[Last(u)] = log[Last(u)]
    BY <2>2, <2>5
  <2> QED
    BY <2>4, <2>5, <2>6 DEF Owner, Published
<1> QED
  BY <1>1, <1>2

LEMMA LogsGrow ==
    ASSUME TypeInv, Counted, Logs
    PROVE  Len(log) \in Nat /\ Len(log') \in Nat /\ Len(log) <= Len(log')
<1>0. Len(log) \in Nat
  BY DEF TypeInv
<1>1. CASE log' = log
  BY <1>0, <1>1
<1>2. CASE log' # log
  <2>1. PICK v \in Vm, n \in Node, gone \in BOOLEAN : Record(v, n, gone)
    BY <1>2 DEF Logs
  <2>2. Len(log') = Len(log) + 1
    BY <2>1, Recorded DEF TypeInv
  <2> QED
    BY <1>0, <2>2
<1> QED
  BY <1>1, <1>2

LEMMA ExactStays ==
    ASSUME TypeInv, Counted, Logs, Stayed, NEW v \in Vm, NEW c \in Caches,
           c.revision <= Len(log), Exact(v, c)
    PROVE  Exact(v, c)'
<1> SUFFICES ASSUME NEW u \in Vm, ~Moved(v)', Last(u)' \in 1 .. c.revision,
                    log'[Last(u)'].node # at'[v]
             PROVE  c.members[u] = Owner(u)'
  BY DEF Exact
<1>1. c.revision \in 0 .. Len(log)
  BY DEF Caches, TypeInv
<1>2. Last(u)' = Last(u) /\ Owner(u)' = Owner(u) /\ log'[Last(u)] = log[Last(u)]
  BY <1>1, PastStays
<1>3. ~Moved(v) /\ at'[v] = at[v]
  BY DEF Stayed
<1> QED
  BY <1>2, <1>3 DEF Exact

LEMMA FollowedStays ==
    ASSUME TypeInv, Counted, Logs, Stayed, Behind, NEW v \in Vm,
           mem'[v] = mem[v], pos'[v] = pos[v],
           watch'[v] \in {"watch", "route"} => watch[v] \in {"watch", "route"},
           Followed(v)
    PROVE  Followed(v)'
<1> SUFFICES ASSUME watch'[v] \in {"watch", "route"}
             PROVE  /\ mem[v].revision <= pos[v]
                    /\ \A u \in Vm :
                          ~Moved(v)' /\ Last(u)' \in mem[v].revision + 1 .. pos[v]
                              => log'[Last(u)'].node = at'[v]
  BY DEF Followed
<1>1. mem[v].revision \in Nat /\ pos[v] \in Nat /\ pos[v] <= Len(log) /\ Len(log) \in Nat
  BY DEF TypeInv, Caches, Behind
<1>2. mem[v].revision <= pos[v]
  BY DEF Followed
<1>3. ASSUME NEW u \in Vm, ~Moved(v)', Last(u)' \in mem[v].revision + 1 .. pos[v]
      PROVE  log'[Last(u)'].node = at'[v]
  <2>1. pos[v] \in 0 .. Len(log) /\ Last(u)' \in 1 .. pos[v]
    BY <1>1, <1>3
  <2>2. Last(u)' = Last(u) /\ log'[Last(u)] = log[Last(u)]
    BY <2>1, PastStays
  <2>3. ~Moved(v) /\ at'[v] = at[v]
    BY <1>3 DEF Stayed
  <2> QED
    BY <1>3, <2>2, <2>3 DEF Followed
<1> QED
  BY <1>2, <1>3

\* It is enough to look at the VM that takes the step.
LEMMA CoverAt ==
    ASSUME CacheInv, Logs, Stayed, NEW v \in Vm,
           \A w \in Vm \ {v} :
              /\ mem'[w] = mem[w] /\ file'[w] = file[w]
              /\ sub'[w] = sub[w] /\ pos'[w] = pos[w] /\ watch'[w] = watch[w],
           mem'[v].revision <= Len(log') /\ file'[v].revision <= Len(log'),
           sub'[v] <= Len(log') /\ pos'[v] <= Len(log'),
           Exact(v, mem[v])' /\ Exact(v, file[v])' /\ Followed(v)'
    PROVE  Cover'
<1> USE DEF CacheInv, Cover
<1>1. Len(log) \in Nat /\ Len(log') \in Nat /\ Len(log) <= Len(log')
  BY LogsGrow
<1>2. \A w \in Vm : /\ mem[w] \in Caches /\ file[w] \in Caches
                    /\ mem[w].revision \in Nat /\ file[w].revision \in Nat
                    /\ sub[w] \in Nat /\ pos[w] \in Nat
  BY DEF TypeInv, Caches
<1>3. Behind'
  BY <1>1, <1>2 DEF Behind
<1>4. ASSUME NEW w \in Vm \ {v}
      PROVE  Exact(w, mem[w])' /\ Exact(w, file[w])' /\ Followed(w)'
  <2>1. mem[w].revision <= Len(log) /\ file[w].revision <= Len(log)
    BY DEF Behind
  <2>2. Exact(w, mem[w]) /\ Exact(w, file[w]) /\ Followed(w)
    OBVIOUS
  <2>3. mem'[w] = mem[w] /\ file'[w] = file[w] /\ pos'[w] = pos[w] /\ watch'[w] = watch[w]
    OBVIOUS
  <2>4. Exact(w, mem[w])' /\ Exact(w, file[w])'
    BY <1>2, <2>1, <2>2, <2>3, ExactStays
  <2> QED
    BY <2>2, <2>3, <2>4, FollowedStays
<1> QED
  BY <1>3, <1>4

\* The caches stay, and the watcher of one VM goes on or stops watching.
LEMMA CoverStays ==
    ASSUME CacheInv, Logs, Stayed, NEW v \in Vm, UNCHANGED <<mem, file, sub, pos>>,
           \A w \in Vm \ {v} : watch'[w] = watch[w],
           watch'[v] \in {"watch", "route"} => watch[v] \in {"watch", "route"}
    PROVE  Cover'
<1> USE DEF CacheInv, Cover
<1>1. Len(log) \in Nat /\ Len(log') \in Nat /\ Len(log) <= Len(log')
  BY LogsGrow
<1>2. /\ mem[v] \in Caches /\ file[v] \in Caches
      /\ mem[v].revision \in Nat /\ file[v].revision \in Nat
      /\ sub[v] \in Nat /\ pos[v] \in Nat
  BY DEF TypeInv, Caches
<1>3. /\ mem[v].revision <= Len(log) /\ file[v].revision <= Len(log)
      /\ sub[v] <= Len(log) /\ pos[v] <= Len(log)
  BY DEF Behind
<1>4. Exact(v, mem[v])' /\ Exact(v, file[v])'
  <2>1. mem'[v] = mem[v] /\ file'[v] = file[v]
    OBVIOUS
  <2> QED
    BY <1>2, <1>3, <2>1, ExactStays
<1>5. Followed(v)'
  BY FollowedStays
<1>6. /\ mem'[v].revision <= Len(log') /\ file'[v].revision <= Len(log')
      /\ sub'[v] <= Len(log') /\ pos'[v] <= Len(log')
  BY <1>1, <1>2, <1>3
<1> QED
  BY <1>4, <1>5, <1>6, CoverAt

\* A cache that is taken from the file, or forgotten, by a VM that does not watch.
LEMMA CoverReset ==
    ASSUME CacheInv, Logs, Stayed, TypeInv', NEW v \in Vm,
           \A w \in Vm \ {v} : mem'[w] = mem[w] /\ sub'[w] = sub[w] /\ pos'[w] = pos[w]
                               /\ watch'[w] = watch[w],
           file' = file, mem'[v] \in {mem[v], file[v], Empty},
           sub'[v] \in {sub[v], 0}, pos'[v] \in {pos[v], 0},
           watch'[v] \notin {"watch", "route"}
    PROVE  Cover'
<1> USE DEF CacheInv, Cover
<1>1. Len(log) \in Nat /\ Len(log') \in Nat /\ Len(log) <= Len(log')
  BY LogsGrow
<1>2. /\ mem[v] \in Caches /\ file[v] \in Caches
      /\ mem[v].revision \in Nat /\ file[v].revision \in Nat
      /\ sub[v] \in Nat /\ pos[v] \in Nat /\ Empty.revision = 0
  BY DEF TypeInv, Caches, Empty
<1>3. /\ mem[v].revision <= Len(log) /\ file[v].revision <= Len(log)
      /\ sub[v] <= Len(log) /\ pos[v] <= Len(log)
  BY DEF Behind
<1>4. Exact(v, file[v])'
  <2>1. file'[v] = file[v]
    OBVIOUS
  <2> QED
    BY <1>2, <1>3, <2>1, ExactStays
<1>5. Exact(v, mem[v])'
  <2>1. CASE mem'[v] = mem[v]
    BY <1>2, <1>3, <2>1, ExactStays
  <2>2. CASE mem'[v] = file[v]
    <3>1. file'[v] = file[v]
      OBVIOUS
    <3> QED
      BY <1>4, <2>2, <3>1 DEF Exact
  <2>3. CASE mem'[v] = Empty
    <3>1. \A u \in Vm : Last(u)' \notin 1 .. 0
      OBVIOUS
    <3> QED
      BY <1>2, <2>3, <3>1 DEF Exact
  <2> QED
    BY <2>1, <2>2, <2>3
<1>6. Followed(v)'
  BY DEF Followed
<1>7. /\ mem'[v].revision <= Len(log') /\ file'[v].revision <= Len(log')
      /\ sub'[v] <= Len(log') /\ pos'[v] <= Len(log')
  BY <1>1, <1>2, <1>3
<1> QED
  BY <1>4, <1>5, <1>6, <1>7, CoverAt

\* A subscription starts at the revision of the cache.
LEMMA CoverConnect ==
    ASSUME CacheInv, Logs, Stayed, NEW v \in Vm, Connect(v)
    PROVE  Cover'
<1> USE DEF CacheInv, Cover
<1>1. Len(log) \in Nat /\ log' = log /\ mem' = mem /\ file' = file
  BY DEF Connect, beacon, cache, TypeInv
<1>2. /\ mem[v] \in Caches /\ file[v] \in Caches
      /\ mem[v].revision \in Nat /\ file[v].revision \in Nat
  BY DEF TypeInv, Caches
<1>3. mem[v].revision <= Len(log) /\ file[v].revision <= Len(log)
  BY DEF Behind
<1>4. \A w \in Vm \ {v} : sub'[w] = sub[w] /\ pos'[w] = pos[w] /\ watch'[w] = watch[w]
  BY DEF Connect, TypeInv
<1>5. sub'[v] \in {0, Len(log)} /\ pos'[v] \in {0, mem[v].revision}
  BY DEF Connect, TypeInv
<1>6. watch'[v] \in {"watch", "route"} => pos'[v] = mem[v].revision
  BY DEF Connect, TypeInv
<1>7. Exact(v, mem[v])' /\ Exact(v, file[v])'
  <2>1. mem'[v] = mem[v] /\ file'[v] = file[v]
    BY <1>1
  <2> QED
    BY <1>2, <1>3, <2>1, ExactStays
<1>8. Followed(v)'
  <2> SUFFICES ASSUME watch'[v] \in {"watch", "route"}
               PROVE  /\ mem'[v].revision <= pos'[v]
                      /\ \A u \in Vm : Last(u)' \notin mem'[v].revision + 1 .. pos'[v]
    BY DEF Followed
  <2>1. mem'[v].revision = mem[v].revision /\ pos'[v] = mem[v].revision
    BY <1>1, <1>6
  <2>2. mem[v].revision + 1 .. mem[v].revision = {}
    BY <1>2
  <2> QED
    BY <1>2, <2>1, <2>2
<1>9. /\ mem'[v].revision <= Len(log') /\ file'[v].revision <= Len(log')
      /\ sub'[v] <= Len(log') /\ pos'[v] <= Len(log')
  BY <1>1, <1>2, <1>3, <1>5
<1> QED
  BY <1>1, <1>4, <1>7, <1>8, <1>9, CoverAt

\* The first change not sent is the next last change of any VM.
LEMMA NextChange ==
    ASSUME CacheInv, NEW v \in Vm, Unsent(v) # {}, NEW u \in Vm,
           Last(u) \in pos[v] + 1 .. First(v)
    PROVE  Last(u) = First(v)
<1> USE DEF CacheInv, Cover
<1>1. /\ First(v) \in 1 .. Len(log) /\ \A j \in Unsent(v) : First(v) <= j
      /\ pos[v] \in Nat /\ sub[v] \in Nat /\ sub[v] <= Len(log) /\ Len(log) \in Nat
  BY FirstUnsent DEF TypeInv, Behind
<1>2. /\ log[Last(u)].vm = u
      /\ \A j \in 1 .. Len(log) : log[j].vm = u => j <= Last(u)
  BY <1>1, LastChange DEF TypeInv
<1>3. \A j \in Last(u) + 1 .. sub[v] : log[j].vm # log[Last(u)].vm
  BY <1>1, <1>2
<1>4. Last(u) \in pos[v] + 1 .. Len(log)
  BY <1>1
<1>5. Last(u) \in Unsent(v)
  BY <1>3, <1>4 DEF Unsent
<1> QED
  BY <1>1, <1>4, <1>5

LEMMA CoverReceive ==
    ASSUME CacheInv, Logs, Stayed, NEW v \in Vm, Receive(v)
    PROVE  Cover'
<1> USE DEF CacheInv, Cover
<1> DEFINE i == First(v)
           r == mem[v].revision
<1>1. Received(v, i) /\ watch[v] = "watch" /\ Unsent(v) # {}
  BY ReceiveFirst
<1>2. /\ i \in 1 .. Len(log) /\ i > pos[v] /\ Len(log) \in Nat /\ log[i] \in Change
      /\ log[i].vm \in Vm
  BY <1>1, FirstUnsent DEF TypeInv, Change
<1>3. /\ mem[v] \in Caches /\ file[v] \in Caches /\ r \in Nat /\ file[v].revision \in Nat
      /\ pos[v] \in Nat /\ sub[v] \in Nat /\ mem[v].members \in [Vm -> Node \cup {None}]
  BY DEF TypeInv, Caches
<1>4. /\ r <= pos[v] /\ r <= Len(log) /\ file[v].revision <= Len(log) /\ sub[v] <= Len(log)
      /\ \A u \in Vm : ~Moved(v) /\ Last(u) \in r + 1 .. pos[v] => log[Last(u)].node = at[v]
  BY <1>1 DEF Behind, Followed
<1>5. UNCHANGED <<log, at, been>>
  BY DEF Receive, beacon
<1>6. \A u \in Vm : Last(u)' = Last(u) /\ Owner(u)' = Owner(u) /\ Moved(u)' = Moved(u)
  BY <1>5 DEF Last, Owner, Published, Moved
<1>7. \A u \in Vm : Last(u) \in pos[v] + 1 .. i => Last(u) = i
  BY <1>1, NextChange
<1>8. \A u \in Vm : /\ Last(u) \in 0 .. Len(log)
                    /\ Last(u) = i => log[i].vm = u
                    /\ log[i].vm = u => i <= Last(u)
  <2>1. ASSUME NEW u \in Vm
        PROVE  /\ Last(u) \in 0 .. Len(log)
               /\ Last(u) # 0 => log[Last(u)].vm = u
               /\ \A k \in 1 .. Len(log) : log[k].vm = u => k <= Last(u) /\ Last(u) # 0
    BY LastChange DEF TypeInv
  <2> QED
    BY <1>2, <2>1
<1>9. pos' = [pos EXCEPT ![v] = i] /\ sub' = [sub EXCEPT ![v] = IF i = @ THEN 0 ELSE @]
  BY <1>1 DEF Received
<1> HIDE DEF i
<1>10. /\ \A w \in Vm \ {v} : sub'[w] = sub[w] /\ pos'[w] = pos[w]
       /\ pos'[v] = i /\ sub'[v] \in {0, sub[v]}
  BY <1>9 DEF TypeInv
<1>11. pos'[v] <= Len(log') /\ sub'[v] <= Len(log')
  BY <1>2, <1>3, <1>4, <1>5, <1>10
<1>12. Exact(v, file[v]) /\ Exact(v, mem[v])
  OBVIOUS
<1>13. CASE log[i].node = at[v]
  <2>1. mem' = mem /\ file' = file /\ watch' = watch
    BY <1>1, <1>13 DEF Received, cache
  <2>2. Exact(v, mem[v])' /\ Exact(v, file[v])'
    BY <1>5, <1>6, <1>12, <2>1 DEF Exact
  <2>3. Followed(v)'
    <3>1. mem'[v].revision <= pos'[v]
      BY <1>2, <1>3, <1>4, <1>10, <2>1
    <3>2. ASSUME NEW u \in Vm, ~Moved(v), Last(u) \in r + 1 .. i
          PROVE  log[Last(u)].node = at[v]
      <4>1. Last(u) \in r + 1 .. pos[v] \/ Last(u) \in pos[v] + 1 .. i
        BY <1>2, <1>3, <3>2
      <4> QED
        BY <1>4, <1>7, <1>13, <3>2, <4>1
    <3> QED
      BY <1>5, <1>6, <1>10, <2>1, <3>1, <3>2 DEF Followed
  <2>4. mem'[v].revision <= Len(log') /\ file'[v].revision <= Len(log')
    BY <1>4, <1>5, <2>1
  <2> QED
    BY <1>10, <1>11, <2>1, <2>2, <2>3, <2>4, CoverAt
<1>14. CASE log[i].node # at[v]
  <2>1. PICK to \in Node \cup {None} :
            /\ to = IF log[i].deleted THEN None ELSE log[i].node
            /\ Learn(v, log[i].vm, to, i)
    BY <1>1, <1>14 DEF Received
  <2>2. watch' = [watch EXCEPT ![v] = "route"]
    BY <1>1, <1>14 DEF Received
  <2>3. /\ mem' \in [Vm -> Caches]
        /\ mem'[v].revision = IF i > mem[v].revision THEN i ELSE mem[v].revision
        /\ mem'[v].members = [mem[v].members EXCEPT ![log[i].vm] = to]
        /\ file'[v] \in {file[v], mem'[v]}
        /\ \A w \in Vm \ {v} : mem'[w] = mem[w] /\ file'[w] = file[w]
    <3> DEFINE u == log[i].vm
    <3>1. i \in Nat /\ u \in Vm /\ Learn(v, u, to, i) /\ TypeInv
      BY <1>2, <2>1
    <3> HIDE DEF u
    <3>2. /\ mem' \in [Vm -> Caches] /\ file' \in [Vm -> Caches]
          /\ mem'[v].revision = IF i > mem[v].revision THEN i ELSE mem[v].revision
          /\ mem'[v].members = [mem[v].members EXCEPT ![u] = to]
          /\ file'[v] \in {file[v], mem'[v]}
          /\ \A w \in Vm \ {v} : mem'[w] = mem[w] /\ file'[w] = file[w]
      BY <3>1, Learnt
    <3> QED
      BY <3>2 DEF u
  <2>4. mem'[v].revision = i
    BY <1>2, <1>3, <1>4, <2>3
  <2>5. \A w \in Vm \ {v} : watch'[w] = watch[w]
    BY <2>2 DEF TypeInv
  <2>6. Exact(v, mem[v])'
    <3> SUFFICES ASSUME NEW u \in Vm, ~Moved(v), Last(u) \in 1 .. i, log[Last(u)].node # at[v]
                 PROVE  mem'[v].members[u] = Owner(u)
      BY <1>5, <1>6, <2>4 DEF Exact
    <3>1. CASE u = log[i].vm
      <4>1. Last(u) = i
        BY <1>2, <1>8, <3>1
      <4>2. mem'[v].members[u] = to
        BY <1>3, <2>3, <3>1
      <4>3. i # 0
        BY <1>2
      <4>4. Owner(u) = to
        BY <2>1, <4>1, <4>3 DEF Owner, Published
      <4> QED
        BY <4>2, <4>4
    <3>2. CASE u # log[i].vm
      <4>1. Last(u) # i
        BY <1>8, <3>2
      <4>2. Last(u) \notin pos[v] + 1 .. i
        BY <1>7, <4>1
      <4>3. Last(u) \notin r + 1 .. pos[v]
        BY <1>4
      <4>4. Last(u) \in 1 .. r
        BY <1>2, <1>3, <1>4, <4>2, <4>3
      <4>5. mem[v].members[u] = Owner(u)
        BY <1>12, <4>4 DEF Exact
      <4>6. mem'[v].members[u] = mem[v].members[u]
        BY <1>3, <2>3, <3>2
      <4> QED
        BY <4>5, <4>6
    <3> QED
      BY <3>1, <3>2
  <2>7. Exact(v, file[v])'
    <3>1. CASE file'[v] = file[v]
      BY <1>5, <1>6, <1>12, <3>1 DEF Exact
    <3>2. CASE file'[v] = mem'[v]
      BY <2>6, <3>2 DEF Exact
    <3> QED
      BY <2>3, <3>1, <3>2
  <2>8. Followed(v)'
    <3>1. mem'[v].revision = i /\ pos'[v] = i /\ i <= i /\ i + 1 .. i = {}
      BY <1>2, <1>10, <2>4
    <3> QED
      BY <3>1 DEF Followed
  <2>9. mem'[v].revision <= Len(log') /\ file'[v].revision <= Len(log')
    BY <1>2, <1>4, <1>5, <2>3, <2>4
  <2> QED
    BY <1>10, <1>11, <2>3, <2>5, <2>6, <2>7, <2>8, <2>9, CoverAt
<1> QED
  BY <1>13, <1>14

LEMMA CoverIdle ==
    ASSUME CacheInv, Logs, Stayed, UNCHANGED <<mem, file, sub, pos, watch>>
    PROVE  Cover'
<1>1. CASE Vm = {}
  BY <1>1 DEF Cover, Behind
<1>2. CASE Vm # {}
  <2>1. PICK v \in Vm : TRUE
    BY <1>2
  <2> QED
    BY <2>1, CoverStays
<1> QED
  BY <1>1, <1>2

LEMMA CoverStep == CacheInv /\ [Next]_vars => Cover'
<1> SUFFICES ASSUME CacheInv, [Next]_vars PROVE Cover'
  OBVIOUS
<1>0. Logs /\ Stayed /\ TypeInv'
  BY NextLogs, Stays, TypeStep DEF CacheInv
<1>1. CASE UNCHANGED vars
  BY <1>0, <1>1, CoverIdle DEF vars, runtime, beacon, cache, stream, kernel
<1>2. CASE Outage
  BY <1>0, <1>2, CoverIdle DEF Outage, Fall, runtime, beacon, cache, stream, kernel
<1>3. CASE Recover
  BY <1>0, <1>3, CoverIdle DEF Recover, runtime, beacon, cache, stream, kernel
<1>4. ASSUME NEW v \in Vm, Start(v) PROVE Cover'
  BY <1>0, <1>4, CoverStays DEF Start, runtime, beacon, cache, stream, kernel, CacheInv, TypeInv
<1>5. ASSUME NEW v \in Vm, AddTap(v) PROVE Cover'
  BY <1>0, <1>5, CoverStays DEF AddTap, runtime, beacon, cache, stream, kernel, CacheInv, TypeInv
<1>6. ASSUME NEW v \in Vm, Stop(v) PROVE Cover'
  BY <1>0, <1>6, CoverStays DEF Stop, runtime, beacon, cache, stream, kernel, CacheInv, TypeInv
<1>7. ASSUME NEW v \in Vm, Drain(v) PROVE Cover'
  BY <1>0, <1>7, CoverStays DEF Drain, runtime, beacon, cache, stream, kernel, CacheInv, TypeInv
<1>8. ASSUME NEW v \in Vm, Withdraw(v) PROVE Cover'
  BY <1>0, <1>8, CoverStays DEF Withdraw, runtime, beacon, cache, stream, kernel, CacheInv, TypeInv
<1>9. ASSUME NEW v \in Vm, Leave(v) PROVE Cover'
  BY <1>0, <1>9, CoverStays DEF Leave, runtime, beacon, cache, stream, kernel, CacheInv, TypeInv
<1>10. ASSUME NEW v \in Vm, ApplyCachedMembers(v) PROVE Cover'
  <2>1. mem'[v] \in {mem[v], file[v]} /\ \A w \in Vm \ {v} : mem'[w] = mem[w]
    BY <1>10 DEF ApplyCachedMembers, CacheInv, TypeInv
  <2>2. /\ UNCHANGED <<file, sub, pos>> /\ watch'[v] = "publish"
        /\ \A w \in Vm \ {v} : watch'[w] = watch[w]
    BY <1>10 DEF ApplyCachedMembers, stream, CacheInv, TypeInv
  <2> QED
    BY <1>0, <2>1, <2>2, CoverReset
<1>11. ASSUME NEW v \in Vm, Publish(v) PROVE Cover'
  BY <1>0, <1>11, CoverStays DEF Publish, runtime, beacon, cache, stream, kernel, CacheInv, TypeInv
<1>12. ASSUME NEW v \in Vm, PublishUnanswered(v) PROVE Cover'
  BY <1>0, <1>12, CoverStays DEF PublishUnanswered, runtime, beacon, cache, stream, kernel, CacheInv, TypeInv
<1>13. ASSUME NEW v \in Vm, Connect(v) PROVE Cover'
  BY <1>0, <1>13, CoverConnect
<1>14. ASSUME NEW v \in Vm, Receive(v) PROVE Cover'
  BY <1>0, <1>14, CoverReceive
<1>15. ASSUME NEW v \in Vm, Route(v) PROVE Cover'
  BY <1>0, <1>15, CoverStays DEF Route, runtime, beacon, cache, stream, kernel, CacheInv, TypeInv
<1>16. ASSUME NEW v \in Vm, Disconnect(v) PROVE Cover'
  BY <1>0, <1>16, CoverReset DEF Disconnect, runtime, beacon, cache, stream, kernel, CacheInv, TypeInv
<1>17. ASSUME NEW v \in Vm, Retry(v) PROVE Cover'
  BY <1>0, <1>17, CoverStays DEF Retry, runtime, beacon, cache, stream, kernel, CacheInv, TypeInv
<1>18. ASSUME NEW v \in Vm, Exit(v) PROVE Cover'
  BY <1>0, <1>18, CoverReset DEF Exit, runtime, beacon, cache, stream, kernel, CacheInv, TypeInv
<1>19. ASSUME NEW v \in Vm, Kill(v) PROVE Cover'
  BY <1>0, <1>19, CoverReset DEF Kill, runtime, beacon, cache, stream, kernel, CacheInv, TypeInv
<1>20. ASSUME NEW v \in Vm, NEW n \in Target, Move(v, n) PROVE Cover'
  <2>1. watch[v] = "off"
    BY <1>20 DEF Move, CacheInv, Off
  <2>2. UNCHANGED <<watch, file, sub, pos>> /\ mem' = [mem EXCEPT ![v] = Empty]
    BY <1>20 DEF Move, stream
  <2>3. mem'[v] = Empty /\ \A w \in Vm \ {v} : mem'[w] = mem[w]
    BY <2>2 DEF CacheInv, TypeInv
  <2> QED
    BY <1>0, <2>1, <2>2, <2>3, CoverReset
<1> QED
  BY <1>1, <1>2, <1>3, <1>4, <1>5, <1>6, <1>7, <1>8, <1>9, <1>10, <1>11, <1>12, <1>13, <1>14, <1>15, <1>16, <1>17, <1>18, <1>19, <1>20 DEF Next, Disturb, Operate, Watcher

LEMMA CacheInvariant == Spec => []CacheInv
<1>1. Init => Off /\ Cover
  BY CacheInit DEF Init, Off
<1>2. CacheInv /\ [Next]_vars => Off' /\ Cover'
  BY OffStep, CoverStep DEF CacheInv
<1> QED
  BY <1>1, <1>2, Basics, PTL DEF Spec, CacheInv

\* A cache is exact up to its revision, in memory and in the file, for any
\* number of VMs, changes, disconnections and kills: resuming a watch with
\* `since` loses no change of a VM on another node.
THEOREM CacheExact == Spec => []CacheCoversRevision
<1>1. CacheInv => CacheCoversRevision
  BY DEF CacheInv, Cover, Exact, CacheCoversRevision
<1> QED
  BY <1>1, CacheInvariant, PTL

-----------------------------------------------------------------------------
(* The routes to local VMs.                                                *)

\* A VM that is cached, or about to be routed, has been on another node.
Elsewhere(v, u) == ~Moved(v) => \E m \in been[u] : m # at[v]

Foreign(v, c) == \A u \in Vm : c.members[u] # None => Elsewhere(v, u)

Local == \A v \in Vm :
    /\ Foreign(v, mem[v]) /\ Foreign(v, file[v])
    /\ watch[v] = "route" => Elsewhere(v, job[v].vm)

\* No VM has come to the node from another one, or has left it.
Clean(n) == \A w \in Vm : n \in been[w] => ~Moved(w)

Tap == \A v \in Vm : Clean(at[v]) =>
    /\ route[at[v]][v] \in {None, "tap"}
    /\ pc[v] = "up" => route[at[v]][v] = "tap"

LocalInv == TypeInv /\ Counted /\ Places /\ Local /\ Tap

LEMMA ElsewhereStays ==
    ASSUME Stayed, NEW v \in Vm, NEW u \in Vm, Elsewhere(v, u)
    PROVE  Elsewhere(v, u)'
BY DEF Stayed, Elsewhere

LEMMA ForeignStays ==
    ASSUME Stayed, NEW v \in Vm, NEW c, Foreign(v, c)
    PROVE  Foreign(v, c)'
BY ElsewhereStays DEF Foreign

\* It is enough to look at the VM that takes the step.
LEMMA LocalAt ==
    ASSUME TypeInv, Stayed, Local, NEW v \in Vm,
           \A w \in Vm \ {v} : /\ mem'[w] = mem[w] /\ file'[w] = file[w]
                               /\ job'[w] = job[w] /\ watch'[w] = watch[w],
           Foreign(v, mem[v])' /\ Foreign(v, file[v])',
           watch'[v] = "route" => Elsewhere(v, job[v].vm)'
    PROVE  Local'
<1> SUFFICES ASSUME NEW w \in Vm \ {v}
             PROVE  /\ Foreign(w, mem[w])' /\ Foreign(w, file[w])'
                    /\ watch'[w] = "route" => Elsewhere(w, job[w].vm)'
  BY DEF Local
<1>1. /\ mem'[w] = mem[w] /\ file'[w] = file[w]
      /\ job'[w] = job[w] /\ watch'[w] = watch[w]
  OBVIOUS
<1>2. Foreign(w, mem[w]) /\ Foreign(w, file[w])
  BY DEF Local
<1>3. Foreign(w, mem[w])' /\ Foreign(w, file[w])'
  BY <1>1, <1>2, ForeignStays
<1>4. ASSUME watch'[w] = "route" PROVE Elsewhere(w, job[w].vm)'
  <2>1. job[w].vm \in Vm /\ Elsewhere(w, job[w].vm)
    BY <1>1, <1>4 DEF Local, TypeInv, Job
  <2> QED
    BY <1>1, <2>1, ElsewhereStays
<1> QED
  BY <1>3, <1>4

\* A cache that stays, is taken from the file or is forgotten, and a watcher
\* that learns nothing.
LEMMA LocalStays ==
    ASSUME TypeInv, Stayed, Local, NEW v \in Vm, file' = file,
           \A w \in Vm \ {v} : mem'[w] = mem[w] /\ job'[w] = job[w] /\ watch'[w] = watch[w],
           mem'[v] \in {mem[v], file[v], Empty},
           watch'[v] = "route" => watch[v] = "route" /\ job'[v] = job[v]
    PROVE  Local'
<1>1. Foreign(v, mem[v]) /\ Foreign(v, file[v])
  BY DEF Local
<1>2. Foreign(v, Empty)
  BY DEF Foreign, Empty
<1>3. Foreign(v, mem[v])'
  <2>1. CASE mem'[v] = mem[v]
    BY <1>1, <2>1, ForeignStays
  <2>2. CASE mem'[v] = file[v]
    BY <1>1, <2>2, ForeignStays
  <2>3. CASE mem'[v] = Empty
    BY <1>2, <2>3, ForeignStays
  <2> QED
    BY <2>1, <2>2, <2>3
<1>4. Foreign(v, file[v])'
  <2>1. file'[v] = file[v]
    OBVIOUS
  <2> QED
    BY <1>1, <2>1, ForeignStays
<1>5. ASSUME watch'[v] = "route" PROVE Elsewhere(v, job[v].vm)'
  <2>1. job[v].vm \in Vm /\ Elsewhere(v, job[v].vm) /\ job'[v] = job[v]
    BY <1>5 DEF Local, TypeInv, Job
  <2> QED
    BY <2>1, ElsewhereStays
<1> QED
  BY <1>3, <1>4, <1>5, LocalAt

LEMMA LocalReceive ==
    ASSUME TypeInv, Counted, Places, Stayed, Local, NEW v \in Vm, Receive(v)
    PROVE  Local'
<1> DEFINE i == First(v)
<1>1. Received(v, i) /\ watch[v] = "watch" /\ Unsent(v) # {}
  BY ReceiveFirst
<1>2. i \in 1 .. Len(log) /\ log[i].vm \in Vm
  BY <1>1, FirstUnsent DEF Change
<1> HIDE DEF i
<1>3. CASE log[i].node = at[v]
  <2>1. UNCHANGED <<mem, file, job, watch>>
    BY <1>1, <1>3 DEF Received, cache
  <2> QED
    BY <1>1, <2>1, LocalStays
<1>4. CASE log[i].node # at[v]
  <2> DEFINE u == log[i].vm
  <2>1. PICK to \in Node \cup {None} :
            Learn(v, u, to, i) /\ job' = [job EXCEPT ![v] = [vm |-> u, to |-> to]]
    BY <1>1, <1>4 DEF Received
  <2>2. watch' = [watch EXCEPT ![v] = "route"]
    BY <1>1, <1>4 DEF Received
  <2>3. Elsewhere(v, u)
    BY <1>2, <1>4 DEF Elsewhere, Places
  <2>4. u \in Vm /\ i \in Nat
    BY <1>2
  <2> HIDE DEF u
  <2>5. /\ mem'[v].members = [mem[v].members EXCEPT ![u] = to]
        /\ file'[v] \in {file[v], mem'[v]}
        /\ \A w \in Vm \ {v} : mem'[w] = mem[w] /\ file'[w] = file[w]
    BY <2>1, <2>4, Learnt
  <2>6. job'[v].vm = u /\ \A w \in Vm \ {v} : job'[w] = job[w] /\ watch'[w] = watch[w]
    BY <2>1, <2>2 DEF TypeInv
  <2>7. mem[v].members \in [Vm -> Node \cup {None}]
    BY DEF TypeInv, Caches
  <2>8. Foreign(v, mem'[v])
    BY <2>3, <2>4, <2>5, <2>7 DEF Foreign, Local
  <2>9. Foreign(v, mem[v])'
    BY <2>8, ElsewhereStays DEF Foreign
  <2>10. Foreign(v, file[v])'
    <3>1. Foreign(v, file'[v])
      BY <2>5, <2>8 DEF Local
    <3> QED
      BY <3>1, ElsewhereStays DEF Foreign
  <2>11. Elsewhere(v, job[v].vm)'
    BY <2>3, <2>4, <2>6, ElsewhereStays
  <2> QED
    BY <2>5, <2>6, <2>9, <2>10, <2>11, LocalAt
<1> QED
  BY <1>3, <1>4

LEMMA LocalIdle ==
    ASSUME TypeInv, Stayed, Local, UNCHANGED <<mem, file, job, watch>>
    PROVE  Local'
<1>1. CASE Vm = {}
  BY <1>1 DEF Local
<1>2. CASE Vm # {}
  <2>1. PICK v \in Vm : TRUE
    BY <1>2
  <2> QED
    BY <2>1, LocalStays
<1> QED
  BY <1>1, <1>2

LEMMA LocalStep == TypeInv /\ Counted /\ Places /\ Local /\ [Next]_vars => Local'
<1> SUFFICES ASSUME TypeInv, Counted, Places, Local, [Next]_vars PROVE Local'
  OBVIOUS
<1>0. Stayed
  BY Stays
<1>1. CASE UNCHANGED vars
  BY <1>0, <1>1, LocalIdle DEF vars, runtime, beacon, cache, stream, kernel
<1>2. CASE Outage
  BY <1>0, <1>2, LocalIdle DEF Outage, Fall, runtime, beacon, cache, stream, kernel
<1>3. CASE Recover
  BY <1>0, <1>3, LocalIdle DEF Recover, runtime, beacon, cache, stream, kernel
<1>4. ASSUME NEW v \in Vm, Start(v) PROVE Local'
  BY <1>0, <1>4, LocalStays DEF Start, runtime, beacon, cache, stream, kernel, TypeInv
<1>5. ASSUME NEW v \in Vm, AddTap(v) PROVE Local'
  BY <1>0, <1>5, LocalStays DEF AddTap, runtime, beacon, cache, stream, kernel, TypeInv
<1>6. ASSUME NEW v \in Vm, Stop(v) PROVE Local'
  BY <1>0, <1>6, LocalStays DEF Stop, runtime, beacon, cache, stream, kernel, TypeInv
<1>7. ASSUME NEW v \in Vm, Drain(v) PROVE Local'
  BY <1>0, <1>7, LocalStays DEF Drain, runtime, beacon, cache, stream, kernel, TypeInv
<1>8. ASSUME NEW v \in Vm, Withdraw(v) PROVE Local'
  BY <1>0, <1>8, LocalStays DEF Withdraw, runtime, beacon, cache, stream, kernel, TypeInv
<1>9. ASSUME NEW v \in Vm, Leave(v) PROVE Local'
  BY <1>0, <1>9, LocalStays DEF Leave, runtime, beacon, cache, stream, kernel, TypeInv
<1>10. ASSUME NEW v \in Vm, ApplyCachedMembers(v) PROVE Local'
  <2>1. mem'[v] \in {mem[v], file[v]} /\ \A w \in Vm \ {v} : mem'[w] = mem[w]
    BY <1>10 DEF ApplyCachedMembers, TypeInv
  <2>2. /\ UNCHANGED <<file, job>> /\ watch'[v] = "publish"
        /\ \A w \in Vm \ {v} : watch'[w] = watch[w]
    BY <1>10 DEF ApplyCachedMembers, stream, TypeInv
  <2> QED
    BY <1>0, <2>1, <2>2, LocalStays
<1>11. ASSUME NEW v \in Vm, Publish(v) PROVE Local'
  BY <1>0, <1>11, LocalStays DEF Publish, runtime, beacon, cache, stream, kernel, TypeInv
<1>12. ASSUME NEW v \in Vm, PublishUnanswered(v) PROVE Local'
  BY <1>0, <1>12, LocalStays DEF PublishUnanswered, runtime, beacon, cache, stream, kernel, TypeInv
<1>13. ASSUME NEW v \in Vm, Connect(v) PROVE Local'
  BY <1>0, <1>13, LocalStays DEF Connect, runtime, beacon, cache, stream, kernel, TypeInv
<1>14. ASSUME NEW v \in Vm, Receive(v) PROVE Local'
  BY <1>0, <1>14, LocalReceive
<1>15. ASSUME NEW v \in Vm, Route(v) PROVE Local'
  BY <1>0, <1>15, LocalStays DEF Route, runtime, beacon, cache, stream, kernel, TypeInv
<1>16. ASSUME NEW v \in Vm, Disconnect(v) PROVE Local'
  BY <1>0, <1>16, LocalStays DEF Disconnect, runtime, beacon, cache, stream, kernel, TypeInv
<1>17. ASSUME NEW v \in Vm, Retry(v) PROVE Local'
  BY <1>0, <1>17, LocalStays DEF Retry, runtime, beacon, cache, stream, kernel, TypeInv
<1>18. ASSUME NEW v \in Vm, Exit(v) PROVE Local'
  BY <1>0, <1>18, LocalStays DEF Exit, runtime, beacon, cache, stream, kernel, TypeInv
<1>19. ASSUME NEW v \in Vm, Kill(v) PROVE Local'
  BY <1>0, <1>19, LocalStays DEF Kill, runtime, beacon, cache, stream, kernel, TypeInv
<1>20. ASSUME NEW v \in Vm, NEW n \in Target, Move(v, n) PROVE Local'
  BY <1>0, <1>20, LocalStays DEF Move, stream, TypeInv
<1> QED
  BY <1>1, <1>2, <1>3, <1>4, <1>5, <1>6, <1>7, <1>8, <1>9, <1>10, <1>11, <1>12, <1>13, <1>14, <1>15, <1>16, <1>17, <1>18, <1>19, <1>20 DEF Next, Disturb, Operate, Watcher

\* A clean node was clean before, and nobody came to it.
LEMMA CleanBefore ==
    ASSUME TypeInv, Places, Stayed, [Next]_vars, NEW v \in Vm, Clean(at[v])'
    PROVE  /\ at'[v] = at[v] /\ Clean(at[v]) /\ been[v] = {at[v]}
           /\ \A w \in Vm : at[w] = at[v] => ~Moved(w)
<1>1. at'[v] \in been'[v]
  BY Housed
<1>2. ~Moved(v)'
  BY <1>1 DEF Clean
<1>3. at'[v] = at[v] /\ ~Moved(v)
  BY <1>2 DEF Stayed
<1>4. Clean(at[v])
  BY <1>3 DEF Clean, Stayed
<1>5. \A w \in Vm : at[w] \in been[w]
  BY DEF Places
<1> QED
  BY <1>3, <1>4, <1>5 DEF Moved, Clean

LEMMA TapStep == LocalInv /\ [Next]_vars => Tap'
<1> SUFFICES ASSUME LocalInv, [Next]_vars, NEW x \in Vm, Clean(at[x])'
             PROVE  /\ route'[at'[x]][x] \in {None, "tap"}
                    /\ pc'[x] = "up" => route'[at'[x]][x] = "tap"
  BY DEF Tap
<1> DEFINE Kept == /\ route'[at'[x]][x] \in {None, "tap"}
                   /\ pc'[x] = "up" => route'[at'[x]][x] = "tap"
<1> USE DEF LocalInv
<1>a. Stayed
  BY Stays
<1>0. /\ at'[x] = at[x] /\ Clean(at[x]) /\ been[x] = {at[x]}
      /\ \A w \in Vm : at[w] = at[x] => ~Moved(w)
  BY <1>a, CleanBefore
<1>b. /\ route[at[x]][x] \in {None, "tap"} /\ (pc[x] = "up" => route[at[x]][x] = "tap")
      /\ at[x] \in Node /\ route[at[x]] \in [Vm -> Node \cup {None, "tap"}]
  BY <1>0 DEF Tap, TypeInv
<1>1. CASE UNCHANGED vars
  BY <1>0, <1>b, <1>1 DEF vars, runtime, beacon, cache, stream, kernel
<1>2. CASE Outage
  BY <1>0, <1>b, <1>2 DEF Outage, Fall, runtime, beacon, cache, stream, kernel
<1>3. CASE Recover
  BY <1>0, <1>b, <1>3 DEF Recover, runtime, beacon, cache, stream, kernel
<1>4. ASSUME NEW v \in Vm, Start(v) PROVE Kept
  BY <1>0, <1>b, <1>4 DEF Start, runtime, beacon, cache, stream, kernel, TypeInv
<1>5. ASSUME NEW v \in Vm, AddTap(v) PROVE Kept
  <2>1. CASE v = x
    BY <1>0, <1>b, <1>5, <2>1 DEF AddTap, TypeInv
  <2>2. CASE v # x
    <3>1. route'[at[x]][x] = route[at[x]][x] /\ pc'[x] = pc[x]
      BY <1>b, <1>5, <2>2 DEF AddTap, TypeInv
    <3> QED
      BY <1>0, <1>b, <3>1
  <2> QED
    BY <2>1, <2>2
<1>6. ASSUME NEW v \in Vm, Stop(v) PROVE Kept
  <2>1. CASE v = x
    BY <1>0, <1>b, <1>6, <2>1 DEF Stop, TypeInv
  <2>2. CASE v # x
    <3>1. route'[at[x]][x] = route[at[x]][x] /\ pc'[x] = pc[x]
      BY <1>b, <1>6, <2>2 DEF Stop, TypeInv
    <3> QED
      BY <1>0, <1>b, <3>1
  <2> QED
    BY <2>1, <2>2
<1>7. ASSUME NEW v \in Vm, Drain(v) PROVE Kept
  BY <1>0, <1>b, <1>7 DEF Drain, runtime, beacon, cache, stream, kernel, TypeInv
<1>8. ASSUME NEW v \in Vm, Withdraw(v) PROVE Kept
  BY <1>0, <1>b, <1>8 DEF Withdraw, runtime, beacon, cache, stream, kernel, TypeInv
<1>9. ASSUME NEW v \in Vm, Leave(v) PROVE Kept
  <2>1. pc'[v] = "down" /\ \A w \in Vm \ {v} : pc'[w] = pc[w]
    BY <1>9 DEF Leave, TypeInv
  <2>2. CASE route' = route
    BY <1>0, <1>b, <2>1, <2>2
  <2>3. CASE /\ route' = [route EXCEPT ![at[v]] = [u \in Vm |-> None]]
             /\ ~ \E u \in Vm \ {v} : at[u] = at[v] /\ pc[u] # "down"
    <3>1. CASE at[v] = at[x]
      <4>1. route'[at[x]][x] = None
        BY <1>b, <2>3, <3>1 DEF TypeInv
      <4>2. pc'[x] # "up"
        BY <2>1, <2>3, <3>1
      <4> QED
        BY <1>0, <4>1, <4>2
    <3>2. CASE at[v] # at[x]
      <4>1. route'[at[x]] = route[at[x]]
        BY <1>b, <2>3, <3>2 DEF TypeInv
      <4> QED
        BY <1>0, <1>b, <2>1, <4>1
    <3> QED
      BY <3>1, <3>2
  <2> QED
    BY <1>9, <2>2, <2>3 DEF Leave, kernel
<1>10. ASSUME NEW v \in Vm, ApplyCachedMembers(v) PROVE Kept
  <2> DEFINE known == {u \in Vm : file[v].members[u] # None}
  <2>1. route' = [route EXCEPT ![at[v]] =
                     [u \in Vm |-> IF u \in known THEN file[v].members[u] ELSE @[u]]]
    BY <1>10 DEF ApplyCachedMembers
  <2>2. pc' = pc
    BY <1>10 DEF ApplyCachedMembers
  <2>3. at[v] = at[x] => x \notin known
    BY <1>0 DEF Local, Foreign, Elsewhere
  <2> HIDE DEF known
  <2>4. route'[at[x]][x] = route[at[x]][x]
    <3>1. CASE at[v] = at[x]
      BY <1>b, <2>1, <2>3, <3>1 DEF TypeInv
    <3>2. CASE at[v] # at[x]
      BY <1>b, <2>1, <3>2 DEF TypeInv
    <3> QED
      BY <3>1, <3>2
  <2> QED
    BY <1>0, <1>b, <2>2, <2>4
<1>11. ASSUME NEW v \in Vm, Publish(v) PROVE Kept
  BY <1>0, <1>b, <1>11 DEF Publish, runtime, beacon, cache, stream, kernel, TypeInv
<1>12. ASSUME NEW v \in Vm, PublishUnanswered(v) PROVE Kept
  BY <1>0, <1>b, <1>12 DEF PublishUnanswered, runtime, beacon, cache, stream, kernel, TypeInv
<1>13. ASSUME NEW v \in Vm, Connect(v) PROVE Kept
  BY <1>0, <1>b, <1>13 DEF Connect, runtime, beacon, cache, stream, kernel, TypeInv
<1>14. ASSUME NEW v \in Vm, Receive(v) PROVE Kept
  BY <1>0, <1>b, <1>14 DEF Receive, runtime, beacon, cache, stream, kernel, TypeInv
<1>15. ASSUME NEW v \in Vm, Route(v) PROVE Kept
  <2>1. /\ route' = [route EXCEPT ![at[v]][job[v].vm] = job[v].to]
        /\ pc' = pc /\ watch[v] = "route"
    BY <1>15 DEF Route
  <2>2. at[v] = at[x] => job[v].vm # x
    BY <1>0, <2>1 DEF Local, Elsewhere
  <2>3. job[v].vm \in Vm /\ at[v] \in Node
    BY <2>1 DEF TypeInv, Job
  <2>4. route'[at[x]][x] = route[at[x]][x]
    BY <1>b, <2>1, <2>2, <2>3 DEF TypeInv
  <2> QED
    BY <1>0, <1>b, <2>1, <2>4
<1>16. ASSUME NEW v \in Vm, Disconnect(v) PROVE Kept
  BY <1>0, <1>b, <1>16 DEF Disconnect, runtime, beacon, cache, stream, kernel, TypeInv
<1>17. ASSUME NEW v \in Vm, Retry(v) PROVE Kept
  BY <1>0, <1>b, <1>17 DEF Retry, runtime, beacon, cache, stream, kernel, TypeInv
<1>18. ASSUME NEW v \in Vm, Exit(v) PROVE Kept
  BY <1>0, <1>b, <1>18 DEF Exit, runtime, beacon, cache, stream, kernel, TypeInv
<1>19. ASSUME NEW v \in Vm, Kill(v) PROVE Kept
  BY <1>0, <1>b, <1>19 DEF Kill, runtime, beacon, cache, stream, kernel, TypeInv
<1>20. ASSUME NEW v \in Vm, NEW n \in Target, Move(v, n) PROVE Kept
  BY <1>0, <1>b, <1>20 DEF Move, kernel
<1> QED
  BY <1>1, <1>2, <1>3, <1>4, <1>5, <1>6, <1>7, <1>8, <1>9, <1>10, <1>11, <1>12, <1>13, <1>14, <1>15, <1>16, <1>17, <1>18, <1>19, <1>20 DEF Next, Disturb, Operate, Watcher

\* The route to the TAP of a VM that is up stays on every node that no VM has
\* moved to or from, whatever the watchers of any number of VMs learn, cache
\* and program there: none of them takes a VM of its own node for a remote one.
THEOREM LocalRoutes == Spec => []LocalRouteKept
<1>1. Init => Local /\ Tap
  <2> SUFFICES ASSUME Init PROVE Local /\ Tap
    OBVIOUS
  <2>1. \A v \in Vm : mem[v] = Empty /\ file[v] = Empty /\ watch[v] = "off" /\ pc[v] = "down"
    BY DEF Init
  <2>2. \A v, u \in Vm : at[v] \in Node /\ route[at[v]][u] = None
    BY HomeAssumption DEF Init
  <2>3. \A v \in Vm : Foreign(v, Empty)
    BY DEF Foreign, Empty
  <2> QED
    BY <2>1, <2>2, <2>3 DEF Local, Tap
<1>2. LocalInv /\ [Next]_vars => Local' /\ Tap'
  BY LocalStep, TapStep DEF LocalInv
<1>3. LocalInv => LocalRouteKept
  BY DEF LocalInv, Tap, Clean, LocalRouteKept
<1> QED
  BY <1>1, <1>2, <1>3, Basics, PTL DEF Spec, LocalInv
-----------------------------------------------------------------------------
(* The routes to other nodes.                                              *)

\* The cache that the next ApplyCachedMembers leaves in memory.
Filled(v) == \E u \in Vm : file[v].members[u] # None
Resume(v) == IF Filled(v) THEN file[v] ELSE mem[v]

\* Memory and file hold the same members, the file no more than memory, of VMs
\* that beacon has heard of; a route about to be programmed is the last change
\* the watcher was sent, and is cached already.
Synced(v) ==
    /\ mem[v] = Empty \/ mem[v].members = file[v].members
    /\ watch[v] \notin {"off", "cache"} =>
          /\ mem[v].members = file[v].members
          /\ Filled(v) => file[v].revision <= mem[v].revision
    /\ \A u \in Vm : file[v].members[u] # None => Last(u) # 0
    /\ watch[v] = "route" =>
          /\ pos[v] \in 1 .. Len(log)
          /\ job[v].vm = log[pos[v]].vm
          /\ job[v].to = IF log[pos[v]].deleted THEN None ELSE log[pos[v]].node
          /\ mem[v].members[job[v].vm] = job[v].to

\* The last change that the watcher of v will not be sent again.
Sent(v) == IF watch[v] \in {"watch", "route"} THEN pos[v]
           ELSE IF watch[v] \in {"publish", "connect", "wait"} THEN mem[v].revision
           ELSE Resume(v).revision

\* The watcher of v, once it runs, still programs the route to u that is right.
Owes(v, u) ==
    \/ Last(u) > Sent(v)
    \/ watch[v] \in {"off", "cache"} /\ Owner(u) # None /\ file[v].members[u] = Owner(u)
    \/ watch[v] = "route" /\ job[v].vm = u

\* It runs, or is started again whatever the requests.
Running(v) == watch[v] # "off" \/ pc[v] = "killed"

\* The route to u on the node n is right, or a watcher that runs there is yet to
\* set it right, or none runs and the first one that does will.
Follows(n, u) ==
    \/ route[n][u] = Owner(u)
    \/ n \in behind
    \/ n \in cut /\ Owner(u) = None
    \/ \E w \in Vm : at[w] = n /\ Running(w) /\ Owes(w, u)
    \/ \A w \in Vm : at[w] = n => ~Running(w) /\ Owes(w, u)

Following == \A n \in Node, u \in Vm : Clean(n) /\ n \notin been[u] => Follows(n, u)

AllSynced == \A v \in Vm : Synced(v)

FollowInv == CacheInv /\ AllSynced /\ Following

\* What a step leaves of the log.
LEMMA LogsKeep ==
    ASSUME TypeInv, Counted, Logs, NEW u \in Vm
    PROVE  /\ \A i \in 1 .. Len(log) : log'[i] = log[i]
           /\ Last(u) # 0 => Last(u)' # 0
           /\ \/ Last(u)' = Last(u) /\ Owner(u)' = Owner(u)
              \/ Last(u)' = Len(log) + 1 /\ log' # log
<1>0. Len(log) \in Nat /\ Last(u) \in 0 .. Len(log)
  BY LastChange DEF TypeInv
<1>1. CASE log' = log
  BY <1>1 DEF Last, Owner, Published
<1>2. CASE log' # log
  <2>1. PICK v \in Vm, n \in Node, gone \in BOOLEAN : Record(v, n, gone)
    BY <1>2 DEF Logs
  <2>2. /\ \A i \in 1 .. Len(log) : log'[i] = log[i]
        /\ Last(v)' = Len(log) + 1
        /\ \A w \in Vm \ {v} : Last(w)' = Last(w)
    BY <2>1, Recorded DEF TypeInv
  <2>3. CASE u = v
    <3>1. Last(u)' = Len(log) + 1
      BY <2>2, <2>3
    <3> QED
      BY <1>0, <1>2, <2>2, <3>1
  <2>4. CASE u # v
    <3>1. Last(u)' = Last(u)
      BY <2>2, <2>4
    <3>2. Last(u) # 0 => log'[Last(u)] = log[Last(u)]
      BY <1>0, <2>2
    <3>3. Owner(u)' = Owner(u)
      BY <3>1, <3>2 DEF Owner, Published
    <3> QED
      BY <2>2, <3>1, <3>3
  <2> QED
    BY <2>3, <2>4
<1> QED
  BY <1>1, <1>2

\* It is enough to look at the VM that takes the step.
LEMMA SyncedAt ==
    ASSUME TypeInv, Counted, Logs, AllSynced, NEW v \in Vm, Synced(v)',
           \A w \in Vm \ {v} :
              /\ mem'[w] = mem[w] /\ file'[w] = file[w] /\ watch'[w] = watch[w]
              /\ pos'[w] = pos[w] /\ job'[w] = job[w]
    PROVE  AllSynced'
<1> SUFFICES ASSUME NEW w \in Vm \ {v} PROVE Synced(w)'
  BY DEF AllSynced
<1>1. Synced(w)
  BY DEF AllSynced
<1>2. \A u \in Vm : Last(u) # 0 => Last(u)' # 0
  BY LogsKeep
<1>3. \A i \in 1 .. Len(log) : log'[i] = log[i]
  BY LogsKeep
<1>4. Len(log) \in Nat /\ Len(log') \in Nat /\ Len(log) <= Len(log')
  BY LogsGrow
<1>5. watch[w] = "route" => pos[w] \in 1 .. Len(log') /\ log'[pos[w]] = log[pos[w]]
  BY <1>1, <1>3, <1>4 DEF Synced
<1>6. Filled(w)' <=> Filled(w)
  BY DEF Filled
<1>7. mem[w] = Empty <=> mem'[w] = Empty
  OBVIOUS
<1> QED
  BY <1>1, <1>2, <1>5, <1>6 DEF Synced

\* The cache of one VM stays, and so does the route it may be about to program.
LEMMA SyncedStays ==
    ASSUME TypeInv, Counted, Logs, AllSynced, NEW v \in Vm, UNCHANGED <<mem, file>>,
           \A w \in Vm \ {v} : watch'[w] = watch[w] /\ pos'[w] = pos[w] /\ job'[w] = job[w],
           \/ watch'[v] \in {"off", "cache"}
           \/ watch'[v] # "route" /\ watch[v] \notin {"off", "cache"}
           \/ watch'[v] = watch[v] /\ pos'[v] = pos[v] /\ job'[v] = job[v]
    PROVE  AllSynced'
<1>1. Synced(v)
  BY DEF AllSynced
<1>2. \A u \in Vm : Last(u) # 0 => Last(u)' # 0
  BY LogsKeep
<1>3. \A i \in 1 .. Len(log) : log'[i] = log[i]
  BY LogsKeep
<1>4. Len(log) \in Nat /\ Len(log') \in Nat /\ Len(log) <= Len(log')
  BY LogsGrow
<1>5. watch[v] = "route" => pos[v] \in 1 .. Len(log') /\ log'[pos[v]] = log[pos[v]]
  BY <1>1, <1>3, <1>4 DEF Synced
<1>6. Filled(v)' <=> Filled(v)
  BY DEF Filled
<1>7. Synced(v)'
  BY <1>1, <1>2, <1>5, <1>6 DEF Synced
<1> QED
  BY <1>7, SyncedAt

LEMMA SyncedIdle ==
    ASSUME TypeInv, Counted, Logs, AllSynced, UNCHANGED <<mem, file, watch, pos, job>>
    PROVE  AllSynced'
<1>1. CASE Vm = {}
  BY <1>1 DEF AllSynced
<1>2. CASE Vm # {}
  <2>1. PICK v \in Vm : TRUE
    BY <1>2
  <2> QED
    BY <2>1, SyncedStays
<1> QED
  BY <1>1, <1>2

LEMMA SyncedReceive ==
    ASSUME CacheInv, Logs, AllSynced, NEW v \in Vm, Receive(v)
    PROVE  AllSynced'
<1> USE DEF CacheInv
<1> DEFINE i == First(v)
           u == log[i].vm
<1>1. Received(v, i) /\ watch[v] = "watch" /\ Unsent(v) # {}
  BY ReceiveFirst
<1>2. i \in 1 .. Len(log) /\ i > pos[v] /\ log[i] \in Change /\ log' = log
  BY <1>1, FirstUnsent DEF Receive, beacon
<1>3. u \in Vm /\ pos' = [pos EXCEPT ![v] = i]
  BY <1>1, <1>2 DEF Received, Change
<1>4. Synced(v)
  BY DEF AllSynced
<1>5. /\ \A w \in Vm : Last(w)' = Last(w)
      /\ Last(u) # 0
  <2>1. \A k \in 1 .. Len(log) : log[k].vm = u => Last(u) # 0
    BY <1>3, LastChange DEF TypeInv
  <2> QED
    BY <1>2, <2>1 DEF Last
<1> HIDE DEF i
<1>6. pos'[v] = i /\ \A w \in Vm \ {v} : pos'[w] = pos[w]
  BY <1>3 DEF TypeInv
<1>7. CASE log[i].node = at[v]
  <2>1. UNCHANGED <<mem, file, watch, job>>
    BY <1>1, <1>7 DEF Received, cache
  <2> QED
    BY <1>1, <1>6, <2>1, SyncedStays
<1>8. CASE log[i].node # at[v]
  <2>1. PICK to \in Node \cup {None} :
            /\ to = IF log[i].deleted THEN None ELSE log[i].node
            /\ Learn(v, u, to, i)
            /\ job' = [job EXCEPT ![v] = [vm |-> u, to |-> to]]
    BY <1>1, <1>8 DEF Received
  <2>2. watch' = [watch EXCEPT ![v] = "route"]
    BY <1>1, <1>8 DEF Received
  <2>3. i \in Nat
    BY <1>2 DEF TypeInv
  <2> HIDE DEF u
  <2>4. /\ mem' \in [Vm -> Caches] /\ file' \in [Vm -> Caches]
        /\ mem'[v].revision = IF i > mem[v].revision THEN i ELSE mem[v].revision
        /\ mem'[v].members = [mem[v].members EXCEPT ![u] = to]
        /\ \A w \in Vm \ {v} : mem'[w] = mem[w] /\ file'[w] = file[w]
    BY <1>3, <2>1, <2>3, Learnt
  <2>5. mem[v].members = file[v].members /\ (Filled(v) => file[v].revision <= mem[v].revision)
    BY <1>1, <1>4 DEF Synced
  <2>6. /\ mem[v] \in Caches /\ file[v] \in Caches
        /\ mem[v].members \in [Vm -> Node \cup {None}]
        /\ mem[v].revision \in Nat /\ file[v].revision \in Nat
    BY DEF TypeInv, Caches
  <2>7. /\ mem'[v].members = file'[v].members
        /\ Filled(v)' => file'[v].revision <= mem'[v].revision
    <3>1. CASE mem[v].members[u] = to
      <4>1. file' = file /\ mem'[v].members = mem[v].members
        BY <1>3, <2>1, <2>4, <2>6, <3>1 DEF Learn
      <4>2. Filled(v)' => Filled(v)
        BY <4>1 DEF Filled
      <4>3. mem'[v].revision \in Nat /\ mem[v].revision <= mem'[v].revision
        BY <2>3, <2>4, <2>6
      <4> QED
        BY <2>5, <2>6, <4>1, <4>2, <4>3
    <3>2. CASE mem[v].members[u] # to
      <4>1. file'[v] = mem'[v]
        BY <2>1, <3>2 DEF Learn, TypeInv
      <4>2. mem'[v].revision \in Nat
        BY <2>3, <2>4, <2>6
      <4> QED
        BY <4>1, <4>2
    <3> QED
      BY <3>1, <3>2
  <2>8. \A w \in Vm : file'[v].members[w] # None => Last(w) # 0
    <3> SUFFICES ASSUME NEW w \in Vm, file'[v].members[w] # None PROVE Last(w) # 0
      OBVIOUS
    <3>1. CASE w = u
      BY <1>5, <3>1 DEF u
    <3>2. CASE w # u
      <4>1. mem[v].members[w] # None
        BY <2>4, <2>6, <2>7, <3>2
      <4> QED
        BY <1>4, <2>5, <4>1 DEF Synced
    <3> QED
      BY <3>1, <3>2
  <2>9. /\ job'[v].vm = u /\ job'[v].to = to /\ \A w \in Vm \ {v} : job'[w] = job[w]
        /\ watch'[v] = "route" /\ \A w \in Vm \ {v} : watch'[w] = watch[w]
    BY <2>1, <2>2 DEF TypeInv
  <2>10. mem'[v].members[u] = to
    BY <1>3, <2>4, <2>6
  <2>11. Synced(v)'
    <3>1. pos'[v] \in 1 .. Len(log') /\ log'[pos'[v]] = log[i] /\ u = log[i].vm
      BY <1>2, <1>6 DEF u
    <3> QED
      BY <1>5, <2>1, <2>7, <2>8, <2>9, <2>10, <3>1 DEF Synced
  <2> QED
    BY <1>6, <2>4, <2>9, <2>11, SyncedAt
<1> QED
  BY <1>7, <1>8

LEMMA SyncedStep == CacheInv /\ AllSynced /\ [Next]_vars => AllSynced'
<1> SUFFICES ASSUME CacheInv, AllSynced, [Next]_vars PROVE AllSynced'
  OBVIOUS
<1> USE DEF CacheInv
<1>0. Logs
  BY NextLogs
<1>1. CASE UNCHANGED vars
  BY <1>0, <1>1, SyncedIdle DEF vars, runtime, beacon, cache, stream, kernel
<1>2. CASE Outage
  BY <1>0, <1>2, SyncedIdle DEF Outage, Fall, runtime, beacon, cache, stream, kernel
<1>3. CASE Recover
  BY <1>0, <1>3, SyncedIdle DEF Recover, runtime, beacon, cache, stream, kernel
<1>4. ASSUME NEW v \in Vm, Start(v) PROVE AllSynced'
  BY <1>0, <1>4, SyncedStays DEF Start, cache, stream, TypeInv
<1>5. ASSUME NEW v \in Vm, AddTap(v) PROVE AllSynced'
  BY <1>0, <1>5, SyncedIdle DEF AddTap, cache, stream
<1>6. ASSUME NEW v \in Vm, Stop(v) PROVE AllSynced'
  BY <1>0, <1>6, SyncedIdle DEF Stop, cache, stream
<1>7. ASSUME NEW v \in Vm, Drain(v) PROVE AllSynced'
  BY <1>0, <1>7, SyncedIdle DEF Drain, cache, stream
<1>8. ASSUME NEW v \in Vm, Withdraw(v) PROVE AllSynced'
  BY <1>0, <1>8, SyncedIdle DEF Withdraw, cache, stream
<1>9. ASSUME NEW v \in Vm, Leave(v) PROVE AllSynced'
  BY <1>0, <1>9, SyncedIdle DEF Leave, cache, stream
<1>10. ASSUME NEW v \in Vm, ApplyCachedMembers(v) PROVE AllSynced'
  <2> DEFINE known == {u \in Vm : file[v].members[u] # None}
  <2>1. mem' = [mem EXCEPT ![v] = IF known = {} THEN @ ELSE file[v]] /\ (known = {} <=> ~Filled(v))
    BY <1>10 DEF ApplyCachedMembers, Filled
  <2> HIDE DEF known
  <2>2. /\ UNCHANGED <<log, file, pos, job>> /\ watch' = [watch EXCEPT ![v] = "publish"]
        /\ watch[v] = "cache"
    BY <1>10 DEF ApplyCachedMembers, beacon, stream
  <2>3. \A w \in Vm : Last(w)' = Last(w)
    BY <2>2 DEF Last
  <2>4. Synced(v)
    BY DEF AllSynced
  <2>5. Filled(v)' <=> Filled(v)
    BY <2>2 DEF Filled
  <2>6. watch'[v] = "publish" /\ \A w \in Vm \ {v} : watch'[w] = watch[w] /\ mem'[w] = mem[w]
    BY <2>1, <2>2 DEF TypeInv
  <2>7. CASE Filled(v)
    <3>1. mem'[v] = file[v] /\ file[v].revision \in Nat
      BY <2>1, <2>7 DEF TypeInv, Caches
    <3>2. Synced(v)'
      BY <2>2, <2>3, <2>4, <2>5, <2>6, <3>1 DEF Synced
    <3> QED
      BY <1>0, <2>2, <2>6, <3>2, SyncedAt
  <2>8. CASE ~Filled(v)
    <3>1. mem'[v] = mem[v]
      BY <2>1, <2>8 DEF TypeInv
    <3>2. mem[v].members = file[v].members
      <4>1. file[v].members \in [Vm -> Node \cup {None}] /\ \A w \in Vm : file[v].members[w] = None
        BY <2>8 DEF TypeInv, Caches, Filled
      <4>2. file[v].members = [w \in Vm |-> None]
        BY <4>1
      <4> QED
        BY <2>4, <4>2 DEF Synced, Empty
    <3>3. Synced(v)'
      BY <2>2, <2>3, <2>4, <2>5, <2>6, <2>8, <3>1, <3>2 DEF Synced
    <3> QED
      BY <1>0, <2>2, <2>6, <3>3, SyncedAt
  <2> QED
    BY <2>7, <2>8
<1>11. ASSUME NEW v \in Vm, Publish(v) PROVE AllSynced'
  BY <1>0, <1>11, SyncedStays DEF Publish, cache, stream, TypeInv
<1>12. ASSUME NEW v \in Vm, PublishUnanswered(v) PROVE AllSynced'
  BY <1>0, <1>12, SyncedStays DEF PublishUnanswered, cache, stream, TypeInv
<1>13. ASSUME NEW v \in Vm, Connect(v) PROVE AllSynced'
  BY <1>0, <1>13, SyncedStays DEF Connect, cache, TypeInv
<1>14. ASSUME NEW v \in Vm, Receive(v) PROVE AllSynced'
  BY <1>0, <1>14, SyncedReceive
<1>15. ASSUME NEW v \in Vm, Route(v) PROVE AllSynced'
  BY <1>0, <1>15, SyncedStays DEF Route, cache, TypeInv
<1>16. ASSUME NEW v \in Vm, Disconnect(v) PROVE AllSynced'
  BY <1>0, <1>16, SyncedStays DEF Disconnect, cache, TypeInv
<1>17. ASSUME NEW v \in Vm, Retry(v) PROVE AllSynced'
  BY <1>0, <1>17, SyncedStays DEF Retry, cache, stream, TypeInv
<1>18. ASSUME NEW v \in Vm, Exit(v) PROVE AllSynced'
  BY <1>0, <1>18, SyncedStays DEF Exit, cache, TypeInv
<1>19. ASSUME NEW v \in Vm, Kill(v) PROVE AllSynced'
  <2>1. /\ log' = log /\ file' = file /\ mem'[v] = Empty /\ watch'[v] = "off"
        /\ \A w \in Vm \ {v} : /\ mem'[w] = mem[w] /\ watch'[w] = watch[w]
                               /\ pos'[w] = pos[w] /\ job'[w] = job[w]
    BY <1>19 DEF Kill, beacon, TypeInv
  <2>2. Synced(v) /\ \A w \in Vm : Last(w)' = Last(w)
    BY <2>1 DEF AllSynced, Last
  <2>3. Synced(v)'
    BY <2>1, <2>2 DEF Synced
  <2> QED
    BY <1>0, <2>1, <2>3, SyncedAt
<1>20. ASSUME NEW v \in Vm, NEW n \in Target, Move(v, n) PROVE AllSynced'
  <2>1. /\ UNCHANGED <<log, file, watch, pos, job>> /\ mem'[v] = Empty /\ watch[v] = "off"
        /\ \A w \in Vm \ {v} : mem'[w] = mem[w]
    BY <1>20 DEF Move, beacon, stream, Off, TypeInv
  <2>2. Synced(v) /\ \A w \in Vm : Last(w)' = Last(w)
    BY <2>1 DEF AllSynced, Last
  <2>3. Synced(v)'
    BY <2>1, <2>2 DEF Synced
  <2> QED
    BY <1>0, <2>1, <2>3, SyncedAt
<1> QED
  BY <1>1, <1>2, <1>3, <1>4, <1>5, <1>6, <1>7, <1>8, <1>9, <1>10, <1>11, <1>12, <1>13, <1>14, <1>15, <1>16, <1>17, <1>18, <1>19, <1>20 DEF Next, Disturb, Operate, Watcher

\* A clean node was clean before, nobody came to it or left it, and what beacon
\* says of a VM that was never there is not of this node.
LEMMA CleanNode ==
    ASSUME CacheInv, Stayed, [Next]_vars, NEW n \in Node, NEW u \in Vm,
           Clean(n)', n \notin been'[u]
    PROVE  /\ Clean(n) /\ n \notin been[u]
           /\ \A w \in Vm : at'[w] = n <=> at[w] = n
           /\ \A w \in Vm : at[w] = n => ~Moved(w) /\ w # u
           /\ Last(u) # 0 => log[Last(u)].node # n
<1> USE DEF CacheInv
<1>1. \A w \in Vm : at[w] \in been[w] /\ at'[w] \in been'[w]
  BY Housed DEF Places
<1>2. \A w \in Vm : n \in been[w] => at'[w] = at[w] /\ ~Moved(w)
  BY DEF Stayed, Clean
<1>3. \A w \in Vm : n \in been'[w] => at'[w] = at[w] /\ ~Moved(w)
  BY DEF Stayed, Clean
<1>4. Clean(n) /\ n \notin been[u]
  BY <1>2 DEF Stayed, Clean
<1>5. Last(u) # 0 => log[Last(u)].node \in been[u]
  <2>1. Last(u) \in 0 .. Len(log) /\ (Last(u) # 0 => log[Last(u)].vm = u)
    BY LastChange DEF TypeInv
  <2>2. Last(u) # 0 => Last(u) \in 1 .. Len(log)
    BY <2>1 DEF TypeInv
  <2> QED
    BY <2>1, <2>2 DEF Places
<1> QED
  BY <1>1, <1>2, <1>3, <1>4, <1>5

\* What the watchers of the VMs that take no step still owe.
LEMMA OwesStays ==
    ASSUME NEW w \in Vm, NEW u \in Vm, Last(u)' = Last(u), Owner(u)' = Owner(u),
           mem'[w] = mem[w], file'[w] = file[w], watch'[w] = watch[w],
           pos'[w] = pos[w], job'[w] = job[w]
    PROVE  Owes(w, u)' <=> Owes(w, u)
<1>1. Filled(w)' <=> Filled(w)
  BY DEF Filled
<1>2. Resume(w)' = Resume(w)
  BY <1>1 DEF Resume
<1>3. Sent(w)' = Sent(w)
  BY <1>2 DEF Sent
<1> QED
  BY <1>3 DEF Owes

\* It is enough to look at the VM that takes the step.
LEMMA FollowsAt ==
    ASSUME NEW n \in Node, NEW u \in Vm, Follows(n, u), NEW v \in Vm,
           Last(u)' = Last(u), Owner(u)' = Owner(u),
           \A w \in Vm : at'[w] = n <=> at[w] = n,
           \A w \in Vm \ {v} :
              /\ pc'[w] = pc[w] /\ watch'[w] = watch[w] /\ mem'[w] = mem[w]
              /\ file'[w] = file[w] /\ pos'[w] = pos[w] /\ job'[w] = job[w],
           n \in behind => n \in behind',
           n \in cut => n \in cut',
           \/ route'[n][u] = Owner(u)
           \/ n \in behind'
           \/ n \in cut' /\ Owner(u) = None
           \/ at[v] # n /\ route'[n][u] = route[n][u]
           \/ /\ at[v] = n /\ route'[n][u] = route[n][u]
              /\ Running(v) => Running(v)'
              /\ Owes(v, u) => Owes(v, u)'
           \/ at[v] = n /\ route'[n][u] = route[n][u] /\ Running(v) /\ ~Owes(v, u)
           \/ at[v] = n /\ Running(v)' /\ Owes(v, u)'
    PROVE  Follows(n, u)'
<1>1. \A w \in Vm \ {v} : (Owes(w, u)' <=> Owes(w, u)) /\ (Running(w)' <=> Running(w))
  BY OwesStays DEF Running
<1> DEFINE R(w) == Running(w)
           O(w) == Owes(w, u)
<1>2. Follows(n, u) <=>
        \/ route[n][u] = Owner(u)
        \/ n \in behind
        \/ n \in cut /\ Owner(u) = None
        \/ \E w \in Vm : at[w] = n /\ Running(w) /\ Owes(w, u)
        \/ \A w \in Vm : at[w] = n => ~Running(w) /\ Owes(w, u)
  BY DEF Follows
<1>3. Follows(n, u)' <=>
        \/ route'[n][u] = Owner(u)
        \/ n \in behind'
        \/ n \in cut' /\ Owner(u) = None
        \/ \E w \in Vm : at[w] = n /\ Running(w)' /\ Owes(w, u)'
        \/ \A w \in Vm : at[w] = n => ~Running(w)' /\ Owes(w, u)'
  BY DEF Follows
<1>4. CASE route[n][u] = Owner(u)
  BY <1>3, <1>4
<1>5. CASE n \in behind \/ (n \in cut /\ Owner(u) = None)
  BY <1>3, <1>5
<1>6. CASE \E w \in Vm : at[w] = n /\ Running(w) /\ Owes(w, u)
  BY <1>1, <1>3, <1>6
<1>7. CASE \A w \in Vm : at[w] = n => ~Running(w) /\ Owes(w, u)
  BY <1>1, <1>3, <1>7
<1> QED
  BY <1>2, <1>4, <1>5, <1>6, <1>7

\* A change that beacon records while the caches stay is owed by all.
LEMMA FollowsLogged ==
    ASSUME CacheInv, Logs, NEW n \in Node, NEW u \in Vm, Last(u)' = Len(log) + 1,
           UNCHANGED <<mem, file, pos>>
    PROVE  Follows(n, u)'
<1> SUFFICES ASSUME NEW w \in Vm PROVE Owes(w, u)'
  BY DEF Follows
<1> USE DEF CacheInv, Cover
<1>1. /\ mem[w].revision <= Len(log) /\ file[w].revision <= Len(log) /\ pos[w] <= Len(log)
      /\ mem[w].revision \in Nat /\ file[w].revision \in Nat /\ pos[w] \in Nat
      /\ Len(log) \in Nat
  BY DEF Behind, TypeInv, Caches
<1>2. Sent(w)' \in {pos[w], mem[w].revision, file[w].revision}
  BY DEF Sent, Resume
<1> QED
  BY <1>1, <1>2 DEF Owes

\* A step of v that leaves the kernel, the caches and the log.
LEMMA FollowsOn ==
    ASSUME NEW n \in Node, NEW u \in Vm, Follows(n, u), NEW v \in Vm,
           UNCHANGED <<log, mem, file, route, cut, behind>>,
           \A w \in Vm : at'[w] = n <=> at[w] = n,
           \A w \in Vm \ {v} : /\ pc'[w] = pc[w] /\ watch'[w] = watch[w]
                               /\ pos'[w] = pos[w] /\ job'[w] = job[w],
           Running(v) => Running(v)',
           Owes(v, u) => Owes(v, u)'
    PROVE  Follows(n, u)'
<1>1. Last(u)' = Last(u) /\ Owner(u)' = Owner(u)
  BY DEF Last, Owner, Published
<1> QED
  BY <1>1, FollowsAt

\* A step that neither the watcher of v nor its node notices.
LEMMA FollowsIdle ==
    ASSUME NEW n \in Node, NEW u \in Vm, Follows(n, u), NEW v \in Vm,
           UNCHANGED <<log, mem, file, watch, pos, job>>,
           \A w \in Vm : at'[w] = n <=> at[w] = n,
           \A w \in Vm \ {v} : pc'[w] = pc[w],
           pc[v] = "killed" => pc'[v] = "killed",
           n \in behind => n \in behind', n \in cut => n \in cut',
           route'[n][u] = route[n][u]
    PROVE  Follows(n, u)'
<1>1. Last(u)' = Last(u) /\ Owner(u)' = Owner(u)
  BY DEF Last, Owner, Published
<1>2. Owes(v, u)' <=> Owes(v, u)
  BY <1>1, OwesStays
<1>3. Running(v) => Running(v)'
  BY DEF Running
<1> QED
  BY <1>1, <1>2, <1>3, FollowsAt

\* Beacon may record a change while the watcher of v is where it sends nothing.
LEMMA FollowsWrite ==
    ASSUME CacheInv, Logs, NEW n \in Node, NEW u \in Vm, Follows(n, u), NEW v \in Vm,
           UNCHANGED <<mem, file, pos, job, route, cut, behind>>,
           \A w \in Vm : at'[w] = n <=> at[w] = n,
           \A w \in Vm \ {v} : pc'[w] = pc[w] /\ watch'[w] = watch[w],
           \/ /\ watch[v] \in {"publish", "connect", "wait"}
              /\ watch'[v] \in {"publish", "connect", "wait"}
           \/ watch'[v] = watch[v] /\ pc[v] # "killed"
    PROVE  Follows(n, u)'
<1>1. CASE Last(u)' = Len(log) + 1
  BY <1>1, FollowsLogged
<1>2. CASE Last(u)' = Last(u) /\ Owner(u)' = Owner(u)
  <2>1. Running(v) => Running(v)'
    BY DEF Running
  <2>2. Owes(v, u) => Owes(v, u)'
    <3>1. CASE watch'[v] = watch[v]
      BY <1>2, <3>1, OwesStays
    <3>2. CASE watch[v] \in {"publish", "connect", "wait"} /\ watch'[v] \in {"publish", "connect", "wait"}
      <4>1. Sent(v) = mem[v].revision /\ Sent(v)' = mem[v].revision
        BY <3>2 DEF Sent
      <4> QED
        BY <1>2, <3>2, <4>1 DEF Owes
    <3> QED
      BY <3>1, <3>2
  <2> QED
    BY <1>2, <2>1, <2>2, FollowsAt
<1> QED
  BY <1>1, <1>2, LogsKeep DEF CacheInv

\* A last change that the watcher of v was sent, as its route says.
LEMMA JobIsLast ==
    ASSUME CacheInv, AllSynced, NEW v \in Vm, watch[v] = "route"
    PROVE  LET u == job[v].vm
           IN  u \in Vm /\ (Last(u) > pos[v] \/ job[v].to = Owner(u))
<1> USE DEF CacheInv
<1> DEFINE u == job[v].vm
<1>1. /\ pos[v] \in 1 .. Len(log) /\ u = log[pos[v]].vm
      /\ job[v].to = IF log[pos[v]].deleted THEN None ELSE log[pos[v]].node
  BY DEF AllSynced, Synced
<1>2. u \in Vm /\ pos[v] \in Nat
  BY DEF TypeInv, Job
<1> HIDE DEF u
<1>3. Last(u) \in 0 .. Len(log) /\ pos[v] <= Last(u)
  BY <1>1, <1>2, LastChange DEF TypeInv
<1>4. CASE Last(u) = pos[v]
  <2>1. Last(u) # 0
    BY <1>1, <1>4
  <2> QED
    BY <1>1, <1>2, <1>4, <2>1 DEF Owner, Published, u
<1>5. CASE Last(u) # pos[v]
  <2>1. Last(u) > pos[v]
    BY <1>2, <1>3, <1>5
  <2> QED
    BY <1>2, <2>1 DEF u
<1> QED
  BY <1>4, <1>5

\* A cache that covers the last change of u has it right.
LEMMA ResumeExact ==
    ASSUME CacheInv, AllSynced, NEW w \in Vm, NEW u \in Vm, ~Moved(w),
           Last(u) # 0 => log[Last(u)].node # at[w],
           ~(Last(u) > Resume(w).revision)
    PROVE  Owner(u) = file[w].members[u]
<1> USE DEF CacheInv, Cover
<1>1. Exact(w, mem[w]) /\ Exact(w, file[w]) /\ Synced(w)
  BY DEF AllSynced
<1>2. Resume(w).revision \in Nat /\ Last(u) \in Nat
  <2>1. Last(u) \in 0 .. Len(log)
    BY LastChange DEF TypeInv
  <2> QED
    BY <2>1 DEF Resume, TypeInv, Caches
<1>3. CASE Last(u) = 0
  BY <1>1, <1>3 DEF Synced, Owner, Published
<1>4. CASE Last(u) # 0
  <2>1. Last(u) \in 1 .. Resume(w).revision /\ log[Last(u)].node # at[w]
    BY <1>2, <1>4
  <2>2. CASE Filled(w)
    BY <1>1, <2>1, <2>2 DEF Resume, Exact
  <2>3. CASE ~Filled(w)
    <3>1. mem[w].members[u] = Owner(u)
      BY <1>1, <2>1, <2>3 DEF Resume, Exact
    <3>2. mem[w].members[u] = file[w].members[u]
      <4>1. file[w].members[u] = None
        BY <2>3 DEF Filled
      <4> QED
        BY <1>1, <4>1 DEF Synced, Empty
    <3> QED
      BY <3>1, <3>2
  <2> QED
    BY <2>2, <2>3
<1> QED
  BY <1>3, <1>4

\* A cache that is applied: what it covers is right at once, and the rest is owed.
LEMMA FollowsCached ==
    ASSUME FollowInv, NEW n \in Node, NEW u \in Vm, Follows(n, u), NEW v \in Vm,
           ApplyCachedMembers(v), at[v] = n => ~Moved(v),
           Last(u) # 0 => log[Last(u)].node # n
    PROVE  Follows(n, u)'
<1> USE DEF FollowInv, CacheInv
<1> DEFINE known == {w \in Vm : file[v].members[w] # None}
<1>1. /\ mem' = [mem EXCEPT ![v] = IF known = {} THEN @ ELSE file[v]]
      /\ route' = [route EXCEPT ![at[v]] =
                     [w \in Vm |-> IF w \in known THEN file[v].members[w] ELSE @[w]]]
      /\ known = {} <=> ~Filled(v)
      /\ u \in known <=> file[v].members[u] # None
  BY DEF ApplyCachedMembers, Filled
<1> HIDE DEF known
<1>2. /\ UNCHANGED <<log, pc, at, file, pos, job, cut, behind>>
      /\ watch[v] = "cache" /\ watch' = [watch EXCEPT ![v] = "publish"]
  BY DEF ApplyCachedMembers, beacon, stream
<1>3. /\ mem'[v] = Resume(v) /\ watch'[v] = "publish"
      /\ \A w \in Vm \ {v} : mem'[w] = mem[w] /\ watch'[w] = watch[w]
  BY <1>1, <1>2 DEF Resume, TypeInv
<1>4. Last(u)' = Last(u) /\ Owner(u)' = Owner(u)
  BY <1>2 DEF Last, Owner, Published
<1>5. Sent(v)' = Resume(v).revision /\ Running(v)' /\ Running(v)
  BY <1>2, <1>3 DEF Sent, Running
<1>6. CASE at[v] # n
  <2>1. route'[n][u] = route[n][u]
    BY <1>1, <1>6 DEF TypeInv
  <2> QED
    BY <1>2, <1>3, <1>4, <1>6, <2>1, FollowsAt
<1>7. CASE at[v] = n /\ Last(u) > Resume(v).revision
  <2>1. Owes(v, u)'
    BY <1>4, <1>5, <1>7 DEF Owes
  <2> QED
    BY <1>2, <1>3, <1>4, <1>5, <1>7, <2>1, FollowsAt
<1>8. CASE at[v] = n /\ ~(Last(u) > Resume(v).revision)
  <2>1. Owner(u) = file[v].members[u]
    BY <1>8, ResumeExact
  <2>2. CASE u \in known
    <3>1. route'[n][u] = file[v].members[u]
      BY <1>1, <1>8, <2>2 DEF TypeInv
    <3> QED
      BY <1>2, <1>3, <1>4, <2>1, <3>1, FollowsAt
  <2>3. CASE u \notin known
    <3>1. route'[n][u] = route[n][u]
      BY <1>1, <1>8, <2>3 DEF TypeInv
    <3>2. Sent(v) = Resume(v).revision /\ Owner(u) = None
      BY <1>1, <1>2, <2>1, <2>3 DEF Sent
    <3>3. ~Owes(v, u)
      BY <1>2, <1>8, <3>2 DEF Owes
    <3> QED
      BY <1>2, <1>3, <1>4, <1>5, <1>8, <3>1, <3>3, FollowsAt
  <2> QED
    BY <2>2, <2>3
<1> QED
  BY <1>6, <1>7, <1>8

\* The next change that is sent to a watcher is the last of its VM, which the
\* watcher is about to program, or the last of its VM is still to be sent.
LEMMA FollowsReceive ==
    ASSUME FollowInv, NEW n \in Node, NEW u \in Vm, Follows(n, u), NEW v \in Vm,
           Receive(v), Last(u) # 0 => log[Last(u)].node # n
    PROVE  Follows(n, u)'
<1> USE DEF FollowInv, CacheInv
<1> DEFINE i == First(v)
<1>1. Received(v, i) /\ watch[v] = "watch" /\ Unsent(v) # {}
  BY ReceiveFirst
<1>2. i \in 1 .. Len(log) /\ i > pos[v] /\ pos[v] \in Nat /\ Len(log) \in Nat /\ i \in Nat
  BY <1>1, FirstUnsent DEF TypeInv
<1>3. UNCHANGED <<log, pc, at, route, cut, behind>>
  BY DEF Receive, beacon, kernel
<1>4. Last(u)' = Last(u) /\ Owner(u)' = Owner(u)
  BY <1>3 DEF Last, Owner, Published
<1>5. Last(u) \in pos[v] + 1 .. i => Last(u) = i
  BY <1>1, NextChange
<1>6. Last(u) \in 0 .. Len(log) /\ (Last(u) # 0 => log[Last(u)].vm = u)
  BY LastChange DEF TypeInv
<1>7. pos' = [pos EXCEPT ![v] = i]
  BY <1>1 DEF Received
<1>a. log[i].vm \in Vm
  BY <1>1, FirstUnsent DEF Change
<1> HIDE DEF i
<1>8. pos'[v] = i /\ \A w \in Vm \ {v} : pos'[w] = pos[w]
  BY <1>7 DEF TypeInv
<1>9. /\ \A w \in Vm \ {v} : /\ mem'[w] = mem[w] /\ file'[w] = file[w]
                             /\ watch'[w] = watch[w] /\ job'[w] = job[w]
      /\ \/ log[i].node = at[v] /\ watch'[v] = "watch"
         \/ watch'[v] = "route" /\ job'[v].vm = log[i].vm
  <2>1. CASE log[i].node = at[v]
    BY <1>1, <2>1 DEF Received, cache
  <2>2. CASE log[i].node # at[v]
    <3>1. PICK to \in Node \cup {None} :
              /\ Learn(v, log[i].vm, to, i)
              /\ job' = [job EXCEPT ![v] = [vm |-> log[i].vm, to |-> to]]
      BY <1>1, <2>2 DEF Received
    <3>2. watch' = [watch EXCEPT ![v] = "route"]
      BY <1>1, <2>2 DEF Received
    <3>3. \A w \in Vm \ {v} : mem'[w] = mem[w] /\ file'[w] = file[w]
      BY <1>2, <1>a, <3>1, Learnt
    <3>4. \A w \in Vm \ {v} : watch'[w] = watch[w] /\ job'[w] = job[w]
      BY <3>1, <3>2 DEF TypeInv
    <3>5. watch'[v] = "route" /\ job'[v].vm = log[i].vm
      BY <3>1, <3>2 DEF TypeInv
    <3> QED
      BY <3>3, <3>4, <3>5
  <2> QED
    BY <2>1, <2>2
<1>10. Running(v)'
  BY <1>9 DEF Running
<1>11. at[v] = n /\ Owes(v, u) => Owes(v, u)'
  <2> SUFFICES ASSUME at[v] = n, Owes(v, u) PROVE Owes(v, u)'
    OBVIOUS
  <2>1. Last(u) > pos[v]
    BY <1>1 DEF Owes, Sent
  <2>2. Sent(v)' = i
    BY <1>8, <1>9 DEF Sent
  <2>3. CASE Last(u) > i
    BY <1>4, <2>2, <2>3 DEF Owes
  <2>4. CASE ~(Last(u) > i)
    <3>1. Last(u) = i
      BY <1>2, <1>5, <1>6, <2>1, <2>4
    <3>2. log[i].node # n /\ log[i].vm = u
      BY <1>2, <1>6, <3>1
    <3>3. watch'[v] = "route" /\ job'[v].vm = u
      BY <1>9, <3>2
    <3> QED
      BY <3>3 DEF Owes
  <2> QED
    BY <2>3, <2>4
<1> QED
  BY <1>3, <1>4, <1>8, <1>9, <1>10, <1>11, FollowsAt

\* The route to u is programmed as its last change says, or another is still to
\* be sent.
LEMMA FollowsRoute ==
    ASSUME FollowInv, NEW n \in Node, NEW u \in Vm, Follows(n, u), NEW v \in Vm, Route(v)
    PROVE  Follows(n, u)'
<1> USE DEF FollowInv, CacheInv
<1>1. /\ UNCHANGED <<log, pc, at, mem, file, pos, cut, behind>> /\ watch[v] = "route"
      /\ route' = [route EXCEPT ![at[v]][job[v].vm] = job[v].to]
      /\ job' = [job EXCEPT ![v] = None]
      /\ watch' = [watch EXCEPT ![v] = "watch"]
  BY DEF Route, beacon, cache
<1>2. Last(u)' = Last(u) /\ Owner(u)' = Owner(u)
  BY <1>1 DEF Last, Owner, Published
<1>3. /\ watch'[v] = "watch"
      /\ \A w \in Vm \ {v} : watch'[w] = watch[w] /\ job'[w] = job[w]
  BY <1>1 DEF TypeInv
<1>4. Running(v)' /\ Sent(v)' = pos[v] /\ Sent(v) = pos[v]
  BY <1>1, <1>3 DEF Running, Sent
<1>5. /\ job[v].vm \in Vm /\ at[v] \in Node
      /\ Last(job[v].vm) > pos[v] \/ job[v].to = Owner(job[v].vm)
  BY <1>1, JobIsLast DEF TypeInv
<1>6. CASE at[v] # n
  <2>1. route'[n][u] = route[n][u]
    BY <1>1, <1>5, <1>6 DEF TypeInv
  <2> QED
    BY <1>1, <1>2, <1>3, <1>6, <2>1, FollowsAt
<1>7. CASE at[v] = n /\ job[v].vm # u
  <2>1. route'[n][u] = route[n][u]
    BY <1>1, <1>5, <1>7 DEF TypeInv
  <2>2. Owes(v, u) => Owes(v, u)'
    BY <1>1, <1>2, <1>4, <1>7 DEF Owes
  <2> QED
    BY <1>1, <1>2, <1>3, <1>4, <1>7, <2>1, <2>2, FollowsAt
<1>8. CASE at[v] = n /\ job[v].vm = u
  <2>1. route'[n][u] = job[v].to
    BY <1>1, <1>5, <1>8 DEF TypeInv
  <2>2. Last(u) > pos[v] => Owes(v, u)'
    BY <1>2, <1>4 DEF Owes
  <2> QED
    BY <1>1, <1>2, <1>3, <1>4, <1>5, <1>8, <2>1, <2>2, FollowsAt
<1> QED
  BY <1>6, <1>7, <1>8

\* A watcher that is stopped owes nothing, or leaves the node behind.
LEMMA FollowsExit ==
    ASSUME FollowInv, NEW n \in Node, NEW u \in Vm, Follows(n, u), NEW v \in Vm, Exit(v),
           Last(u) # 0 => log[Last(u)].node # n
    PROVE  Follows(n, u)'
<1> USE DEF FollowInv, CacheInv, Cover
<1>1. /\ UNCHANGED <<log, pc, at, mem, file, job, route, cut>>
      /\ watch[v] \in {"publish", "connect", "watch", "wait"}
      /\ \A w \in Vm \ {v} : watch'[w] = watch[w] /\ pos'[w] = pos[w]
  BY DEF Exit, beacon, cache, TypeInv
<1>2. /\ OutOfDate(v) => at[v] \in behind'
      /\ n \in behind => n \in behind'
  BY DEF Exit
<1>3. Last(u)' = Last(u) /\ Owner(u)' = Owner(u)
  BY <1>1 DEF Last, Owner, Published
<1>4. Running(v)
  BY <1>1 DEF Running
<1>5. CASE at[v] # n \/ ~Owes(v, u)
  BY <1>1, <1>2, <1>3, <1>4, <1>5, FollowsAt
<1>6. CASE at[v] = n /\ Owes(v, u)
  <2>1. /\ mem[v].revision \in Nat /\ pos[v] \in Nat
        /\ watch[v] = "watch" => mem[v].revision <= pos[v]
    BY DEF TypeInv, Caches, Followed
  <2>2. Last(u) \in Nat
    <3>1. Last(u) \in 0 .. Len(log)
      BY LastChange DEF TypeInv
    <3> QED
      BY <3>1
  <2>3. Last(u) > mem[v].revision
    BY <1>1, <1>6, <2>1, <2>2 DEF Owes, Sent
  <2>4. log[Last(u)].node # at[v]
    BY <1>6, <2>1, <2>2, <2>3
  <2>5. route[n][u] = Owner(u) \/ n \in behind'
    BY <1>2, <1>6, <2>3, <2>4 DEF OutOfDate
  <2> QED
    BY <1>1, <1>2, <1>3, <2>5, FollowsAt
<1> QED
  BY <1>5, <1>6

\* A watcher that is killed owes the same when it is started again, unless it
\* was about to remove a route.
LEMMA FollowsKill ==
    ASSUME FollowInv, NEW n \in Node, NEW u \in Vm, Follows(n, u), NEW v \in Vm, Kill(v)
    PROVE  Follows(n, u)'
<1> USE DEF FollowInv, CacheInv, Cover
<1>1. /\ UNCHANGED <<log, at, file, route>>
      /\ n \in behind => n \in behind'
      /\ watch'[v] = "off" /\ mem'[v] = Empty
      /\ \A w \in Vm \ {v} : /\ pc'[w] = pc[w] /\ watch'[w] = watch[w] /\ mem'[w] = mem[w]
                             /\ pos'[w] = pos[w] /\ job'[w] = job[w]
  BY DEF Kill, beacon, TypeInv
<1>2. /\ n \in cut => n \in cut'
      /\ watch[v] = "route" /\ job[v].to = None => at[v] \in cut'
  BY DEF Kill
<1>3. Last(u)' = Last(u) /\ Owner(u)' = Owner(u)
  BY <1>1 DEF Last, Owner, Published
<1>4. \/ Running(v)'
      \/ n \in behind'
      \/ at[v] # n
      \/ ~Running(v) /\ watch[v] = "off"
  <2>1. CASE pc[v] \in {"tap", "up"}
    BY <2>1 DEF Kill, Running, TypeInv
  <2>2. CASE pc[v] = "drain" /\ watch[v] # "off"
    BY <2>2 DEF Kill
  <2>3. CASE pc[v] \in {"drain", "withdraw", "leave"} /\ watch[v] = "off"
    BY <2>3 DEF Running
  <2> QED
    BY <2>1, <2>2, <2>3 DEF Kill, Off, TypeInv
<1>5. Synced(v) /\ Followed(v)
  BY DEF AllSynced
<1>6. /\ mem[v].revision \in Nat /\ file[v].revision \in Nat /\ pos[v] \in Nat
      /\ Last(u) \in Nat
  <2>1. Last(u) \in 0 .. Len(log)
    BY LastChange DEF TypeInv
  <2> QED
    BY <2>1 DEF TypeInv, Caches
<1>7. /\ Filled(v)' <=> Filled(v)
      /\ Sent(v)' = IF Filled(v) THEN file[v].revision ELSE 0
  <2>1. Filled(v)' <=> Filled(v)
    BY <1>1 DEF Filled
  <2>2. Sent(v)' = Resume(v)'.revision
    BY <1>1 DEF Sent
  <2> QED
    BY <1>1, <2>1, <2>2 DEF Resume, Empty
<1>8. \/ Owes(v, u) => Owes(v, u)'
      \/ watch[v] = "route" /\ job[v].to = None /\ Owner(u) = None
  <2> SUFFICES ASSUME Owes(v, u), ~Owes(v, u)'
               PROVE  watch[v] = "route" /\ job[v].to = None /\ Owner(u) = None
    OBVIOUS
  <2>1. ~(Last(u) > Sent(v)')
    BY <1>3 DEF Owes
  <2>2. ~(Owner(u) # None /\ file[v].members[u] = Owner(u))
    BY <1>1, <1>3 DEF Owes
  <2>3. CASE watch[v] \in {"off", "cache"}
    <3>1. Sent(v) = Resume(v).revision
      BY <2>3 DEF Sent
    <3>2. Last(u) > Resume(v).revision
      BY <2>2, <2>3, <3>1 DEF Owes
    <3> QED
      BY <1>6, <1>7, <2>1, <3>2 DEF Resume
  <2>4. CASE watch[v] \in {"publish", "connect", "wait"}
    <3>1. Last(u) > mem[v].revision
      BY <2>4 DEF Owes, Sent
    <3>2. Filled(v) => file[v].revision <= mem[v].revision
      BY <1>5, <2>4 DEF Synced
    <3> QED
      BY <1>6, <1>7, <2>1, <3>1, <3>2
  <2>5. CASE watch[v] \in {"watch", "route"}
    <3>1. /\ Filled(v) => file[v].revision <= mem[v].revision
          /\ mem[v].revision <= pos[v] /\ mem[v].members = file[v].members
      BY <1>5, <2>5 DEF Synced, Followed
    <3>2. ~(Last(u) > pos[v])
      BY <1>6, <1>7, <2>1, <3>1
    <3>3. watch[v] = "route" /\ job[v].vm = u
      BY <2>5, <3>2 DEF Owes, Sent
    <3>4. job[v].to = Owner(u)
      BY <3>2, <3>3, JobIsLast
    <3>5. file[v].members[u] = job[v].to
      BY <1>5, <3>1, <3>3 DEF Synced
    <3> QED
      BY <2>2, <3>3, <3>4, <3>5
  <2> QED
    BY <2>3, <2>4, <2>5 DEF TypeInv
<1>9. CASE at[v] # n
  BY <1>1, <1>2, <1>3, <1>9, FollowsAt
<1>10. CASE at[v] = n
  <2>1. CASE Running(v)' \/ n \in behind'
    BY <1>1, <1>2, <1>3, <1>8, <1>10, <2>1, FollowsAt
  <2>2. CASE ~Running(v) /\ watch[v] = "off"
    BY <1>1, <1>2, <1>3, <1>8, <1>10, <2>2, FollowsAt
  <2> QED
    BY <1>4, <1>10, <2>1, <2>2
<1> QED
  BY <1>9, <1>10

\* The last VM of a node takes all its routes away: whoever is started there
\* first has them in its cache, or is sent them.
LEMMA FollowsLeave ==
    ASSUME FollowInv, NEW n \in Node, NEW u \in Vm, Follows(n, u), NEW v \in Vm, Leave(v),
           \A w \in Vm : at[w] = n => ~Moved(w),
           Last(u) # 0 => log[Last(u)].node # n
    PROVE  Follows(n, u)'
<1> USE DEF FollowInv, CacheInv
<1>1. /\ UNCHANGED <<log, at, mem, file, watch, pos, job>>
      /\ pc[v] = "leave" /\ pc'[v] = "down" /\ \A w \in Vm \ {v} : pc'[w] = pc[w]
  BY DEF Leave, beacon, cache, stream, TypeInv
<1>2. Last(u)' = Last(u) /\ Owner(u)' = Owner(u)
  BY <1>1 DEF Last, Owner, Published
<1>3. CASE UNCHANGED kernel
  BY <1>1, <1>3, FollowsIdle DEF kernel
<1>4. CASE /\ ~ \E w \in Vm \ {v} : at[w] = at[v] /\ pc[w] # "down"
           /\ route' = [route EXCEPT ![at[v]] = [w \in Vm |-> None]]
           /\ cut' = cut \ {at[v]}
           /\ behind' = behind \ {at[v]}
  <2>1. CASE at[v] # n
    <3>1. route'[n][u] = route[n][u]
      BY <1>4, <2>1 DEF TypeInv
    <3> QED
      BY <1>1, <1>4, <2>1, <3>1, FollowsIdle
  <2>2. CASE at[v] = n
    <3>1. route'[n][u] = None
      BY <1>4, <2>2 DEF TypeInv
    <3>2. CASE Owner(u) = None
      BY <1>2, <3>1, <3>2 DEF Follows
    <3>3. CASE Owner(u) # None
      <4> SUFFICES ASSUME NEW w \in Vm, at[w] = n PROVE ~Running(w)' /\ Owes(w, u)'
        BY <1>1 DEF Follows
      <4>1. pc'[w] = "down" /\ pc[w] \in {"down", "leave"}
        BY <1>1, <1>4, <2>2
      <4>2. watch[w] = "off" /\ watch'[w] = "off"
        BY <1>1, <4>1 DEF Off
      <4>3. Sent(w) = Resume(w).revision
        BY <4>2 DEF Sent
      <4>4. Last(u) > Resume(w).revision \/ file[w].members[u] = Owner(u)
        BY ResumeExact
      <4>5. Owes(w, u)
        BY <3>3, <4>2, <4>3, <4>4 DEF Owes
      <4>6. Owes(w, u)'
        BY <1>1, <1>2, <4>5, OwesStays
      <4> QED
        BY <4>1, <4>2, <4>6 DEF Running
    <3> QED
      BY <3>2, <3>3
  <2> QED
    BY <2>1, <2>2
<1> QED
  BY <1>3, <1>4 DEF Leave

LEMMA FollowsStep == FollowInv /\ [Next]_vars => Following'
<1> SUFFICES ASSUME FollowInv, [Next]_vars,
                    NEW n \in Node, NEW u \in Vm, Clean(n)', n \notin been'[u]
             PROVE  Follows(n, u)'
  BY DEF Following
<1> USE DEF FollowInv, CacheInv
<1>0. Logs /\ Stayed
  BY NextLogs, Stays
<1>a. /\ Clean(n) /\ n \notin been[u]
      /\ \A w \in Vm : at'[w] = n <=> at[w] = n
      /\ \A w \in Vm : at[w] = n => ~Moved(w) /\ w # u
      /\ Last(u) # 0 => log[Last(u)].node # n
  BY <1>0, CleanNode
<1>b. Follows(n, u)
  BY <1>a DEF Following
<1>1. CASE UNCHANGED vars
  BY <1>a, <1>b, <1>1, FollowsIdle DEF vars, runtime, beacon, cache, stream, kernel
<1>2. CASE Outage
  BY <1>a, <1>b, <1>2, FollowsIdle DEF Outage, Fall, runtime, cache, stream, kernel
<1>3. CASE Recover
  BY <1>a, <1>b, <1>3, FollowsIdle DEF Recover, runtime, cache, stream, kernel
<1>4. ASSUME NEW v \in Vm, Start(v) PROVE Follows(n, u)'
  <2>1. /\ UNCHANGED <<log, mem, file, pos, job, route, cut, behind>>
        /\ watch' = [watch EXCEPT ![v] = IF @ = "off" THEN "cache" ELSE @]
        /\ pc' = [pc EXCEPT ![v] = "tap"]
    BY <1>4 DEF Start, beacon, cache, stream, kernel
  <2>2. /\ \A w \in Vm \ {v} : watch'[w] = watch[w] /\ pc'[w] = pc[w]
        /\ watch'[v] = IF watch[v] = "off" THEN "cache" ELSE watch[v]
    BY <2>1 DEF TypeInv
  <2>3. Running(v)'
    BY <2>2 DEF Running
  <2>4. Owes(v, u) => Owes(v, u)'
    <3>1. Last(u)' = Last(u) /\ Owner(u)' = Owner(u)
      BY <2>1 DEF Last, Owner, Published
    <3>2. Filled(v)' <=> Filled(v)
      BY <2>1 DEF Filled
    <3>3. Resume(v)' = Resume(v)
      BY <2>1, <3>2 DEF Resume
    <3>4. Sent(v)' = Sent(v)
      BY <2>1, <2>2, <3>3 DEF Sent
    <3> QED
      BY <2>1, <2>2, <3>1, <3>4 DEF Owes
  <2> QED
    BY <1>a, <1>b, <2>1, <2>2, <2>3, <2>4, FollowsOn
<1>5. ASSUME NEW v \in Vm, AddTap(v) PROVE Follows(n, u)'
  <2>1. route'[n][u] = route[n][u]
    BY <1>a, <1>5 DEF AddTap, TypeInv
  <2> QED
    BY <1>a, <1>b, <1>5, <2>1, FollowsIdle DEF AddTap, beacon, cache, stream, TypeInv
<1>6. ASSUME NEW v \in Vm, Stop(v) PROVE Follows(n, u)'
  <2>1. route'[n][u] = route[n][u]
    BY <1>a, <1>6 DEF Stop, TypeInv
  <2> QED
    BY <1>a, <1>b, <1>6, <2>1, FollowsIdle DEF Stop, beacon, cache, stream, TypeInv
<1>7. ASSUME NEW v \in Vm, Drain(v) PROVE Follows(n, u)'
  BY <1>a, <1>b, <1>7, FollowsIdle DEF Drain, beacon, cache, stream, kernel, TypeInv
<1>8. ASSUME NEW v \in Vm, Withdraw(v) PROVE Follows(n, u)'
  BY <1>0, <1>a, <1>b, <1>8, FollowsWrite DEF Withdraw, cache, stream, kernel, TypeInv
<1>9. ASSUME NEW v \in Vm, Leave(v) PROVE Follows(n, u)'
  BY <1>a, <1>b, <1>9, FollowsLeave
<1>10. ASSUME NEW v \in Vm, ApplyCachedMembers(v) PROVE Follows(n, u)'
  BY <1>a, <1>b, <1>10, FollowsCached
<1>11. ASSUME NEW v \in Vm, Publish(v) PROVE Follows(n, u)'
  BY <1>0, <1>a, <1>b, <1>11, FollowsWrite DEF Publish, cache, stream, kernel, TypeInv
<1>12. ASSUME NEW v \in Vm, PublishUnanswered(v) PROVE Follows(n, u)'
  BY <1>0, <1>a, <1>b, <1>12, FollowsWrite DEF PublishUnanswered, cache, stream, kernel, TypeInv
<1>13. ASSUME NEW v \in Vm, Connect(v) PROVE Follows(n, u)'
  <2>1. /\ UNCHANGED <<log, pc, mem, file, job, route, cut, behind>> /\ watch[v] = "connect"
        /\ \A w \in Vm \ {v} : watch'[w] = watch[w] /\ pos'[w] = pos[w]
        /\ \/ watch'[v] = "watch" /\ pos'[v] = mem[v].revision
           \/ watch'[v] = "wait"
    BY <1>13 DEF Connect, beacon, cache, kernel, TypeInv
  <2>2. Running(v)' /\ Sent(v) = mem[v].revision /\ Sent(v)' = mem[v].revision
    BY <2>1 DEF Running, Sent
  <2>3. Owes(v, u) => Owes(v, u)'
    BY <2>1, <2>2 DEF Owes, Last
  <2> QED
    BY <1>a, <1>b, <2>1, <2>2, <2>3, FollowsOn
<1>14. ASSUME NEW v \in Vm, Receive(v) PROVE Follows(n, u)'
  BY <1>a, <1>b, <1>14, FollowsReceive
<1>15. ASSUME NEW v \in Vm, Route(v) PROVE Follows(n, u)'
  BY <1>b, <1>15, FollowsRoute
<1>16. ASSUME NEW v \in Vm, Disconnect(v) PROVE Follows(n, u)'
  <2>1. /\ UNCHANGED <<log, pc, mem, file, job, route, cut, behind>> /\ watch[v] = "watch"
        /\ \A w \in Vm \ {v} : watch'[w] = watch[w] /\ pos'[w] = pos[w]
        /\ watch'[v] = "wait"
    BY <1>16 DEF Disconnect, beacon, cache, kernel, TypeInv
  <2>2. Running(v)' /\ Sent(v) = pos[v] /\ Sent(v)' = mem[v].revision
    BY <2>1 DEF Running, Sent
  <2>3. mem[v].revision <= pos[v] /\ mem[v].revision \in Nat /\ pos[v] \in Nat /\ Last(u) \in Nat
    <3>1. Last(u) \in 0 .. Len(log)
      BY LastChange DEF TypeInv
    <3> QED
      BY <2>1, <3>1 DEF Cover, Followed, TypeInv, Caches
  <2>4. Owes(v, u) => Owes(v, u)'
    <3>1. Owes(v, u) => Last(u) > pos[v]
      BY <2>1, <2>2 DEF Owes
    <3>2. Last(u)' = Last(u)
      BY <2>1 DEF Last
    <3> QED
      BY <2>2, <2>3, <3>1, <3>2 DEF Owes
  <2> QED
    BY <1>a, <1>b, <2>1, <2>2, <2>4, FollowsOn
<1>17. ASSUME NEW v \in Vm, Retry(v) PROVE Follows(n, u)'
  BY <1>0, <1>a, <1>b, <1>17, FollowsWrite DEF Retry, beacon, cache, stream, kernel, TypeInv
<1>18. ASSUME NEW v \in Vm, Exit(v) PROVE Follows(n, u)'
  BY <1>a, <1>b, <1>18, FollowsExit
<1>19. ASSUME NEW v \in Vm, Kill(v) PROVE Follows(n, u)'
  BY <1>b, <1>19, FollowsKill
<1>20. ASSUME NEW v \in Vm, NEW m \in Target, Move(v, m) PROVE Follows(n, u)'
  <2>1. /\ UNCHANGED <<log, pc, file, watch, pos, job, route, cut, behind>>
        /\ at'[v] = m /\ m # at[v] /\ \A w \in Vm \ {v} : mem'[w] = mem[w]
    BY <1>20 DEF Move, beacon, stream, kernel, TypeInv
  <2>2. at[v] # n
    BY <1>a, <2>1
  <2>3. Last(u)' = Last(u) /\ Owner(u)' = Owner(u)
    BY <2>1 DEF Last, Owner, Published
  <2> QED
    BY <1>a, <1>b, <2>1, <2>2, <2>3, FollowsAt
<1> QED
  BY <1>1, <1>2, <1>3, <1>4, <1>5, <1>6, <1>7, <1>8, <1>9, <1>10, <1>11, <1>12, <1>13, <1>14, <1>15, <1>16, <1>17, <1>18, <1>19, <1>20 DEF Next, Disturb, Operate, Watcher

\* When all have caught up nobody owes anything.
LEMMA FollowsSettled ==
    ASSUME FollowInv, Settled, NEW v \in Vm, NEW u \in Vm,
           pc[v] = "up", ~Moved(v), at[v] \notin been[u], at[v] \notin behind,
           \A w \in Vm : at[v] \in been[w] => ~Moved(w)
    PROVE  \/ route[at[v]][u] = Owner(u)
           \/ at[v] \in cut /\ Owner(u) = None
<1> USE DEF FollowInv, CacheInv
<1>1. Follows(at[v], u)
  BY DEF Following, Clean, TypeInv
<1>2. ASSUME NEW w \in Vm, Running(w) PROVE ~Owes(w, u)
  <2>1. watch[w] = "watch" /\ Unsent(w) = {}
    BY <1>2 DEF Settled, Off, Running
  <2>2. /\ Last(u) \in 0 .. Len(log) /\ pos[w] \in Nat /\ sub[w] \in Nat /\ sub[w] <= Len(log)
        /\ Len(log) \in Nat
        /\ Last(u) # 0 => log[Last(u)].vm = u
        /\ \A i \in 1 .. Len(log) : log[i].vm = u => i <= Last(u)
    BY LastChange DEF TypeInv, Cover, Behind
  <2>3. ~(Last(u) > pos[w])
    <3> SUFFICES ASSUME Last(u) > pos[w] PROVE Last(u) \in Unsent(w)
      BY <2>1
    <3>1. Last(u) \in pos[w] + 1 .. Len(log) /\ Last(u) # 0
      BY <2>2
    <3>2. \A j \in Last(u) + 1 .. sub[w] : log[j].vm # log[Last(u)].vm
      BY <2>2, <3>1
    <3> QED
      BY <3>1, <3>2 DEF Unsent
  <2> QED
    BY <2>1, <2>3 DEF Owes, Sent
<1>3. Running(v)
  BY DEF Settled, Running
<1> QED
  BY <1>1, <1>2, <1>3 DEF Follows

LEMMA FollowInvariant == Spec => []FollowInv
<1>1. Init => AllSynced /\ Following
  <2> SUFFICES ASSUME Init PROVE AllSynced /\ Following
    OBVIOUS
  <2>1. \A v \in Vm : /\ mem[v] = Empty /\ file[v] = Empty /\ watch[v] = "off"
                      /\ \A u \in Vm : file[v].members[u] = None
    BY DEF Init, Empty
  <2>2. AllSynced
    BY <2>1 DEF AllSynced, Synced
  <2>3. \A u \in Vm : Owner(u) = None
    BY DEF Init, Owner, Published, Last
  <2>4. \A n \in Node, u \in Vm : route[n][u] = None
    BY DEF Init
  <2> QED
    BY <2>2, <2>3, <2>4 DEF Following, Follows
<1>2. FollowInv /\ [Next]_vars => AllSynced' /\ Following'
  BY SyncedStep, FollowsStep DEF FollowInv
<1> QED
  BY <1>1, <1>2, CacheInvariant, PTL DEF Spec, FollowInv

\* Once the watchers have caught up, a node that no VM has moved to or from
\* sends the packets for a VM that was never on it to the node that the VM is
\* on, for any number of VMs, nodes, moves, outages and kills: the exception is
\* a node on which a watcher was stopped with a route out of date.
THEOREM NodesFollow == Spec => []OtherNodesFollow
<1>1. FollowInv => OtherNodesFollow
  <2> SUFFICES ASSUME FollowInv, Settled, NEW v \in Vm, NEW u \in Vm,
                      pc[v] = "up", ~Moved(v), at[v] \notin been[u], Published(u),
                      at[v] \notin behind, \A w \in Vm : at[v] \in been[w] => ~Moved(w)
               PROVE  route[at[v]][u] = Owner(u)
    BY DEF OtherNodesFollow
  <2>1. Owner(u) # None
    <3>1. Last(u) \in 1 .. Len(log) /\ log \in Seq(Change)
      <4>1. Last(u) \in 0 .. Len(log) /\ log \in Seq(Change) /\ Last(u) # 0
        BY LastChange DEF FollowInv, CacheInv, TypeInv, Published
      <4> QED
        BY <4>1
    <3>2. log[Last(u)] \in Change
      BY <3>1
    <3>3. log[Last(u)].node \in Node
      BY <3>2 DEF Change
    <3> QED
      BY <3>3, NodeAssumption DEF Owner
  <2> QED
    BY <2>1, FollowsSettled
<1> QED
  BY <1>1, FollowInvariant, PTL

\* ... and has no route to a VM that has withdrawn: the exceptions are such a
\* node, and one on which a watcher was killed between forgetting a VM and
\* removing its route.
THEOREM NoneStale == Spec => []NoStaleRoute
<1>1. FollowInv => NoStaleRoute
  <2> SUFFICES ASSUME FollowInv, Settled, NEW v \in Vm, NEW u \in Vm,
                      pc[v] = "up", ~Moved(v), at[v] \notin been[u], ~Published(u),
                      at[v] \notin cut \cup behind,
                      \A w \in Vm : at[v] \in been[w] => ~Moved(w)
               PROVE  route[at[v]][u] = None
    BY DEF NoStaleRoute
  <2>1. Owner(u) = None
    BY DEF Owner
  <2> QED
    BY <2>1, FollowsSettled
<1> QED
  BY <1>1, FollowInvariant, PTL

-----------------------------------------------------------------------------
(* The bounds of the runs.                                                 *)

\* The VMs that are still to publish where they are, and those to withdraw.
Homeless(v)  == ~Published(v) \/ log[Last(v)].node # at[v]
Publishing   == {v \in Vm : pc[v] \in {"tap", "up", "drain"} /\ Homeless(v)}
Withdrawing  == {v \in Stoppable : pc[v] \in {"tap", "up", "drain", "withdraw"}}

\* Beacon has room for all that they record.
Bounded ==
    /\ Len(log) + Cardinality(Publishing) + Cardinality(Withdrawing) <= MaxRevision
    /\ \A v \in Vm : pc[v] \in {"drain", "withdraw", "leave"} => v \in Stoppable

\* What the other invariants leave out of TypeOK.
Rest ==
    /\ reachable \in BOOLEAN /\ outages \in 0 .. Outages
    /\ cut \subseteq Node /\ behind \subseteq Node
    /\ \A v \in Vm : job[v] # None => watch[v] = "route"

BoundInv == CacheInv /\ Bounded /\ Rest

LEMMA Finite ==
    /\ \A S \in SUBSET Vm : IsFiniteSet(S) /\ Cardinality(S) \in Nat
    /\ \A S \in SUBSET Vm : \A T \in SUBSET S : Cardinality(T) <= Cardinality(S)
    /\ \A S \in SUBSET Vm, v \in Vm :
          v \in S => Cardinality(S \ {v}) = Cardinality(S) - 1
<1>1. ASSUME NEW S \in SUBSET Vm PROVE IsFiniteSet(S) /\ Cardinality(S) \in Nat
  BY FiniteAssumption, FS_Subset, FS_CardinalityType
<1>2. ASSUME NEW S \in SUBSET Vm, NEW T \in SUBSET S PROVE Cardinality(T) <= Cardinality(S)
  BY <1>1, FS_Subset
<1>3. ASSUME NEW S \in SUBSET Vm, NEW v \in Vm, v \in S
      PROVE  Cardinality(S \ {v}) = Cardinality(S) - 1
  BY <1>1, <1>3, FS_RemoveElement
<1> QED
  BY <1>1, <1>2, <1>3

\* Nobody has more to record than before.
LEMMA BoundedStays ==
    ASSUME BoundInv, log' = log, Publishing' \subseteq Publishing, Withdrawing' \subseteq Withdrawing,
           \A v \in Vm : pc'[v] \in {"drain", "withdraw", "leave"} => v \in Stoppable
    PROVE  Bounded'
<1>1. Publishing \in SUBSET Vm /\ Withdrawing \in SUBSET Vm
  BY VmAssumption DEF Publishing, Withdrawing
<1>2. /\ Cardinality(Publishing) \in Nat /\ Cardinality(Withdrawing) \in Nat
      /\ Cardinality(Publishing') \in Nat /\ Cardinality(Withdrawing') \in Nat
      /\ Cardinality(Publishing') <= Cardinality(Publishing)
      /\ Cardinality(Withdrawing') <= Cardinality(Withdrawing)
  BY <1>1, Finite
<1>3. Len(log) \in Nat /\ MaxRevision \in Nat
  BY RevisionAssumption DEF BoundInv, CacheInv, TypeInv
<1> QED
  BY <1>2, <1>3 DEF BoundInv, Bounded

\* A VM starts, or is stopped, only when beacon has room for what it records.
LEMMA BoundedRoom ==
    ASSUME BoundInv, NEW v \in Vm, Room(v), UNCHANGED <<log, at>>,
           \A w \in Vm \ {v} : pc'[w] = pc[w],
           pc'[v] \in {"drain", "withdraw", "leave"} => v \in Stoppable
    PROVE  Bounded'
<1> DEFINE S == Active \cup {v}
           P == {w \in S : Homeless(w)}
           W == S \cap Stoppable
<1>1. S \in SUBSET Vm /\ P \in SUBSET Vm /\ W \in SUBSET Vm
  BY VmAssumption DEF Active
<1>2. Len(log) + (Cardinality(P) + Cardinality(W)) <= MaxRevision
  BY DEF Room, Needed, Homeless
<1>3. \A w \in Vm : Homeless(w)' <=> Homeless(w)
  BY DEF Homeless, Published, Last
<1>4. Publishing' \subseteq P /\ Withdrawing' \subseteq W
  BY <1>3, VmAssumption DEF Publishing, Withdrawing, Active
<1> HIDE DEF S, P, W
<1>5. /\ Cardinality(P) \in Nat /\ Cardinality(W) \in Nat
      /\ Cardinality(Publishing') \in Nat /\ Cardinality(Withdrawing') \in Nat
      /\ Cardinality(Publishing') <= Cardinality(P)
      /\ Cardinality(Withdrawing') <= Cardinality(W)
  BY <1>1, <1>4, Finite
<1>6. Len(log) \in Nat /\ MaxRevision \in Nat
  BY RevisionAssumption DEF BoundInv, CacheInv, TypeInv
<1> QED
  BY <1>2, <1>5, <1>6 DEF BoundInv, Bounded

\* A change that is recorded changes nothing for the other VMs.
LEMMA HomelessStays ==
    ASSUME TypeInv, Counted, NEW v \in Vm, NEW n \in Node, NEW gone \in BOOLEAN,
           Record(v, n, gone), at' = at
    PROVE  /\ \A w \in Vm \ {v} : Homeless(w)' <=> Homeless(w)
           /\ ~gone /\ n = at[v] => ~Homeless(v)'
           /\ Len(log') = Len(log) + 1
<1>1. /\ \A i \in 1 .. Len(log) : log'[i] = log[i]
      /\ log'[Len(log) + 1] = [vm |-> v, node |-> n, deleted |-> gone]
      /\ Last(v)' = Len(log) + 1 /\ Len(log') = Len(log) + 1
      /\ \A w \in Vm \ {v} : Last(w)' = Last(w)
  BY Recorded DEF TypeInv
<1>2. Len(log) \in Nat
  BY DEF TypeInv
<1>3. ASSUME NEW w \in Vm \ {v} PROVE Homeless(w)' <=> Homeless(w)
  <2>1. Last(w)' = Last(w) /\ Last(w) \in 0 .. Len(log)
    BY <1>1, LastChange DEF TypeInv
  <2>2. Last(w) # 0 => log'[Last(w)] = log[Last(w)]
    BY <1>1, <1>2, <2>1
  <2>3. Published(w)' <=> Published(w)
    BY <2>1, <2>2 DEF Published
  <2> QED
    BY <2>1, <2>2, <2>3 DEF Homeless, Published
<1>4. ~gone /\ n = at[v] => ~Homeless(v)'
  BY <1>1, <1>2 DEF Homeless, Published
<1> QED
  BY <1>1, <1>3, <1>4

LEMMA BoundedPut ==
    ASSUME BoundInv, NEW v \in Vm, watch[v] = "publish", Put(v), UNCHANGED <<pc, at>>
    PROVE  Bounded'
<1> USE DEF BoundInv, CacheInv
<1>1. CASE log' = log
  <2>1. Publishing' = Publishing /\ Withdrawing' = Withdrawing
    BY <1>1 DEF Publishing, Withdrawing, Homeless, Published, Last
  <2> QED
    BY <1>1, <2>1, BoundedStays DEF Bounded
<1>2. CASE /\ ~Homeless(v) => Len(log) + Needed(Active) < MaxRevision
           /\ Record(v, at[v], FALSE)
  <2>1. at[v] \in Node /\ pc[v] \in {"tap", "up", "drain"}
    BY DEF TypeInv, Off
  <2>2. /\ \A w \in Vm \ {v} : Homeless(w)' <=> Homeless(w)
        /\ ~Homeless(v)' /\ Len(log') = Len(log) + 1
    BY <1>2, <2>1, HomelessStays
  <2>3. Publishing' = Publishing \ {v} /\ Withdrawing' = Withdrawing
    BY <2>2 DEF Publishing, Withdrawing
  <2>4. Publishing \in SUBSET Vm /\ Withdrawing \in SUBSET Vm
    BY VmAssumption DEF Publishing, Withdrawing
  <2>5. /\ Cardinality(Publishing) \in Nat /\ Cardinality(Withdrawing) \in Nat
        /\ Len(log) \in Nat /\ MaxRevision \in Nat
    BY <2>4, Finite, RevisionAssumption DEF TypeInv
  <2>6. CASE Homeless(v)
    <3>1. v \in Publishing
      BY <2>1, <2>6 DEF Publishing
    <3>2. Cardinality(Publishing \ {v}) = Cardinality(Publishing) - 1
      BY <2>4, <3>1, Finite
    <3> QED
      BY <2>2, <2>3, <2>5, <3>2 DEF Bounded
  <2>7. CASE ~Homeless(v)
    <3> DEFINE P == {w \in Active : Homeless(w)}
               W == Active \cap Stoppable
    <3>1. Len(log) + (Cardinality(P) + Cardinality(W)) < MaxRevision
      BY <1>2, <2>7 DEF Needed, Homeless
    <3>2. P \in SUBSET Vm /\ W \in SUBSET Vm
      BY VmAssumption DEF Active
    <3>3. Publishing \ {v} \subseteq P /\ Withdrawing \subseteq W
      BY VmAssumption DEF Publishing, Withdrawing, Active
    <3> HIDE DEF P, W
    <3>4. /\ Cardinality(P) \in Nat /\ Cardinality(W) \in Nat
          /\ Cardinality(Publishing \ {v}) \in Nat
          /\ Cardinality(Publishing \ {v}) <= Cardinality(P)
          /\ Cardinality(Withdrawing) <= Cardinality(W)
      BY <2>4, <3>2, <3>3, Finite
    <3> QED
      BY <2>2, <2>3, <2>5, <3>1, <3>4 DEF Bounded
  <2> QED
    BY <2>6, <2>7
<1> QED
  BY <1>1, <1>2 DEF Put, Homeless

LEMMA BoundedWithdraw ==
    ASSUME BoundInv, NEW v \in Vm, Withdraw(v)
    PROVE  Bounded'
<1> USE DEF BoundInv, CacheInv
<1>1. /\ UNCHANGED at /\ pc[v] = "withdraw" /\ pc'[v] = "leave" /\ v \in Stoppable
      /\ \A w \in Vm \ {v} : pc'[w] = pc[w]
  BY DEF Withdraw, TypeInv, Bounded
<1>2. CASE log' = log
  <2>1. \A w \in Vm : Homeless(w)' <=> Homeless(w)
    BY <1>1, <1>2 DEF Homeless, Published, Last
  <2>2. Publishing' \subseteq Publishing /\ Withdrawing' \subseteq Withdrawing
    BY <1>1, <2>1, VmAssumption DEF Publishing, Withdrawing
  <2> QED
    BY <1>1, <1>2, <2>2, BoundedStays DEF Bounded
<1>3. CASE log' # log
  <2>1. Published(v) /\ Record(v, log[Last(v)].node, TRUE)
    BY <1>3 DEF Withdraw, Delete
  <2>2. log[Last(v)].node \in Node
    <3>1. Last(v) \in 0 .. Len(log) /\ Last(v) # 0 /\ log \in Seq(Change)
      BY <2>1, LastChange DEF TypeInv, Published
    <3>2. log[Last(v)] \in Change
      BY <3>1
    <3> QED
      BY <3>2 DEF Change
  <2>3. (\A w \in Vm \ {v} : Homeless(w)' <=> Homeless(w)) /\ Len(log') = Len(log) + 1
    BY <1>1, <2>1, <2>2, HomelessStays
  <2>4. Publishing' = Publishing /\ Withdrawing' = Withdrawing \ {v} /\ v \in Withdrawing
    BY <1>1, <2>3, VmAssumption DEF Publishing, Withdrawing
  <2>5. Publishing \in SUBSET Vm /\ Withdrawing \in SUBSET Vm
    BY VmAssumption DEF Publishing, Withdrawing
  <2>6. Cardinality(Publishing) \in Nat /\ Cardinality(Withdrawing) \in Nat
    BY <2>5, Finite
  <2>7. Cardinality(Withdrawing \ {v}) = Cardinality(Withdrawing) - 1
    BY <2>4, <2>5, Finite
  <2>8. Len(log) \in Nat /\ MaxRevision \in Nat
    BY RevisionAssumption DEF TypeInv
  <2>9. /\ Cardinality(Publishing)' = Cardinality(Publishing)
        /\ Cardinality(Withdrawing)' = Cardinality(Withdrawing) - 1
    BY <2>4, <2>7
  <2>10. Len(log) + Cardinality(Publishing) + Cardinality(Withdrawing) <= MaxRevision
    BY DEF Bounded
  <2>11. Len(log') + Cardinality(Publishing)' + Cardinality(Withdrawing)' <= MaxRevision
    BY <2>3, <2>6, <2>8, <2>9, <2>10
  <2>12. \A w \in Vm : pc'[w] \in {"drain", "withdraw", "leave"} => w \in Stoppable
    BY <1>1 DEF Bounded
  <2> QED
    BY <2>11, <2>12 DEF Bounded
<1> QED
  BY <1>2, <1>3

\* Nobody starts, publishes, stops or moves.
LEMMA BoundedIdle ==
    ASSUME BoundInv, UNCHANGED <<log, at>>,
           \A v \in Vm : /\ pc'[v] \in {"tap", "up"} => pc[v] \in {"tap", "up"}
                         /\ pc'[v] = "drain" => pc[v] \in {"up", "drain"} /\ v \in Stoppable
                         /\ pc'[v] = "withdraw" => pc[v] \in {"drain", "withdraw"}
                         /\ pc'[v] = "leave" => pc[v] = "leave"
    PROVE  Bounded'
<1> USE DEF BoundInv, Bounded
<1>1. \A v \in Vm : Homeless(v)' <=> Homeless(v)
  BY DEF Homeless, Published, Last
<1>2. Publishing' \subseteq Publishing
  BY <1>1 DEF Publishing
<1>3. Withdrawing' \subseteq Withdrawing
  BY VmAssumption DEF Withdrawing
<1>4. \A v \in Vm : pc'[v] \in {"drain", "withdraw", "leave"} => v \in Stoppable
  OBVIOUS
<1> QED
  BY <1>2, <1>3, <1>4, BoundedStays

LEMMA BoundedStep == BoundInv /\ [Next]_vars => Bounded'
<1> SUFFICES ASSUME BoundInv, [Next]_vars PROVE Bounded'
  OBVIOUS
<1> USE DEF BoundInv, CacheInv
<1>1. CASE UNCHANGED vars
  BY <1>1, BoundedIdle DEF vars, runtime, beacon, Bounded
<1>2. CASE Outage
  BY <1>2, BoundedIdle DEF Outage, Fall, runtime, Bounded
<1>3. CASE Recover
  BY <1>3, BoundedIdle DEF Recover, runtime, Bounded
<1>4. ASSUME NEW v \in Vm, Start(v) PROVE Bounded'
  BY <1>4, BoundedRoom DEF Start, beacon, TypeInv
<1>5. ASSUME NEW v \in Vm, AddTap(v) PROVE Bounded'
  BY <1>5, BoundedIdle DEF AddTap, beacon, Bounded, TypeInv
<1>6. ASSUME NEW v \in Vm, Stop(v) PROVE Bounded'
  <2>1. CASE pc[v] = "up"
    BY <1>6, <2>1, BoundedIdle DEF Stop, beacon, Bounded, TypeInv
  <2>2. CASE pc[v] # "up"
    BY <1>6, <2>2, BoundedRoom DEF Stop, beacon, TypeInv
  <2> QED
    BY <1>6, <2>1, <2>2 DEF Stop
<1>7. ASSUME NEW v \in Vm, Drain(v) PROVE Bounded'
  BY <1>7, BoundedIdle DEF Drain, beacon, Bounded, TypeInv
<1>8. ASSUME NEW v \in Vm, Withdraw(v) PROVE Bounded'
  BY <1>8, BoundedWithdraw
<1>9. ASSUME NEW v \in Vm, Leave(v) PROVE Bounded'
  BY <1>9, BoundedIdle DEF Leave, beacon, Bounded, TypeInv
<1>10. ASSUME NEW v \in Vm, ApplyCachedMembers(v) PROVE Bounded'
  BY <1>10, BoundedIdle DEF ApplyCachedMembers, beacon, Bounded
<1>11. ASSUME NEW v \in Vm, Publish(v) PROVE Bounded'
  <2>1. CASE Put(v)
    BY <1>11, <2>1, BoundedPut DEF Publish
  <2>2. CASE log' = log
    BY <1>11, <2>2, BoundedIdle DEF Publish, Bounded
  <2> QED
    BY <1>11, <2>1, <2>2 DEF Publish
<1>12. ASSUME NEW v \in Vm, PublishUnanswered(v) PROVE Bounded'
  BY <1>12, BoundedPut DEF PublishUnanswered
<1>13. ASSUME NEW v \in Vm, Connect(v) PROVE Bounded'
  BY <1>13, BoundedIdle DEF Connect, beacon, Bounded
<1>14. ASSUME NEW v \in Vm, Receive(v) PROVE Bounded'
  BY <1>14, BoundedIdle DEF Receive, beacon, Bounded
<1>15. ASSUME NEW v \in Vm, Route(v) PROVE Bounded'
  BY <1>15, BoundedIdle DEF Route, beacon, Bounded
<1>16. ASSUME NEW v \in Vm, Disconnect(v) PROVE Bounded'
  BY <1>16, BoundedIdle DEF Disconnect, beacon, Bounded
<1>17. ASSUME NEW v \in Vm, Retry(v) PROVE Bounded'
  BY <1>17, BoundedIdle DEF Retry, beacon, Bounded
<1>18. ASSUME NEW v \in Vm, Exit(v) PROVE Bounded'
  BY <1>18, BoundedIdle DEF Exit, beacon, Bounded
<1>19. ASSUME NEW v \in Vm, Kill(v) PROVE Bounded'
  BY <1>19, BoundedIdle DEF Kill, beacon, Bounded, TypeInv
<1>20. ASSUME NEW v \in Vm, NEW m \in Target, Move(v, m) PROVE Bounded'
  <2>1. /\ UNCHANGED <<log, pc>> /\ pc[v] = "down"
        /\ \A w \in Vm \ {v} : at'[w] = at[w]
    BY <1>20 DEF Move, beacon, TypeInv
  <2>2. \A w \in Vm \ {v} : Homeless(w)' <=> Homeless(w)
    BY <2>1 DEF Homeless, Published, Last
  <2>3. Publishing' \subseteq Publishing /\ Withdrawing' \subseteq Withdrawing
    BY <2>1, <2>2 DEF Publishing, Withdrawing
  <2> QED
    BY <2>1, <2>3, BoundedStays DEF Bounded
<1> QED
  BY <1>1, <1>2, <1>3, <1>4, <1>5, <1>6, <1>7, <1>8, <1>9, <1>10, <1>11, <1>12, <1>13, <1>14, <1>15, <1>16, <1>17, <1>18, <1>19, <1>20 DEF Next, Disturb, Operate, Watcher

LEMMA FallBound == Rest /\ Fall => reachable' \in BOOLEAN /\ outages' \in 0 .. Outages
<1> SUFFICES ASSUME Rest, Fall PROVE reachable' \in BOOLEAN /\ outages' \in 0 .. Outages
  OBVIOUS
<1>1. outages \in 0 .. Outages /\ outages < Outages /\ outages' = outages + 1 /\ Outages \in Nat
  BY RevisionAssumption DEF Rest, Fall
<1>2. outages' \in 0 .. Outages
  BY <1>1
<1>3. reachable' = FALSE
  BY DEF Fall
<1> QED
  BY <1>2, <1>3

LEMMA RestStep == CacheInv /\ Rest /\ [Next]_vars => Rest'
<1> SUFFICES ASSUME CacheInv, Rest, [Next]_vars PROVE Rest'
  OBVIOUS
<1> USE RevisionAssumption DEF CacheInv, Rest
<1>1. CASE UNCHANGED vars
  BY <1>1 DEF vars, runtime, beacon, cache, stream, kernel
<1>2. CASE Outage
  BY <1>2, FallBound DEF Outage, runtime, cache, stream, kernel
<1>3. CASE Recover
  BY <1>3 DEF Recover, runtime, cache, stream, kernel
<1>4. ASSUME NEW v \in Vm, Start(v) PROVE Rest'
  BY <1>4 DEF Start, beacon, cache, stream, kernel, Off, TypeInv
<1>5. ASSUME NEW v \in Vm, AddTap(v) PROVE Rest'
  BY <1>5 DEF AddTap, beacon, cache, stream, kernel, Off, TypeInv
<1>6. ASSUME NEW v \in Vm, Stop(v) PROVE Rest'
  BY <1>6 DEF Stop, beacon, cache, stream, kernel, Off, TypeInv
<1>7. ASSUME NEW v \in Vm, Drain(v) PROVE Rest'
  BY <1>7 DEF Drain, beacon, cache, stream, kernel, Off, TypeInv
<1>8. ASSUME NEW v \in Vm, Withdraw(v) PROVE Rest'
  BY <1>8 DEF Withdraw, beacon, cache, stream, kernel, Off, TypeInv
<1>9. ASSUME NEW v \in Vm, Leave(v) PROVE Rest'
  BY <1>9 DEF Leave, beacon, cache, stream, kernel, Off, TypeInv
<1>10. ASSUME NEW v \in Vm, ApplyCachedMembers(v) PROVE Rest'
  BY <1>10 DEF ApplyCachedMembers, beacon, cache, stream, kernel, Off, TypeInv
<1>11. ASSUME NEW v \in Vm, Publish(v) PROVE Rest'
  BY <1>11 DEF Publish, beacon, cache, stream, kernel, Off, TypeInv
<1>12. ASSUME NEW v \in Vm, PublishUnanswered(v) PROVE Rest'
  BY <1>12, FallBound DEF PublishUnanswered, beacon, cache, stream, kernel, TypeInv
<1>13. ASSUME NEW v \in Vm, Connect(v) PROVE Rest'
  BY <1>13 DEF Connect, beacon, cache, stream, kernel, Off, TypeInv
<1>14. ASSUME NEW v \in Vm, Receive(v) PROVE Rest'
  <2>1. Received(v, First(v)) /\ UNCHANGED <<reachable, outages, cut, behind>>
    BY <1>14, ReceiveFirst DEF Receive, beacon, kernel
  <2>2. \/ UNCHANGED <<job, watch>>
        \/ /\ watch' = [watch EXCEPT ![v] = "route"]
           /\ \A w \in Vm \ {v} : job'[w] = job[w]
    BY <2>1 DEF Received, cache, TypeInv
  <2> QED
    BY <2>1, <2>2 DEF TypeInv
<1>15. ASSUME NEW v \in Vm, Route(v) PROVE Rest'
  BY <1>15 DEF Route, beacon, cache, stream, kernel, Off, TypeInv
<1>16. ASSUME NEW v \in Vm, Disconnect(v) PROVE Rest'
  BY <1>16 DEF Disconnect, beacon, cache, stream, kernel, Off, TypeInv
<1>17. ASSUME NEW v \in Vm, Retry(v) PROVE Rest'
  BY <1>17 DEF Retry, beacon, cache, stream, kernel, Off, TypeInv
<1>18. ASSUME NEW v \in Vm, Exit(v) PROVE Rest'
  BY <1>18 DEF Exit, beacon, cache, stream, kernel, Off, TypeInv
<1>19. ASSUME NEW v \in Vm, Kill(v) PROVE Rest'
  BY <1>19 DEF Kill, beacon, cache, stream, kernel, Off, TypeInv
<1>20. ASSUME NEW v \in Vm, NEW m \in Target, Move(v, m) PROVE Rest'
  BY <1>20 DEF Move, beacon, stream, kernel
<1> QED
  BY <1>1, <1>2, <1>3, <1>4, <1>5, <1>6, <1>7, <1>8, <1>9, <1>10, <1>11, <1>12, <1>13, <1>14, <1>15, <1>16, <1>17, <1>18, <1>19, <1>20 DEF Next, Disturb, Operate, Watcher

\* Every variable keeps its type and stays within the bounds of the runs: the
\* VMs that were let start have room in the log for all that they still record,
\* so that a bound only ever keeps a VM from starting.
THEOREM TypeCorrect == Spec => []TypeOK
<1>1. Init => Bounded /\ Rest
  <2> SUFFICES ASSUME Init PROVE Bounded /\ Rest
    OBVIOUS
  <2>1. Publishing = {} /\ Withdrawing = {} /\ Len(log) = 0
    BY VmAssumption DEF Init, Publishing, Withdrawing
  <2>2. Bounded
    BY <2>1, FS_EmptySet, RevisionAssumption DEF Bounded, Init
  <2> QED
    BY <2>2, RevisionAssumption DEF Init, Rest
<1>2. BoundInv /\ [Next]_vars => Bounded' /\ Rest'
  BY BoundedStep, RestStep DEF BoundInv
<1>3. BoundInv => TypeOK
  <2> SUFFICES ASSUME BoundInv PROVE TypeOK
    OBVIOUS
  <2> USE DEF BoundInv, CacheInv
  <2>1. Len(log) \in Nat /\ MaxRevision \in Nat /\ Len(log) <= MaxRevision
    <3>1. Publishing \in SUBSET Vm /\ Withdrawing \in SUBSET Vm
      BY VmAssumption DEF Publishing, Withdrawing
    <3>2. Cardinality(Publishing) \in Nat /\ Cardinality(Withdrawing) \in Nat
      BY <3>1, Finite
    <3>3. Len(log) \in Nat /\ MaxRevision \in Nat
      BY RevisionAssumption DEF TypeInv
    <3> QED
      BY <3>2, <3>3 DEF Bounded
  <2>2. \A v \in Vm : mem[v] \in Cache /\ file[v] \in Cache
    <3> SUFFICES ASSUME NEW v \in Vm PROVE mem[v] \in Cache /\ file[v] \in Cache
      OBVIOUS
    <3>1. mem[v] \in Caches /\ file[v] \in Caches
      BY DEF TypeInv
    <3>2. mem[v].revision \in Revision /\ file[v].revision \in Revision
      BY <2>1, <3>1 DEF Cover, Behind, Revision, Caches
    <3> QED
      BY <3>1, <3>2 DEF Cache, Caches
  <2>3. \A v \in Vm : sub[v] \in Revision /\ pos[v] \in Revision
    BY <2>1 DEF Cover, Behind, Revision, TypeInv
  <2>4. mem \in [Vm -> Cache] /\ file \in [Vm -> Cache]
    BY <2>2 DEF TypeInv
  <2>5. sub \in [Vm -> Revision] /\ pos \in [Vm -> Revision]
    BY <2>3 DEF TypeInv
  <2>6. \A v \in Vm : watch[v] = "route" <=> job[v] # None
    BY NoneAssumption DEF TypeInv, Job, Rest
  <2> QED
    BY <2>1, <2>4, <2>5, <2>6 DEF TypeOK, TypeInv, Job, Rest
<1> QED
  BY <1>1, <1>2, <1>3, CacheInvariant, PTL DEF Spec, BoundInv
=============================================================================
