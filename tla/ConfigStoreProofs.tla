-------------------------- MODULE ConfigStoreProofs --------------------------
(***************************************************************************)
(* What ConfigStore promises, for every set of values and with every       *)
(* outside failure, edit and kill: the types and the Validate of           *)
(* mutateConfig for any number of concurrent requests, and to a client     *)
(* that waits for each answer the size of the disk and that what is saved  *)
(* is what is in force.                                                    *)
(***************************************************************************)
EXTENDS ConfigStore, TLAPS

(* Type correctness.                                                       *)

\* Where a handler holds a configuration that it has loaded.
Holding == {"apply", "band", "firewall", "save", "keep"} \cup Growing

Shape ==
    /\ \A t \in Thread : At(t, "load") =>
           op[t] \in Operation \ {"start", "stop"} /\ arg[t] \in Body[op[t]]
    /\ \A t \in Thread : pc[t] \in Holding => local[t] \in Config
    /\ \A t \in Thread :
           At(t, "want") \/ At(t, "network") => op[t] \in {"start", "recover"}
    /\ \A t \in Thread :
           pc[t] \in {"nat", "route", "ipsave"} /\ op[t] \notin {"start", "recover"} =>
               local[t] \in Config

TypeInv == TypeOK /\ Shape

USE DEF Thread, Applying, Growing, At, Goto

LEMMA TypeInit == Init => TypeInv
<1> SUFFICES ASSUME Init PROVE TypeInv
  OBVIOUS
<1>1. TypeOK
  BY InputAssumption DEF Init, TypeOK, Held, Config, Valid
<1>2. Shape
  BY DEF Init, Shape, Holding
<1> QED
  BY <1>1, <1>2 DEF TypeInv

\* What a mutation makes of a valid file is a configuration.
LEMMA ChangedTypes ==
    ASSUME file \in Config, NEW o \in Mutations, NEW b \in Body[o], Valid(Changed(o, b))
    PROVE  Changed(o, b) \in Config
<1>1. CASE o = "bandwidth"
  BY <1>1 DEF Changed, Body, Config
<1>2. CASE o = "publicip"
  BY <1>2 DEF Changed, Body, Config, Valid
<1>3. CASE o = "firewall"
  BY <1>3 DEF Changed, Body, Config, Valid
<1> QED
  BY <1>1, <1>2, <1>3 DEF Mutations

\* What the end of a request does to the types.
LEMMA ReturnTypes ==
    ASSUME TypeInv, NEW t \in Thread, Return(t)
    PROVE  /\ pc' = [pc EXCEPT ![t] = "idle"]
           /\ op' \in [Thread -> Operation \cup {"recover", "none"}]
           /\ arg' \in [Thread -> Resources \cup Rules \cup Address \cup Size \cup {0, 1, Invalid, None}]
           /\ local' \in [Thread -> Config \cup {None}]
           /\ Shape'
BY DEF TypeInv, TypeOK, Return, Shape, Holding

LEMMA TypeStep == TypeInv /\ [Next]_vars => TypeInv'
<1> SUFFICES ASSUME TypeInv, [Next]_vars PROVE TypeInv'
  OBVIOUS
<1> USE ThreadAssumption, InputAssumption
    DEF TypeInv, TypeOK, Shape, Holding, Untouched, threads, memory, metadata, rules, history
<1>1. CASE UNCHANGED vars
  BY <1>1 DEF vars
<1>2. CASE Restart
  <2>1. pc' \in [Thread -> {"idle", "want"}] /\ op' \in [Thread -> {"none", "recover"}]
    BY <1>2 DEF Restart
  <2>2. \A t \in Thread : pc'[t] = "want" => op'[t] = "recover"
    BY <1>2 DEF Restart
  <2>3. Shape'
    BY <2>1, <2>2
  <2>4. local' \in [Thread -> Config \cup {None}] /\ arg' = [u \in Thread |-> None]
    BY <1>2 DEF Restart
  <2>5. config' \in [ip : Address \cup {None}, size : Size] /\ netband' \in {0, 1}
        /\ firewall' \in Rules /\ dirty' \in BOOLEAN /\ up' \in BOOLEAN
    <3>1. up' \in BOOLEAN
      BY <1>2 DEF Restart, Valid
    <3>2. CASE up'
      <4>1. Held(file) \in [ip : Address \cup {None}, size : Size]
            /\ file.band \in {0, 1} /\ file.fw \in Rules
        BY DEF Held, Config
      <4> QED BY <1>2, <3>2, <4>1 DEF Restart
    <3>3. CASE ~up'
      <4>1. UNCHANGED <<config, netband, firewall, dirty>>
        BY <1>2, <3>3, ZenonT(30) DEF Restart
      <4> QED BY <3>1, <4>1
    <3> QED BY <3>1, <3>2, <3>3
  <2>6. TypeOK'
    BY <1>2, <2>1, <2>4, <2>5 DEF Restart
  <2> QED BY <2>3, <2>6
<1>3. ASSUME NEW t \in Thread, Step(t) PROVE TypeInv'
  <2>1. CASE Mutate(t)
    <3>1. CASE Valid(Changed(op[t], arg[t]))
      BY <2>1, <3>1, ChangedTypes DEF Mutate, Loaded
    <3>2. CASE ~Valid(Changed(op[t], arg[t]))
      BY <2>1, <3>2, ReturnTypes DEF Mutate
    <3> QED BY <3>1, <3>2
  <2>2. CASE Reload(t)
    <3>1. CASE Valid(file)
      BY <2>2, <3>1 DEF Reload, Loaded
    <3>2. CASE ~Valid(file)
      BY <2>2, <3>2, ReturnTypes DEF Reload
    <3> QED BY <3>1, <3>2
  <2>3. CASE Resize(t)
    <3>1. CASE vm = "running"
      BY <2>3, <3>1, ReturnTypes DEF Resize
    <3>2. CASE vm # "running"
      <4>1. [file EXCEPT !.resources = arg[t]] \in Config
        BY <2>3 DEF Resize, Body, Config
      <4> QED BY <2>3, <3>2, <4>1 DEF Resize, Loaded
    <3> QED BY <3>1, <3>2
  <2>4. CASE ResizeRootfs(t)
    <3>1. [file EXCEPT !.size = arg[t]] \in Config
      BY <2>4 DEF ResizeRootfs, Body, Config
    <3>2. PICK c \in Config, p \in {"statlive", "statcold", "save"} : Loaded(t, c, p)
      BY <2>4, <3>1 DEF ResizeRootfs
    <3> QED BY <2>4, <3>2 DEF ResizeRootfs, Loaded
  <2>5. CASE Stat(t)
    BY <2>5 DEF Stat
  <2>6. CASE Truncate(t)
    BY <2>6 DEF Truncate, Config
  <2>7. CASE TruncateFails(t)
    BY <2>7, ReturnTypes DEF TruncateFails
  <2>8. CASE Resize2fs(t)
    BY <2>8 DEF Resize2fs
  <2>9. CASE Resize2fsFails(t)
    BY <2>9, ReturnTypes DEF Resize2fsFails
  <2>10. CASE SetRootfsSize(t)
    BY <2>10 DEF SetRootfsSize
  <2>11. CASE SetRootfsSizeFails(t)
    BY <2>11, ReturnTypes DEF SetRootfsSizeFails
  <2>12. CASE Save(t)
    BY <2>12 DEF Save
  <2>13. CASE SaveFails(t)
    BY <2>13, ReturnTypes DEF SaveFails
  <2>14. CASE Keep(t)
    BY <2>14, ReturnTypes DEF Keep, Held, Config
  <2>15. CASE Apply(t)
    BY <2>15 DEF Apply, Held, Config
  <2>16. CASE SyncNAT(t)
    BY <2>16 DEF SyncNAT
  <2>17. CASE SyncRoute(t)
    BY <2>17 DEF SyncRoute
  <2>18. CASE SaveIPs(t)
    BY <2>18 DEF SaveIPs, InStep, Starting
  <2>19. CASE SetBandwidth(t)
    BY <2>19 DEF SetBandwidth, Config
  <2>20. CASE SetBandwidthFails(t)
    BY <2>20, ReturnTypes DEF SetBandwidthFails, NotApplied, Config
  <2>21. CASE SetFirewall(t)
    <3>1. Return(t) /\ dirty' \in BOOLEAN /\ unvalidated' = unvalidated
      BY <2>21 DEF SetFirewall, Applied, NotApplied
    <3>2. local[t].fw \in Rules
      BY <2>21 DEF SetFirewall, Config
    <3> QED BY <2>21, <3>1, <3>2, ReturnTypes DEF SetFirewall
  <2>22. CASE Want(t)
    BY <2>22 DEF Want, InStep
  <2>23. CASE CreateNetwork(t)
    BY <2>23 DEF CreateNetwork, BuildTable
  <2>24. CASE CreateNetworkFails(t)
    <3>1. Return(t) /\ dirty' \in BOOLEAN /\ unvalidated' = unvalidated
      BY <2>24 DEF CreateNetworkFails, NotApplied
    <3> QED BY <2>24, <3>1, ReturnTypes DEF CreateNetworkFails, BuildTable
  <2>25. CASE Boot(t)
    BY <2>25, ReturnTypes DEF Boot
  <2>26. CASE BootFails(t)
    BY <2>26, ReturnTypes DEF BootFails
  <2>27. CASE Unwant(t)
    BY <2>27 DEF Unwant, InStep
  <2>28. CASE Halt(t)
    BY <2>28 DEF Halt
  <2>29. CASE ClearIPs(t)
    BY <2>29 DEF ClearIPs, InStep
  <2>30. CASE DeleteNetwork(t)
    <3>1. /\ network' \in BOOLEAN /\ dnat' \subseteq Address /\ snat' \in Address \cup {None}
          /\ band' \in {0, 1} /\ fw' \in Rules \cup {None} /\ routes' \subseteq Address
      BY <2>30 DEF DeleteNetwork
    <3>2. Return(t) /\ UNCHANGED <<file, memory, metadata, vm, disksize, up, history>>
      BY <2>30, Zenon DEF DeleteNetwork
    <3> QED BY <3>1, <3>2, ReturnTypes DEF metadata
  <2>31. CASE SaveIPsFails(t)
    <3>1. Return(t) /\ dirty' \in BOOLEAN /\ unvalidated' = unvalidated
      BY <2>31 DEF SaveIPsFails, NotApplied
    <3>2. metaip' \in Address \cup {None} /\ UNCHANGED <<desired, saved>>
      BY <2>31 DEF SaveIPsFails
    <3>3. UNCHANGED <<file, memory, vm, disksize, rules, routes, up>>
      BY <2>31, Zenon DEF SaveIPsFails
    <3> QED BY <3>1, <3>2, <3>3, ReturnTypes
  <2> QED
    BY <1>3, <2>1, <2>2, <2>3, <2>4, <2>5, <2>6, <2>7, <2>8, <2>9, <2>10, <2>11, <2>12,
       <2>13, <2>14, <2>15, <2>16, <2>17, <2>18, <2>19, <2>20, <2>21, <2>22, <2>23, <2>24,
       <2>25, <2>26, <2>27, <2>28, <2>29, <2>30, <2>31 DEF Step
<1>4. ASSUME NEW h \in Handler, Request(h) PROVE TypeInv'
  <2>0. PICK o \in Operation : \E body \in Body[o] :
          op' = [op EXCEPT ![h] = o] /\ arg' = [arg EXCEPT ![h] = body] /\ pc' = [pc EXCEPT ![h] = Entry(o)]
    BY <1>4 DEF Request
  <2>1. PICK body \in Body[o] :
          op' = [op EXCEPT ![h] = o] /\ arg' = [arg EXCEPT ![h] = body] /\ pc' = [pc EXCEPT ![h] = Entry(o)]
    BY <2>0
  <2>2. body \in Resources \cup Rules \cup Address \cup Size \cup {0, 1, Invalid, None}
    BY <2>1 DEF Body, Operations, Mutations
  <2>3. Entry(o) \in {"want", "unwant", "load"} /\ (Entry(o) = "load" => o \notin {"start", "stop"})
        /\ (Entry(o) = "want" => o = "start")
    BY DEF Entry
  <2>4. TypeOK'
    BY <1>4, <2>1, <2>2, <2>3 DEF Request
  <2>5. Shape'
    BY <1>4, <2>1, <2>3 DEF Request
  <2> QED BY <2>4, <2>5
<1>5. CASE Edit
  BY <1>5 DEF Edit
<1> QED
  BY <1>1, <1>2, <1>3, <1>4, <1>5 DEF Next

\* Every variable of the configuration model keeps its type, and nothing that
\* Validate refuses reaches the firewall or the addresses in force, for any
\* number of concurrent requests (API.mutateConfig, Runtime.applyConfig).
THEOREM TypeCorrect == Spec => []TypeOK
<1>1. TypeInv => TypeOK
  BY DEF TypeInv
<1> QED
  BY <1>1, TypeInit, TypeStep, PTL DEF Spec

(***************************************************************************)
(* The disk, for a client that sends one request at a time.                *)
(***************************************************************************)

Serial == \A g, h \in Handler : g = h

\* One goroutine is busy at most: a request waits for the recovery.
Alone == \A t, u \in Thread : ~At(t, "idle") /\ ~At(u, "idle") => t = u

Truncating == {"truncatelive", "truncatecold"}
Offline    == {"statcold", "truncatecold", "resize2fs"}
Grown      == {"save", "patch", "resize2fs"}
Saved      == {"apply", "keep"}

\* What a handler that is growing the disk knows of it, and what every copy of
\* the size knows of the saved one.
Disk ==
    /\ up \/ \A t \in Thread : At(t, "idle")
    /\ \A t \in Thread : pc[t] \in Truncating => disksize # 0 /\ local[t].size > disksize
    /\ \A t \in Thread : pc[t] \in Offline => vm = "stopped"
    /\ \A t \in Thread : pc[t] \in Grown => disksize = 0 \/ local[t].size <= disksize
    /\ \A t \in Thread : pc[t] \in Saved => local[t].size = file.size
    /\ up /\ (\A t \in Thread : pc[t] \notin Saved) => config.size = file.size
    /\ disksize = 0 \/ file.size <= disksize

DiskInv == TypeInv /\ Alone /\ Disk

LEMMA DiskInit == Init => DiskInv
<1> SUFFICES ASSUME Init PROVE DiskInv
  OBVIOUS
<1>1. TypeInv
  BY TypeInit
<1>2. Alone
  BY DEF Init, Alone
<1>3. Disk
  BY DEF Init, Disk, Truncating, Offline, Grown, Saved, Held
<1> QED
  BY <1>1, <1>2, <1>3 DEF DiskInv

\* A handler that makes a step is busy, and stays the only one.
LEMMA StepMoves ==
    ASSUME TypeInv, NEW t \in Thread, Step(t)
    PROVE  ~At(t, "idle") /\ \E point : pc' = [pc EXCEPT ![t] = point]
<1>1. CASE Mutate(t)
  BY <1>1 DEF Mutate, Return, Loaded, Untouched
<1>2. CASE Reload(t)
  BY <1>2 DEF Reload, Return, Loaded, Untouched
<1>3. CASE Resize(t)
  BY <1>3 DEF Resize, Return, Loaded, Untouched
<1>4. CASE ResizeRootfs(t)
  BY <1>4 DEF ResizeRootfs, Loaded, Untouched
<1>5. CASE Stat(t)
  BY <1>5 DEF Stat, Untouched
<1>6. CASE Truncate(t)
  BY <1>6 DEF Truncate
<1>7. CASE TruncateFails(t)
  BY <1>7 DEF TruncateFails, Return, Untouched
<1>8. CASE Resize2fs(t)
  BY <1>8 DEF Resize2fs, Untouched
<1>9. CASE Resize2fsFails(t)
  BY <1>9 DEF Resize2fsFails, Return, Untouched
<1>10. CASE SetRootfsSize(t)
  BY <1>10 DEF SetRootfsSize, Untouched
<1>11. CASE SetRootfsSizeFails(t)
  BY <1>11 DEF SetRootfsSizeFails, Return, Untouched
<1>12. CASE Save(t)
  BY <1>12 DEF Save
<1>13. CASE SaveFails(t)
  BY <1>13 DEF SaveFails, Return, Untouched
<1>14. CASE Keep(t)
  BY <1>14 DEF Keep, Return
<1>15. CASE Apply(t)
  BY <1>15 DEF Apply
<1>16. CASE SyncNAT(t)
  BY <1>16 DEF SyncNAT
<1>17. CASE SyncRoute(t)
  BY <1>17 DEF SyncRoute
<1>18. CASE SaveIPs(t)
  BY <1>18 DEF SaveIPs, InStep, Starting
<1>19. CASE SetBandwidth(t)
  BY <1>19 DEF SetBandwidth
<1>20. CASE SetBandwidthFails(t)
  BY <1>20 DEF SetBandwidthFails, Return, NotApplied
<1>21. CASE SetFirewall(t)
  BY <1>21 DEF SetFirewall, Return, Applied, NotApplied
<1>22. CASE Want(t)
  BY <1>22 DEF Want
<1>23. CASE CreateNetwork(t)
  BY <1>23 DEF CreateNetwork
<1>24. CASE CreateNetworkFails(t)
  BY <1>24 DEF CreateNetworkFails, Return, NotApplied
<1>25. CASE Boot(t)
  BY <1>25 DEF Boot, Return
<1>26. CASE BootFails(t)
  BY <1>26 DEF BootFails, Return
<1>27. CASE Unwant(t)
  BY <1>27 DEF Unwant
<1>28. CASE Halt(t)
  BY <1>28 DEF Halt
<1>29. CASE ClearIPs(t)
  BY <1>29 DEF ClearIPs
<1>30. CASE DeleteNetwork(t)
  BY <1>30 DEF DeleteNetwork, Return
<1>31. CASE SaveIPsFails(t)
  BY <1>31 DEF SaveIPsFails, Return, NotApplied, Starting
<1> QED
  BY <1>1, <1>2, <1>3, <1>4, <1>5, <1>6, <1>7, <1>8, <1>9, <1>10, <1>11, <1>12,
     <1>13, <1>14, <1>15, <1>16, <1>17, <1>18, <1>19, <1>20, <1>21, <1>22, <1>23, <1>24,
     <1>25, <1>26, <1>27, <1>28, <1>29, <1>30, <1>31 DEF Step

LEMMA AloneStep == Serial /\ TypeInv /\ Alone /\ [Next]_vars => Alone'
<1> SUFFICES ASSUME Serial, TypeInv, Alone, [Next]_vars PROVE Alone'
  OBVIOUS
<1> USE DEF TypeInv, TypeOK, Alone, threads
<1>1. CASE UNCHANGED vars
  BY <1>1 DEF vars
<1>2. CASE Restart
  BY <1>2 DEF Restart
<1>3. ASSUME NEW t \in Thread, Step(t) PROVE Alone'
  BY <1>3, StepMoves
<1>4. ASSUME NEW h \in Handler, Request(h) PROVE Alone'
  <2>1. \A u \in Thread : u = h \/ At(u, "idle")
    BY <1>4 DEF Request, Serial
  <2>2. PICK point : pc' = [pc EXCEPT ![h] = point]
    BY <1>4 DEF Request
  <2> QED BY <2>1, <2>2
<1>5. CASE Edit
  BY <1>5 DEF Edit
<1> QED
  BY <1>1, <1>2, <1>3, <1>4, <1>5 DEF Next

LEMMA SizesAreNumbers ==
    ASSUME TypeOK
    PROVE  disksize \in Nat /\ file.size \in Nat /\ config.size \in Nat
<1>1. Size \subseteq Nat
  BY InputAssumption
<1>2. disksize \in Size \cup {0}
  BY DEF TypeOK
<1>3. file.size \in Size
  BY DEF TypeOK, Config
<1>4. config.size \in Size
  BY DEF TypeOK
<1>5. 0 \in Nat
  OBVIOUS
<1> QED
  BY <1>1, <1>2, <1>3, <1>4, <1>5

LEMMA DiskStep == Serial /\ DiskInv /\ [Next]_vars => Disk'
<1> SUFFICES ASSUME Serial, DiskInv, [Next]_vars PROVE Disk'
  OBVIOUS
<1> USE ThreadAssumption, InputAssumption
    DEF DiskInv, TypeInv, TypeOK, Alone, Disk, Truncating, Offline, Grown, Saved, Config,
        Untouched, threads, memory, metadata, rules, history
<1>1. CASE UNCHANGED vars
  BY <1>1 DEF vars
<1>2. CASE Restart
  BY <1>2 DEF Restart, Held
<1>3. ASSUME NEW t \in Thread, Step(t) PROVE Disk'
  <2>1. CASE Mutate(t)
    <3>1. CASE Valid(Changed(op[t], arg[t]))
      <4>1. op[t] \in Mutations /\ pc[t] = "load"
        BY <2>1 DEF Mutate
      <4>2. Changed(op[t], arg[t]).size = file.size
        BY <4>1 DEF Mutations, Changed
      <4>3. /\ pc' = [pc EXCEPT ![t] = "save"]
            /\ local' = [local EXCEPT ![t] = Changed(op[t], arg[t])]
            /\ UNCHANGED <<file, config, disksize, vm, up>>
        BY <2>1, <3>1 DEF Mutate, Loaded
      <4>4. \A u \in Thread \ {t} : pc'[u] = pc[u] /\ local'[u] = local[u]
        BY <4>3
      <4>5. pc'[t] = "save" /\ local'[t].size = file.size
        BY <4>2, <4>3
      <4> QED BY <4>1, <4>3, <4>4, <4>5
    <3>2. CASE ~Valid(Changed(op[t], arg[t]))
      BY <2>1, <3>2 DEF Mutate, Return
    <3> QED BY <3>1, <3>2
  <2>2. CASE Reload(t)
    BY <2>2 DEF Reload, Return, Loaded, Shape, Holding
  <2>3. CASE Resize(t)
    BY <2>3 DEF Resize, Return, Loaded, Shape, Holding
  <2>4. CASE ResizeRootfs(t)
    BY <2>4 DEF ResizeRootfs, Loaded, Shape, Holding
  <2>5. CASE Stat(t)
    <3>0. local[t].size \in Nat
      BY <2>5 DEF Stat, Shape, Holding
    <3>1. local[t].size \in Nat /\ disksize \in Nat
      BY <3>0, SizesAreNumbers
    <3>2. CASE disksize = 0 \/ local[t].size <= disksize
      BY <2>5, <3>1, <3>2 DEF Stat
    <3>3. CASE ~(disksize = 0 \/ local[t].size <= disksize)
      BY <2>5, <3>1, <3>3 DEF Stat
    <3> QED BY <3>2, <3>3
  <2>6. CASE Truncate(t)
    <3>1. local[t].size \in Nat /\ disksize \in Nat /\ file.size \in Nat
      BY <2>6 DEF Truncate, Shape, Holding
    <3>2. local[t].size > disksize /\ disksize' = local[t].size /\ file.size <= disksize'
      BY <2>6, <3>1 DEF Truncate
    <3>3. pc'[t] \in {"patch", "resize2fs"} /\ local'[t] = local[t]
      BY <2>6 DEF Truncate
    <3>4. \A u \in Thread \ {t} : pc'[u] = "idle"
      BY <2>6 DEF Truncate
    <3>5. pc'[t] = "resize2fs" => vm' = "stopped"
      BY <2>6 DEF Truncate
    <3> QED BY <2>6, <3>1, <3>2, <3>3, <3>4, <3>5 DEF Truncate
  <2>7. CASE TruncateFails(t)
    BY <2>7 DEF TruncateFails, Return, Shape, Holding
  <2>8. CASE Resize2fs(t)
    BY <2>8 DEF Resize2fs, Shape, Holding
  <2>9. CASE Resize2fsFails(t)
    BY <2>9 DEF Resize2fsFails, Return, Shape, Holding
  <2>10. CASE SetRootfsSize(t)
    BY <2>10 DEF SetRootfsSize, Shape, Holding
  <2>11. CASE SetRootfsSizeFails(t)
    BY <2>11 DEF SetRootfsSizeFails, Return, Shape, Holding
  <2>12. CASE Save(t)
    BY <2>12 DEF Save, Shape, Holding
  <2>13. CASE SaveFails(t)
    BY <2>13 DEF SaveFails, Return, Shape, Holding
  <2>14. CASE Keep(t)
    BY <2>14 DEF Keep, Return, Held, Shape, Holding
  <2>15. CASE Apply(t)
    BY <2>15 DEF Apply, Held, Shape, Holding
  <2>16. CASE SyncNAT(t)
    BY <2>16 DEF SyncNAT, Shape, Holding
  <2>17. CASE SyncRoute(t)
    BY <2>17 DEF SyncRoute, Shape, Holding
  <2>18. CASE SaveIPs(t)
    BY <2>18 DEF SaveIPs, InStep, Starting, Shape, Holding
  <2>19. CASE SetBandwidth(t)
    BY <2>19 DEF SetBandwidth, Shape, Holding
  <2>20. CASE SetBandwidthFails(t)
    BY <2>20 DEF SetBandwidthFails, Return, NotApplied, Shape, Holding
  <2>21. CASE SetFirewall(t)
    BY <2>21 DEF SetFirewall, Return, Applied, NotApplied, Shape, Holding
  <2>22. CASE Want(t)
    BY <2>22 DEF Want, Shape, Holding
  <2>23. CASE CreateNetwork(t)
    BY <2>23 DEF CreateNetwork, BuildTable, Shape, Holding
  <2>24. CASE CreateNetworkFails(t)
    BY <2>24 DEF CreateNetworkFails, Return, NotApplied, BuildTable, Shape, Holding
  <2>25. CASE Boot(t)
    BY <2>25 DEF Boot, Return, Shape, Holding
  <2>26. CASE BootFails(t)
    BY <2>26 DEF BootFails, Return, Shape, Holding
  <2>27. CASE Unwant(t)
    BY <2>27 DEF Unwant, Shape, Holding
  <2>28. CASE Halt(t)
    BY <2>28 DEF Halt, Shape, Holding
  <2>29. CASE ClearIPs(t)
    BY <2>29 DEF ClearIPs, Shape, Holding
  <2>30. CASE DeleteNetwork(t)
    BY <2>30 DEF DeleteNetwork, Return, Shape, Holding
  <2>31. CASE SaveIPsFails(t)
    BY <2>31 DEF SaveIPsFails, Return, Shape, Holding, NotApplied, Starting
  <2> QED
    BY <1>3, <2>1, <2>2, <2>3, <2>4, <2>5, <2>6, <2>7, <2>8, <2>9, <2>10, <2>11, <2>12,
       <2>13, <2>14, <2>15, <2>16, <2>17, <2>18, <2>19, <2>20, <2>21, <2>22, <2>23, <2>24,
       <2>25, <2>26, <2>27, <2>28, <2>29, <2>30, <2>31 DEF Step
<1>4. ASSUME NEW h \in Handler, Request(h) PROVE Disk'
  <2>1. PICK o \in Operation : pc' = [pc EXCEPT ![h] = Entry(o)]
    BY <1>4 DEF Request
  <2>2. Entry(o) \in {"want", "unwant", "load"}
    BY DEF Entry
  <2> QED BY <1>4, <2>1, <2>2 DEF Request
<1>5. CASE Edit
  BY <1>5, EditAssumption DEF Edit
<1> QED
  BY <1>1, <1>2, <1>3, <1>4, <1>5 DEF Next

LEMMA DiskInvariant == Serial => (Spec => []DiskInv)
<1> SUFFICES ASSUME Serial PROVE Spec => []DiskInv
  OBVIOUS
<1>1. DiskInv /\ [Next]_vars => DiskInv'
  BY TypeStep, AloneStep, DiskStep DEF DiskInv
<1> QED
  BY <1>1, DiskInit, PTL DEF Spec

\* With one request at a time config.toml never names a size that the rootfs
\* file does not have (Runtime.ResizeRootfs, GrowRootfs).
THEOREM DiskSafe == Serial => (Spec => []DiskCoversConfig)
<1>1. DiskInv => DiskCoversConfig
  BY InputAssumption DEF DiskInv, TypeInv, TypeOK, Config, Disk, DiskCoversConfig
<1> QED
  BY <1>1, DiskInvariant, PTL

LEMMA GrowStep == DiskInv /\ [Next]_vars => disksize' >= disksize
<1> SUFFICES ASSUME DiskInv, [Next]_vars PROVE disksize' >= disksize
  OBVIOUS
<1> USE InputAssumption
    DEF DiskInv, TypeInv, TypeOK, Disk, Truncating, Config, Shape, Holding, Untouched
<1>1. disksize \in Nat /\ config.size \in Nat
  BY SizesAreNumbers
<1>2. ASSUME NEW t \in Thread, Step(t) PROVE disksize' >= disksize
  <2>1. CASE Mutate(t)
    BY <1>1, <2>1 DEF Mutate, Untouched
  <2>2. CASE Reload(t)
    BY <1>1, <2>2 DEF Reload, Untouched
  <2>3. CASE Resize(t)
    BY <1>1, <2>3 DEF Resize, Untouched
  <2>4. CASE ResizeRootfs(t)
    BY <1>1, <2>4 DEF ResizeRootfs, Untouched
  <2>5. CASE Stat(t)
    BY <1>1, <2>5 DEF Stat, Untouched
  <2>6. CASE Truncate(t)
    <3>1. local[t].size \in Nat
      BY <2>6 DEF Truncate
    <3> QED BY <1>1, <2>6, <3>1 DEF Truncate
  <2>7. CASE TruncateFails(t)
    BY <1>1, <2>7 DEF TruncateFails, Untouched
  <2>8. CASE Resize2fs(t)
    BY <1>1, <2>8 DEF Resize2fs, Untouched
  <2>9. CASE Resize2fsFails(t)
    BY <1>1, <2>9 DEF Resize2fsFails, Untouched
  <2>10. CASE SetRootfsSize(t)
    BY <1>1, <2>10 DEF SetRootfsSize, Untouched
  <2>11. CASE SetRootfsSizeFails(t)
    BY <1>1, <2>11 DEF SetRootfsSizeFails, Untouched
  <2>12. CASE Save(t)
    BY <1>1, <2>12 DEF Save
  <2>13. CASE SaveFails(t)
    BY <1>1, <2>13 DEF SaveFails, Untouched
  <2>14. CASE Keep(t)
    BY <1>1, <2>14 DEF Keep
  <2>15. CASE Apply(t)
    BY <1>1, <2>15 DEF Apply
  <2>16. CASE SyncNAT(t)
    BY <1>1, <2>16 DEF SyncNAT
  <2>17. CASE SyncRoute(t)
    BY <1>1, <2>17 DEF SyncRoute
  <2>18. CASE SaveIPs(t)
    BY <1>1, <2>18 DEF SaveIPs
  <2>19. CASE SetBandwidth(t)
    BY <1>1, <2>19 DEF SetBandwidth
  <2>20. CASE SetBandwidthFails(t)
    BY <1>1, <2>20 DEF SetBandwidthFails
  <2>21. CASE SetFirewall(t)
    BY <1>1, <2>21 DEF SetFirewall
  <2>22. CASE Want(t)
    BY <1>1, <2>22 DEF Want
  <2>23. CASE CreateNetwork(t)
    BY <1>1, <2>23 DEF CreateNetwork
  <2>24. CASE CreateNetworkFails(t)
    BY <1>1, <2>24 DEF CreateNetworkFails
  <2>25. CASE Boot(t)
    BY <1>1, <2>25 DEF Boot
  <2>26. CASE BootFails(t)
    BY <1>1, <2>26 DEF BootFails
  <2>27. CASE Unwant(t)
    BY <1>1, <2>27 DEF Unwant
  <2>28. CASE Halt(t)
    BY <1>1, <2>28 DEF Halt
  <2>29. CASE ClearIPs(t)
    BY <1>1, <2>29 DEF ClearIPs
  <2>30. CASE DeleteNetwork(t)
    BY <1>1, <2>30 DEF DeleteNetwork
  <2>31. CASE SaveIPsFails(t)
    BY <1>1, <2>31 DEF SaveIPsFails, NotApplied, Starting
  <2> QED
    BY <1>2, <2>1, <2>2, <2>3, <2>4, <2>5, <2>6, <2>7, <2>8, <2>9, <2>10, <2>11, <2>12,
       <2>13, <2>14, <2>15, <2>16, <2>17, <2>18, <2>19, <2>20, <2>21, <2>22, <2>23, <2>24,
       <2>25, <2>26, <2>27, <2>28, <2>29, <2>30, <2>31 DEF Step
<1> QED
  BY <1>1, <1>2 DEF Next, vars, Request, Restart, Edit

\* With one request at a time the rootfs file never gets shorter, whatever
\* fails in the middle and whatever sizes are tried next (GrowRootfs).
THEOREM DiskGrows == Serial => (Spec => DiskNeverShrinks)
<1> SUFFICES ASSUME Serial PROVE Spec => DiskNeverShrinks
  OBVIOUS
<1>1. DiskInv /\ [Next]_vars => [disksize' >= disksize]_disksize
  BY GrowStep
<1> QED
  BY <1>1, DiskInvariant, PTL DEF Spec, DiskNeverShrinks

(***************************************************************************)
(* Which config.toml a runtime can have refused, for any number of         *)
(* concurrent requests.                                                    *)
(***************************************************************************)

\* The requests that build the network anew.
Building == {"start", "recover"}

\* Which requests come by which points.
Kinds == \A t \in Thread :
    /\ pc[t] \in {"load", "save", "keep", "apply", "band", "firewall"} \cup Growing =>
           op[t] \notin Building
    /\ pc[t] \in {"want", "network", "boot"} => op[t] \in Building
    /\ pc[t] \in Growing => op[t] = "rootfs"

\* What Validate has let through, from the mutation to the file.
Refusal ==
    /\ \A t \in Thread : At(t, "save") /\ op[t] \in Mutations => Valid(local[t])
    /\ Valid(file) \/ unvalidated
    /\ up \/ (unvalidated /\ vm = "stopped" /\ \A t \in Thread : At(t, "idle"))

RefusalInv == TypeInv /\ Kinds /\ Refusal

LEMMA RefusalInit == Init => RefusalInv
BY TypeInit DEF Init, RefusalInv, Kinds, Refusal

\* A mutation that goes on to the save has passed Validate.
LEMMA MutateSteps ==
    ASSUME NEW t \in Thread, Mutate(t)
    PROVE  \/ Valid(Changed(op[t], arg[t])) /\ Loaded(t, Changed(op[t], arg[t]), "save")
           \/ Return(t)
BY DEF Mutate

LEMMA KindsStep == TypeInv /\ Kinds /\ [Next]_vars => Kinds'
<1> SUFFICES ASSUME TypeInv, Kinds, [Next]_vars PROVE Kinds'
  OBVIOUS
<1> USE ThreadAssumption, InputAssumption
    DEF TypeInv, TypeOK, Shape, Kinds, Building, threads, Operations, Mutations
<1>1. CASE UNCHANGED vars
  BY <1>1 DEF vars
<1>2. CASE Restart
  BY <1>2 DEF Restart
<1>3. ASSUME NEW t \in Thread, Step(t) PROVE Kinds'
  <2>1. CASE Mutate(t)
    BY <2>1, MutateSteps DEF Mutate, Return, Loaded
  <2>2. CASE Reload(t)
    BY <2>2 DEF Reload, Return, Loaded
  <2>3. CASE Resize(t)
    BY <2>3 DEF Resize, Return, Loaded
  <2>4. CASE ResizeRootfs(t)
    BY <2>4 DEF ResizeRootfs, Loaded
  <2>5. CASE Stat(t)
    BY <2>5 DEF Stat
  <2>6. CASE Truncate(t)
    BY <2>6 DEF Truncate
  <2>7. CASE TruncateFails(t)
    BY <2>7 DEF TruncateFails, Return
  <2>8. CASE Resize2fs(t)
    BY <2>8 DEF Resize2fs
  <2>9. CASE Resize2fsFails(t)
    BY <2>9 DEF Resize2fsFails, Return
  <2>10. CASE SetRootfsSize(t)
    BY <2>10 DEF SetRootfsSize
  <2>11. CASE SetRootfsSizeFails(t)
    BY <2>11 DEF SetRootfsSizeFails, Return
  <2>12. CASE Save(t)
    BY <2>12 DEF Save
  <2>13. CASE SaveFails(t)
    BY <2>13 DEF SaveFails, Return
  <2>14. CASE Keep(t)
    BY <2>14 DEF Keep, Return
  <2>15. CASE Apply(t)
    BY <2>15 DEF Apply
  <2>16. CASE SyncNAT(t)
    BY <2>16 DEF SyncNAT, Reachable
  <2>17. CASE SyncRoute(t)
    BY <2>17 DEF SyncRoute
  <2>18. CASE SaveIPs(t)
    BY <2>18 DEF SaveIPs, InStep, Starting
  <2>19. CASE SetBandwidth(t)
    BY <2>19 DEF SetBandwidth, Reachable
  <2>20. CASE SetBandwidthFails(t)
    BY <2>20 DEF SetBandwidthFails, Return, NotApplied, Reachable
  <2>21. CASE SetFirewall(t)
    BY <2>21 DEF SetFirewall, Return, Applied, NotApplied, Reachable
  <2>22. CASE Want(t)
    BY <2>22 DEF Want
  <2>23. CASE CreateNetwork(t)
    BY <2>23 DEF CreateNetwork, BuildTable
  <2>24. CASE CreateNetworkFails(t)
    BY <2>24 DEF CreateNetworkFails, Return, NotApplied, BuildTable
  <2>25. CASE Boot(t)
    BY <2>25 DEF Boot, Return
  <2>26. CASE BootFails(t)
    BY <2>26 DEF BootFails, Return
  <2>27. CASE Unwant(t)
    BY <2>27 DEF Unwant
  <2>28. CASE Halt(t)
    BY <2>28 DEF Halt
  <2>29. CASE ClearIPs(t)
    BY <2>29 DEF ClearIPs
  <2>30. CASE DeleteNetwork(t)
    BY <2>30 DEF DeleteNetwork, Return
  <2>31. CASE SaveIPsFails(t)
    BY <2>31 DEF SaveIPsFails, Return, NotApplied, Starting
  <2> QED
    BY <1>3, <2>1, <2>2, <2>3, <2>4, <2>5, <2>6, <2>7, <2>8, <2>9, <2>10, <2>11, <2>12, <2>13,
       <2>14, <2>15, <2>16, <2>17, <2>18, <2>19, <2>20, <2>21, <2>22, <2>23, <2>24, <2>25,
       <2>26, <2>27, <2>28, <2>29, <2>30, <2>31 DEF Step
<1>4. ASSUME NEW h \in Handler, Request(h) PROVE Kinds'
  <2>1. PICK o \in Operation : op' = [op EXCEPT ![h] = o] /\ pc' = [pc EXCEPT ![h] = Entry(o)]
    BY <1>4 DEF Request
  <2>2. Entry(o) \in {"want", "unwant", "load"} /\ (o = "start" <=> Entry(o) = "want")
    BY DEF Entry
  <2> QED BY <2>1, <2>2
<1>5. CASE Edit
  BY <1>5 DEF Edit
<1> QED
  BY <1>1, <1>2, <1>3, <1>4, <1>5 DEF Next

LEMMA RefusalStep == RefusalInv /\ [Next]_vars => Refusal'
<1> SUFFICES ASSUME RefusalInv, [Next]_vars PROVE Refusal'
  OBVIOUS
<1> USE ThreadAssumption, InputAssumption
    DEF RefusalInv, TypeInv, TypeOK, Kinds, Refusal, Building, Untouched, threads, memory, metadata, history,
        Mutations
<1>1. CASE UNCHANGED vars
  BY <1>1 DEF vars
<1>2. CASE Restart
  <2>1. \A t \in Thread : pc'[t] # "save"
    BY <1>2 DEF Restart
  <2>2. up' <=> Valid(file)
    BY <1>2 DEF Restart
  <2>3. file' = file /\ unvalidated' = unvalidated /\ vm' = "stopped"
    BY <1>2 DEF Restart
  <2>4. Valid(file') <=> Valid(file)
    BY <2>3
  <2>5. ~up' => \A t \in Thread : At(t, "idle")'
    BY <1>2 DEF Restart
  <2> QED BY <2>1, <2>2, <2>3, <2>4, <2>5
<1>3. ASSUME NEW t \in Thread, Step(t) PROVE Refusal'
  <2>1. CASE Mutate(t)
    <3>1. Valid(file)' <=> Valid(file)
      BY <2>1 DEF Mutate, Valid
    <3> QED BY <2>1, <3>1, MutateSteps DEF Mutate, Return, Loaded
  <2>2. CASE Reload(t)
    BY <2>2 DEF Reload, Return, Loaded
  <2>3. CASE Resize(t)
    BY <2>3 DEF Resize, Return, Loaded
  <2>4. CASE ResizeRootfs(t)
    BY <2>4 DEF ResizeRootfs, Loaded
  <2>5. CASE Stat(t)
    BY <2>5 DEF Stat
  <2>6. CASE Truncate(t)
    BY <2>6 DEF Truncate
  <2>7. CASE TruncateFails(t)
    BY <2>7 DEF TruncateFails, Return
  <2>8. CASE Resize2fs(t)
    BY <2>8 DEF Resize2fs
  <2>9. CASE Resize2fsFails(t)
    BY <2>9 DEF Resize2fsFails, Return
  <2>10. CASE SetRootfsSize(t)
    BY <2>10 DEF SetRootfsSize
  <2>11. CASE SetRootfsSizeFails(t)
    BY <2>11 DEF SetRootfsSizeFails, Return
  <2>12. CASE Save(t)
    <3>1. Valid(file') <=> Valid(local[t])
      BY <2>12 DEF Save
    <3> QED BY <2>12, <3>1 DEF Save
  <2>13. CASE SaveFails(t)
    BY <2>13 DEF SaveFails, Return
  <2>14. CASE Keep(t)
    BY <2>14 DEF Keep, Return
  <2>15. CASE Apply(t)
    BY <2>15 DEF Apply
  <2>16. CASE SyncNAT(t)
    BY <2>16 DEF SyncNAT, Reachable
  <2>17. CASE SyncRoute(t)
    BY <2>17 DEF SyncRoute
  <2>18. CASE SaveIPs(t)
    BY <2>18 DEF SaveIPs, InStep, Starting
  <2>19. CASE SetBandwidth(t)
    BY <2>19 DEF SetBandwidth, Reachable
  <2>20. CASE SetBandwidthFails(t)
    BY <2>20 DEF SetBandwidthFails, Return, NotApplied, Reachable
  <2>21. CASE SetFirewall(t)
    BY <2>21 DEF SetFirewall, Return, Applied, NotApplied, Reachable
  <2>22. CASE Want(t)
    BY <2>22 DEF Want
  <2>23. CASE CreateNetwork(t)
    BY <2>23 DEF CreateNetwork, BuildTable
  <2>24. CASE CreateNetworkFails(t)
    BY <2>24 DEF CreateNetworkFails, Return, NotApplied, BuildTable
  <2>25. CASE Boot(t)
    BY <2>25 DEF Boot, Return
  <2>26. CASE BootFails(t)
    BY <2>26 DEF BootFails, Return
  <2>27. CASE Unwant(t)
    BY <2>27 DEF Unwant
  <2>28. CASE Halt(t)
    BY <2>28 DEF Halt
  <2>29. CASE ClearIPs(t)
    BY <2>29 DEF ClearIPs
  <2>30. CASE DeleteNetwork(t)
    BY <2>30 DEF DeleteNetwork, Return
  <2>31. CASE SaveIPsFails(t)
    BY <2>31 DEF SaveIPsFails, Return, NotApplied, Starting
  <2> QED
    BY <1>3, <2>1, <2>2, <2>3, <2>4, <2>5, <2>6, <2>7, <2>8, <2>9, <2>10, <2>11, <2>12, <2>13,
       <2>14, <2>15, <2>16, <2>17, <2>18, <2>19, <2>20, <2>21, <2>22, <2>23, <2>24, <2>25,
       <2>26, <2>27, <2>28, <2>29, <2>30, <2>31 DEF Step
<1>4. ASSUME NEW h \in Handler, Request(h) PROVE Refusal'
  <2>1. PICK o \in Operation : op' = [op EXCEPT ![h] = o] /\ pc' = [pc EXCEPT ![h] = Entry(o)]
    BY <1>4 DEF Request
  <2>2. Entry(o) \in {"want", "unwant", "load"}
    BY DEF Entry
  <2> QED BY <1>4, <2>1, <2>2 DEF Request
<1>5. CASE Edit
  BY <1>5 DEF Edit
<1> QED
  BY <1>1, <1>2, <1>3, <1>4, <1>5 DEF Next

LEMMA RefusalInvariant == Spec => []RefusalInv
<1>1. RefusalInv /\ [Next]_vars => RefusalInv'
  BY TypeStep, KindsStep, RefusalStep DEF RefusalInv
<1> QED
  BY <1>1, RefusalInit, PTL DEF Spec

\* A runtime that exits on its config.toml finds a file that was edited by hand
\* or saved by a request that skips Validate: however many requests of
\* mutateConfig run side by side, none of them leaves such a file (main,
\* API.mutateConfig).
THEOREM OnlyUnvalidatedRefused == Spec => []RefusedOnlyUnvalidated
<1>1. RefusalInv => RefusedOnlyUnvalidated
  BY DEF RefusalInv, Refusal, RefusedOnlyUnvalidated
<1> QED
  BY <1>1, RefusalInvariant, PTL

(***************************************************************************)
(* What is applied is what is saved, for a client that sends one request   *)
(* at a time.                                                              *)
(***************************************************************************)

\* applyConfig is under way.
Tuning(t) == pc[t] \in Applying /\ op[t] \notin Building

\* The memory of the runtime follows the file; applyConfig is about to make it.
Memory ==
    /\ \A t \in Thread : Tuning(t) \/ At(t, "keep") => local[t] = file
    /\ \A t \in Thread : Tuning(t) /\ ~At(t, "apply") => config.ip = file.ip /\ netband = file.band
    /\ \A t \in Thread : At(t, "save") /\ op[t] = "resize" =>
           local[t].ip = file.ip /\ local[t].band = file.band /\ local[t].fw = file.fw
    /\ up /\ ~dirty /\ (\A t \in Thread : ~Tuning(t)) =>
           config.ip = file.ip /\ netband = file.band /\ firewall = file.fw

\* The DNAT map and the SNAT map hold the address a and no other.
Translated(a) == dnat = {a} \ {None} /\ snat = a

\* What the steps from the new table to the boot, and those of applyConfig on
\* a VM that runs, have done so far.
Progress(t) ==
    /\ pc[t] \in {"end", "delete"} => vm = "stopped"
    /\ pc[t] \in {"nat", "route", "ipsave", "boot"} /\ op[t] \in Building =>
           created /\ network /\ band = netband /\ fw = firewall
    /\ At(t, "nat") /\ op[t] \in Building => Translated(None)
    /\ pc[t] \in {"route", "ipsave", "boot", "band", "firewall"}
         /\ (vm = "running" \/ op[t] \in Building) => Translated(config.ip)
    /\ pc[t] \in {"ipsave", "boot", "band", "firewall"}
         /\ (vm = "running" \/ op[t] \in Building) => dnat \subseteq routes
    /\ pc[t] \in {"boot", "band", "firewall"} => metaip = config.ip
    /\ At(t, "firewall") /\ vm = "running" => band = file.band

\* The network of a VM that runs: the tables know the address of
\* metadata.json, or none after a start that failed, and what is not being
\* changed is what the file says.
InForce ==
    /\ vm = "running" => created /\ network
    /\ vm = "running" /\ (\A t \in Thread : pc[t] \notin {"route", "ipsave"}) =>
           Translated(metaip) \/ Translated(None)
    /\ vm = "running" /\ ~dirty /\ (\A t \in Thread : pc[t] \notin Applying \cup {"boot"}) =>
           /\ Translated(file.ip) /\ dnat \subseteq routes
           /\ band = file.band /\ fw = file.fw

Network == InForce /\ \A t \in Thread : Progress(t)

AppliedInv == DiskInv /\ RefusalInv /\ Memory /\ Network

LEMMA AppliedInit == Init => AppliedInv
<1> SUFFICES ASSUME Init PROVE AppliedInv
  OBVIOUS
<1>1. DiskInv /\ RefusalInv
  BY DiskInit, RefusalInit
<1>2. Memory
  BY DEF Init, Memory, Tuning, Held
<1>3. Network
  BY DEF Init, Network, InForce, Progress
<1> QED
  BY <1>1, <1>2, <1>3 DEF AppliedInv

LEMMA MemoryStep == Serial /\ AppliedInv /\ [Next]_vars => Memory'
<1> SUFFICES ASSUME Serial, AppliedInv, [Next]_vars PROVE Memory'
  OBVIOUS
<1> USE ThreadAssumption, InputAssumption
    DEF AppliedInv, DiskInv, RefusalInv, TypeInv, TypeOK, Shape, Holding, Alone, Kinds, Building,
        Config, Memory, Tuning, Held, Untouched, threads, memory, metadata, rules, history
<1>1. CASE UNCHANGED vars
  BY <1>1 DEF vars
<1>2. CASE Restart
  BY <1>2 DEF Restart
<1>3. ASSUME NEW t \in Thread, Step(t) PROVE Memory'
  <2>1. CASE Mutate(t)
    <3>1. op[t] \in Mutations /\ pc[t] = "load"
      BY <2>1 DEF Mutate
    <3>2. op[t] \notin {"resize", "start", "recover"}
      BY <3>1 DEF Mutations
    <3>3. CASE Return(t)
      BY <2>1, <3>1, <3>3 DEF Mutate, Return
    <3>4. CASE Loaded(t, Changed(op[t], arg[t]), "save")
      <4>1. pc' = [pc EXCEPT ![t] = "save"] /\ op' = op
        BY <3>4 DEF Loaded
      <4>2. \A u \in Thread \ {t} : local'[u] = local[u]
        BY <3>4 DEF Loaded
      <4>3. UNCHANGED <<file, config, netband, firewall, dirty, up>>
        BY <2>1 DEF Mutate
      <4> QED BY <3>1, <3>2, <4>1, <4>2, <4>3
    <3> QED BY <2>1, <3>3, <3>4, MutateSteps
  <2>2. CASE Reload(t)
    BY <2>2 DEF Reload, Return, Loaded
  <2>3. CASE Resize(t)
    BY <2>3 DEF Resize, Return, Loaded
  <2>4. CASE ResizeRootfs(t)
    BY <2>4 DEF ResizeRootfs, Loaded
  <2>5. CASE Stat(t)
    BY <2>5 DEF Stat
  <2>6. CASE Truncate(t)
    BY <2>6 DEF Truncate
  <2>7. CASE TruncateFails(t)
    BY <2>7 DEF TruncateFails, Return
  <2>8. CASE Resize2fs(t)
    BY <2>8 DEF Resize2fs
  <2>9. CASE Resize2fsFails(t)
    BY <2>9 DEF Resize2fsFails, Return
  <2>10. CASE SetRootfsSize(t)
    BY <2>10 DEF SetRootfsSize
  <2>11. CASE SetRootfsSizeFails(t)
    BY <2>11 DEF SetRootfsSizeFails, Return
  <2>12. CASE Save(t)
    BY <2>12 DEF Save
  <2>13. CASE SaveFails(t)
    BY <2>13 DEF SaveFails, Return
  <2>14. CASE Keep(t)
    BY <2>14 DEF Keep, Return
  <2>15. CASE Apply(t)
    BY <2>15 DEF Apply
  <2>16. CASE SyncNAT(t)
    BY <2>16 DEF SyncNAT, Reachable
  <2>17. CASE SyncRoute(t)
    BY <2>17 DEF SyncRoute
  <2>18. CASE SaveIPs(t)
    BY <2>18 DEF SaveIPs, InStep, Starting
  <2>19. CASE SetBandwidth(t)
    BY <2>19 DEF SetBandwidth, Reachable
  <2>20. CASE SetBandwidthFails(t)
    BY <2>20 DEF SetBandwidthFails, Return, NotApplied, Reachable
  <2>21. CASE SetFirewall(t)
    BY <2>21 DEF SetFirewall, Return, Applied, NotApplied, Reachable
  <2>22. CASE Want(t)
    BY <2>22 DEF Want
  <2>23. CASE CreateNetwork(t)
    BY <2>23 DEF CreateNetwork, BuildTable
  <2>24. CASE CreateNetworkFails(t)
    BY <2>24 DEF CreateNetworkFails, Return, NotApplied, BuildTable
  <2>25. CASE Boot(t)
    BY <2>25 DEF Boot, Return
  <2>26. CASE BootFails(t)
    BY <2>26 DEF BootFails, Return
  <2>27. CASE Unwant(t)
    BY <2>27 DEF Unwant
  <2>28. CASE Halt(t)
    BY <2>28 DEF Halt
  <2>29. CASE ClearIPs(t)
    BY <2>29 DEF ClearIPs
  <2>30. CASE DeleteNetwork(t)
    BY <2>30 DEF DeleteNetwork, Return
  <2>31. CASE SaveIPsFails(t)
    BY <2>31 DEF SaveIPsFails, Return, NotApplied, Starting
  <2> QED
    BY <1>3, <2>1, <2>2, <2>3, <2>4, <2>5, <2>6, <2>7, <2>8, <2>9, <2>10, <2>11, <2>12, <2>13,
       <2>14, <2>15, <2>16, <2>17, <2>18, <2>19, <2>20, <2>21, <2>22, <2>23, <2>24, <2>25,
       <2>26, <2>27, <2>28, <2>29, <2>30, <2>31 DEF Step
<1>4. ASSUME NEW h \in Handler, Request(h) PROVE Memory'
  <2>1. PICK o \in Operation : op' = [op EXCEPT ![h] = o] /\ pc' = [pc EXCEPT ![h] = Entry(o)]
    BY <1>4 DEF Request
  <2>2. Entry(o) \in {"want", "unwant", "load"}
    BY DEF Entry
  <2> QED BY <1>4, <2>1, <2>2 DEF Request
<1>5. CASE Edit
  BY <1>5 DEF Edit
<1> QED
  BY <1>1, <1>2, <1>3, <1>4, <1>5 DEF Next

LEMMA NetworkStep == Serial /\ AppliedInv /\ [Next]_vars => Network'
<1> SUFFICES ASSUME Serial, AppliedInv, [Next]_vars PROVE Network'
  OBVIOUS
<1> USE ThreadAssumption, InputAssumption
    DEF AppliedInv, DiskInv, RefusalInv, TypeInv, TypeOK, Shape, Holding, Alone, Kinds, Building,
        Config, Memory, Tuning, Held, Network, InForce, Progress, Translated,
        Untouched, threads, memory, metadata, rules, history
<1>1. CASE UNCHANGED vars
  BY <1>1 DEF vars
<1>2. CASE Restart
  BY <1>2 DEF Restart
<1>3. ASSUME NEW t \in Thread, Step(t) PROVE Network'
  <2>1. CASE Mutate(t)
    BY <2>1, MutateSteps DEF Mutate, Return, Loaded
  <2>2. CASE Reload(t)
    BY <2>2 DEF Reload, Return, Loaded
  <2>3. CASE Resize(t)
    BY <2>3 DEF Resize, Return, Loaded
  <2>4. CASE ResizeRootfs(t)
    BY <2>4 DEF ResizeRootfs, Loaded
  <2>5. CASE Stat(t)
    BY <2>5 DEF Stat
  <2>6. CASE Truncate(t)
    BY <2>6 DEF Truncate
  <2>7. CASE TruncateFails(t)
    BY <2>7 DEF TruncateFails, Return
  <2>8. CASE Resize2fs(t)
    BY <2>8 DEF Resize2fs
  <2>9. CASE Resize2fsFails(t)
    BY <2>9 DEF Resize2fsFails, Return
  <2>10. CASE SetRootfsSize(t)
    BY <2>10 DEF SetRootfsSize
  <2>11. CASE SetRootfsSizeFails(t)
    BY <2>11 DEF SetRootfsSizeFails, Return
  <2>12. CASE Save(t)
    BY <2>12 DEF Save
  <2>13. CASE SaveFails(t)
    BY <2>13 DEF SaveFails, Return
  <2>14. CASE Keep(t)
    BY <2>14 DEF Keep, Return
  <2>15. CASE Apply(t)
    BY <2>15 DEF Apply
  <2>16. CASE SyncNAT(t)
    BY <2>16 DEF SyncNAT, Reachable
  <2>17. CASE SyncRoute(t)
    BY <2>17 DEF SyncRoute
  <2>18. CASE SaveIPs(t)
    BY <2>18 DEF SaveIPs, InStep, Starting
  <2>19. CASE SetBandwidth(t)
    BY <2>19 DEF SetBandwidth, Reachable
  <2>20. CASE SetBandwidthFails(t)
    BY <2>20 DEF SetBandwidthFails, Return, NotApplied, Reachable
  <2>21. CASE SetFirewall(t)
    BY <2>21 DEF SetFirewall, Return, Applied, NotApplied, Reachable
  <2>22. CASE Want(t)
    BY <2>22 DEF Want
  <2>23. CASE CreateNetwork(t)
    BY <2>23 DEF CreateNetwork, BuildTable
  <2>24. CASE CreateNetworkFails(t)
    BY <2>24 DEF CreateNetworkFails, Return, NotApplied, BuildTable
  <2>25. CASE Boot(t)
    <3>1. op[t] \in Building /\ created /\ network /\ band = netband /\ fw = firewall
          /\ Translated(config.ip) /\ dnat \subseteq routes /\ metaip = config.ip
      BY <2>25 DEF Boot
    <3>2. up /\ \A u \in Thread : ~Tuning(u)
      BY <2>25, <3>1 DEF Boot, Refusal
    <3>3. ~dirty => config.ip = file.ip /\ netband = file.band /\ firewall = file.fw
      BY <3>2
    <3>4. pc' = [pc EXCEPT ![t] = "idle"]
      BY <2>25 DEF Boot, Return
    <3>5. UNCHANGED <<file, metaip, config, netband, firewall, dirty, rules, created, routes>>
      BY <2>25 DEF Boot
    <3>6. InForce'
      BY <3>1, <3>3, <3>5
    <3>7. \A u \in Thread : Progress(u)'
      BY <2>25, <3>4 DEF Boot
    <3> QED BY <3>6, <3>7
  <2>26. CASE BootFails(t)
    BY <2>26 DEF BootFails, Return
  <2>27. CASE Unwant(t)
    BY <2>27 DEF Unwant
  <2>28. CASE Halt(t)
    BY <2>28 DEF Halt
  <2>29. CASE ClearIPs(t)
    BY <2>29 DEF ClearIPs
  <2>30. CASE DeleteNetwork(t)
    BY <2>30 DEF DeleteNetwork, Return
  <2>31. CASE SaveIPsFails(t)
    BY <2>31 DEF SaveIPsFails, Return, NotApplied, Starting
  <2> QED
    BY <1>3, <2>1, <2>2, <2>3, <2>4, <2>5, <2>6, <2>7, <2>8, <2>9, <2>10, <2>11, <2>12, <2>13,
       <2>14, <2>15, <2>16, <2>17, <2>18, <2>19, <2>20, <2>21, <2>22, <2>23, <2>24, <2>25,
       <2>26, <2>27, <2>28, <2>29, <2>30, <2>31 DEF Step
<1>4. ASSUME NEW h \in Handler, Request(h) PROVE Network'
  <2>1. PICK o \in Operation : op' = [op EXCEPT ![h] = o] /\ pc' = [pc EXCEPT ![h] = Entry(o)]
    BY <1>4 DEF Request
  <2>2. Entry(o) \in {"want", "unwant", "load"}
    BY DEF Entry
  <2> QED BY <1>4, <2>1, <2>2 DEF Request
<1>5. CASE Edit
  BY <1>5 DEF Edit
<1> QED
  BY <1>1, <1>2, <1>3, <1>4, <1>5 DEF Next

LEMMA AppliedInvariant == Serial => (Spec => []AppliedInv)
<1> SUFFICES ASSUME Serial PROVE Spec => []AppliedInv
  OBVIOUS
<1>1. AppliedInv /\ [Next]_vars => AppliedInv'
  BY TypeStep, AloneStep, DiskStep, KindsStep, RefusalStep, MemoryStep, NetworkStep
  DEF AppliedInv, DiskInv, RefusalInv
<1> QED
  BY <1>1, AppliedInit, PTL DEF Spec

\* With one request at a time, and unless a request has failed to apply or an
\* edit waits for a reload, the network of a VM that runs is the one that
\* config.toml asks for, after every sequence of requests, stops, failed starts
\* and restarts (Runtime.applyConfig, applyPublicIPs, Network.Create).
THEOREM SavedIsApplied == Serial => (Spec => []AppliedIsSaved)
<1>1. AppliedInv => AppliedIsSaved
  BY DEF AppliedInv, Network, InForce, Translated, AppliedIsSaved, Quiet, DiskInv, TypeInv, TypeOK
<1> QED
  BY <1>1, AppliedInvariant, PTL
=============================================================================
