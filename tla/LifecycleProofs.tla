-------------------------- MODULE LifecycleProofs --------------------------
(***************************************************************************)
(* What Lifecycle promises about the disk of the VM, and to requests that  *)
(* come one after another about processes and metadata, for every number   *)
(* of handlers and of Firecracker processes, with every outside failure    *)
(* and with restarts at every step.                                        *)
(***************************************************************************)
EXTENDS Lifecycle, TLAPS

(* Type correctness.                                                       *)

\* Which operations reach which part of the program.
Shape ==
    /\ \A t \in Thread : pc[t] = "idle" <=> op[t] = "none"
    /\ \A t \in Thread : pc[t] \in Copying => op[t] = "snapshot"
    /\ \A t \in Thread : pc[t] \in Stopping => op[t] \in {"stop", "reboot", "snapshot"}
    /\ op[Main] \in {"recover", "none"}

TypeInv == TypeOK /\ Shape

USE DEF Starting, Stopping, Copying, Operations, NewMetadata, Metadata, Thread, At, Goto

LEMMA TypeInit == Init => TypeInv
<1> SUFFICES ASSUME Init PROVE TypeInv
  OBVIOUS
<1>1. TypeOK
  BY DEF Init, TypeOK
<1>2. Shape
  BY DEF Init, Shape
<1> QED
  BY <1>1, <1>2 DEF TypeInv

\* What the end of an operation does to the types.
LEMMA ReturnTypes ==
    ASSUME TypeInv, NEW t \in Thread, Return(t)
    PROVE  /\ pc' = [pc EXCEPT ![t] = "idle"]
           /\ op' \in [Thread -> Operation \cup {"recover", "none"}]
           /\ buf' \in [Thread -> Metadata]
           /\ mutex' \in {h \in Handler : op'[h] = "snapshot"} \cup {None}
           /\ serving' \in BOOLEAN
           /\ Shape'
<1> USE ThreadAssumption DEF TypeInv, TypeOK, Return
<1>1. Shape'
  BY DEF Shape
<1>2. NewMetadata \in Metadata
  OBVIOUS
<1>3. mutex' \in {h \in Handler : op'[h] = "snapshot"} \cup {None}
  OBVIOUS
<1> QED
  BY <1>1, <1>2, <1>3

LEMMA TypeStep == TypeInv /\ [Next]_vars => TypeInv'
<1> SUFFICES ASSUME TypeInv, [Next]_vars PROVE TypeInv'
  OBVIOUS
<1> USE ThreadAssumption, OperationAssumption, VmmAssumption
    DEF TypeInv, TypeOK, Shape, threads, machine, store, history
<1>1. CASE UNCHANGED vars
  BY <1>1 DEF vars
<1>2. ASSUME Restart PROVE TypeInv'
  BY <1>2 DEF Restart
<1>3. ASSUME NEW t \in Thread, Step(t) PROVE TypeInv'
  <2>1. CASE Want(t)
    BY <2>1 DEF Want, Marshal
  <2>2. CASE WantSave(t)
    <3>1. stale' \in BOOLEAN
      BY <2>2 DEF WantSave, Rename, RenameFails
    <3> QED BY <2>2, <3>1 DEF WantSave, Rename, RenameFails
  <2>3. CASE CreateNetwork(t)
    BY <2>3 DEF CreateNetwork, MakeTap
  <2>4. CASE CreateNetworkFails(t)
    <3>1. created' \in BOOLEAN /\ tap' \in Vmm \cup {"absent", "free"}
      BY <2>4 DEF CreateNetworkFails, MakeTap
    <3> QED BY <2>4, <3>1, ReturnTypes DEF CreateNetworkFails
  <2>5. CASE ApplyPublicIPs(t)
    BY <2>5 DEF ApplyPublicIPs, Marshal
  <2>6. CASE IPSave(t)
    <3>1. stale' \in BOOLEAN
      BY <2>6 DEF IPSave, Rename
    <3> QED BY <2>6, <3>1 DEF IPSave, Rename
  <2>7. CASE AttachConsole(t)
    BY <2>7 DEF AttachConsole
  <2>8. CASE CloneRootfs(t)
    BY <2>8 DEF CloneRootfs
  <2>9. CASE ResolveImageFails(t)
    BY <2>9 DEF ResolveImageFails
  <2>10. CASE CopyStat(t)
    BY <2>10 DEF CopyStat
  <2>11. CASE CopyBegin(t)
    BY <2>11 DEF CopyBegin
  <2>12. CASE CopyEnd(t)
    <3>1. CASE pc' = [pc EXCEPT ![t] = "grow"]
      BY <2>12, <3>1 DEF CopyEnd
    <3>2. CASE pc' = [pc EXCEPT ![t] = "abort"]
      BY <2>12, <3>2 DEF CopyEnd
    <3> QED BY <2>12, <3>1, <3>2 DEF CopyEnd
  <2>13. CASE Grow(t)
    <3>1. [mem EXCEPT !.initialized = TRUE] \in Metadata
      OBVIOUS
    <3> QED BY <2>13, <3>1 DEF Grow, Marshal
  <2>14. CASE GrowFails(t)
    BY <2>14 DEF GrowFails
  <2>15. CASE InitSave(t)
    <3>1. stale' \in BOOLEAN
      BY <2>15 DEF InitSave, Rename, RenameFails
    <3> QED BY <2>15, <3>1 DEF InitSave, Rename, RenameFails
  <2>16. CASE CheckRunning(t)
    <3>1. CASE Running
      BY <2>16, <3>1, ReturnTypes DEF CheckRunning
    <3>2. CASE ~Running
      BY <2>16, <3>2 DEF CheckRunning
    <3> QED BY <3>1, <3>2
  <2>17. CASE StartProcess(t)
    BY <2>17 DEF StartProcess
  <2>18. CASE OpenFifo(t)
    BY <2>18 DEF OpenFifo
  <2>19. CASE Spawn(t)
    BY <2>19 DEF Spawn, Live, VmmState, FreeVmm
  <2>20. CASE SocketAppears(t)
    BY <2>20 DEF SocketAppears
  <2>21. CASE Configure(t)
    BY <2>21 DEF Configure, Live, VmmState, Configurable
  <2>22. CASE ConfigureFails(t)
    BY <2>22 DEF ConfigureFails
  <2>23. CASE Boot(t)
    BY <2>23, ReturnTypes DEF Boot, Live, VmmState, Bootable
  <2>24. CASE BootFails(t)
    BY <2>24 DEF BootFails, Live, VmmState, Bootable
  <2>25. CASE Abort(t)
    <3>1. console' \in {"detached", "failed", "attached", "dead"}
      BY <2>25 DEF Abort
    <3> QED BY <2>25, <3>1, ReturnTypes DEF Abort
  <2>26. CASE Unwant(t)
    BY <2>26 DEF Unwant, Marshal
  <2>27. CASE StopSave(t)
    <3>1. stale' \in BOOLEAN
      BY <2>27 DEF StopSave, Rename, RenameFails
    <3> QED BY <2>27, <3>1 DEF StopSave, Rename, RenameFails
  <2>28. CASE DetachConsole(t)
    <3>1. console' \in {"detached", "failed", "attached", "dead"}
      BY <2>28 DEF DetachConsole
    <3>2. CASE op[t] = "stop"
      BY <2>28, <3>1, <3>2 DEF DetachConsole
    <3>3. CASE op[t] = "reboot"
      BY <2>28, <3>1, <3>3 DEF DetachConsole
    <3>4. CASE op[t] = "snapshot"
      BY <2>28, <3>1, <3>4 DEF DetachConsole
    <3> QED BY <2>28, <3>2, <3>3, <3>4 DEF DetachConsole
  <2>29. CASE Halt(t)
    BY <2>29 DEF Halt, Halted
  <2>30. CASE Kill(t)
    BY <2>30 DEF Kill, Halted
  <2>31. CASE SigKill(t)
    BY <2>31 DEF SigKill, Live, VmmState, Halted, Running
  <2>32. CASE End(t)
    BY <2>32 DEF End, Marshal
  <2>33. CASE EndSave(t)
    <3>1. stale' \in BOOLEAN
      BY <2>33 DEF EndSave, Rename, RenameFails
    <3> QED BY <2>33, <3>1 DEF EndSave, Rename, RenameFails
  <2>34. CASE DeleteNetwork(t)
    BY <2>34, ReturnTypes DEF DeleteNetwork
  <2>35. CASE LockSnapshots(t)
    BY <2>35 DEF LockSnapshots
  <2>36. CASE CopyRootfs(t)
    <3>1. CASE rootfs = "none" \/ reflink
      <4>1. Return(t) /\ UNCHANGED <<mem, store, machine, history>>
        BY <2>36, <3>1 DEF CopyRootfs
      <4>2. /\ created' \in BOOLEAN /\ stale' \in BOOLEAN /\ reflink' \in BOOLEAN
            /\ console' \in {"detached", "failed", "attached", "dead"}
            /\ mem' \in Metadata /\ disk' \in Metadata /\ rootfs' \in {"none", "raw", "ready"}
            /\ pid' \in Vmm \cup {None} /\ socket' \in Vmm \cup {None}
            /\ tap' \in Vmm \cup {"absent", "free"} /\ overlap' \in {"never", "before", "since"}
            /\ vmm' \in [Vmm -> VmmState \cup {"none"}]
        BY <4>1
      <4>3. Return(t)
        BY <4>1
      <4>4. /\ pc' = [pc EXCEPT ![t] = "idle"] /\ Shape'
            /\ op' \in [Thread -> Operation \cup {"recover", "none"}]
            /\ buf' \in [Thread -> Metadata] /\ serving' \in BOOLEAN
            /\ mutex' \in {h \in Handler : op'[h] = "snapshot"} \cup {None}
        BY <4>3, ReturnTypes
      <4> QED BY <4>2, <4>4
    <3>2. CASE ~(rootfs = "none" \/ reflink)
      BY <2>36, <3>2 DEF CopyRootfs
    <3> QED BY <3>1, <3>2
  <2>37. CASE OfflineCopied(t)
    BY <2>37 DEF OfflineCopied
  <2>38. CASE ColdCopied(t)
    BY <2>38, ReturnTypes DEF ColdCopied
  <2>39. CASE KillSelf(t)
    BY <2>39, <1>2 DEF KillSelf
  <2>40. CASE IPSaveFails(t)
    BY <2>40, ReturnTypes DEF IPSaveFails
  <2>41. CASE CloneRootfsFails(t)
    BY <2>41 DEF CloneRootfsFails
  <2>42. CASE SpawnFails(t)
    BY <2>42 DEF SpawnFails
  <2> QED
    BY <1>3, <2>1, <2>2, <2>3, <2>4, <2>5, <2>6, <2>7, <2>8, <2>9, <2>10, <2>11, <2>12,
       <2>13, <2>14, <2>15, <2>16, <2>17, <2>18, <2>19, <2>20, <2>21, <2>22, <2>23, <2>24,
       <2>25, <2>26, <2>27, <2>28, <2>29, <2>30, <2>31, <2>32, <2>33, <2>34, <2>35, <2>36,
       <2>37, <2>38, <2>39, <2>40, <2>41, <2>42
    DEF Step
<1>4. ASSUME NEW h \in Handler, NEW o \in Operation, Request(h, o) PROVE TypeInv'
  BY <1>4 DEF Request, Entry
<1>5. ASSUME NEW v \in Vmm, Bind(v) PROVE TypeInv'
  BY <1>5 DEF Bind, Exits, Live, VmmState
<1>6. ASSUME NEW v \in Vmm, GuestExits(v) PROVE TypeInv'
  BY <1>6 DEF GuestExits, Exits, Live, VmmState
<1>7. CASE Crash
  BY <1>2, <1>7 DEF Crash
<1>8. ASSUME NEW t \in Thread, OpenFifoAnyway(t) PROVE TypeInv'
  BY <1>8 DEF OpenFifoAnyway
<1>9. ASSUME NEW v \in Vmm, Dies(v) PROVE TypeInv'
  BY <1>9 DEF Dies, Exits, Live, VmmState
<1>10. ASSUME NEW v \in Vmm, Reap(v) PROVE TypeInv'
  BY <1>10 DEF Reap, Live, VmmState
<1>11. CASE ReaderDies
  BY <1>11 DEF ReaderDies
<1> QED
  BY <1>1, <1>3, <1>4, <1>5, <1>6, <1>7, <1>8, <1>9, <1>10, <1>11 DEF Next

\* Every variable of the lifecycle model keeps its type, and only a snapshot
\* holds the snapshot mutex (Runtime, Firecracker, Metadata).
THEOREM TypeCorrect == Spec => []TypeOK
<1>1. TypeInv => TypeOK
  BY DEF TypeInv
<1> QED
  BY <1>1, TypeInit, TypeStep, PTL DEF Spec

(***************************************************************************)
(* The rootfs.                                                             *)
(***************************************************************************)

\* Recovery is over before a request comes in, and while no two handlers have
\* overlapped only one goroutine is busy.
Alone ==
    /\ serving => pc[Main] = "idle"
    /\ ~serving => \A h \in Handler : pc[h] = "idle"
    /\ overlap = "never" => \A t, u \in Thread : pc[t] # "idle" /\ pc[u] # "idle" => t = u

LEMMA AloneStep == TypeInv /\ Alone /\ [Next]_vars => Alone'
<1> SUFFICES ASSUME TypeInv, Alone, [Next]_vars PROVE Alone'
  OBVIOUS
<1> USE ThreadAssumption DEF TypeInv, TypeOK, Alone, threads, machine, store, history
<1>1. CASE UNCHANGED vars
  BY <1>1 DEF vars
<1>2. ASSUME Restart PROVE Alone'
  BY <1>2 DEF Restart
<1>3. ASSUME NEW t \in Thread, Step(t) PROVE Alone'
  <2>1. CASE Want(t)
    BY <2>1 DEF Want, Marshal
  <2>2. CASE WantSave(t)
    BY <2>2 DEF WantSave, Rename, RenameFails
  <2>3. CASE CreateNetwork(t)
    BY <2>3 DEF CreateNetwork, MakeTap
  <2>4. CASE CreateNetworkFails(t)
    BY <2>4 DEF CreateNetworkFails, MakeTap, Return
  <2>5. CASE ApplyPublicIPs(t)
    BY <2>5 DEF ApplyPublicIPs, Marshal
  <2>6. CASE IPSave(t)
    BY <2>6 DEF IPSave, Rename
  <2>7. CASE AttachConsole(t)
    BY <2>7 DEF AttachConsole
  <2>8. CASE CloneRootfs(t)
    BY <2>8 DEF CloneRootfs
  <2>9. CASE ResolveImageFails(t)
    BY <2>9 DEF ResolveImageFails
  <2>10. CASE CopyStat(t)
    BY <2>10 DEF CopyStat
  <2>11. CASE CopyBegin(t)
    BY <2>11 DEF CopyBegin
  <2>12. CASE CopyEnd(t)
    BY <2>12 DEF CopyEnd
  <2>13. CASE Grow(t)
    BY <2>13 DEF Grow, Marshal
  <2>14. CASE GrowFails(t)
    BY <2>14 DEF GrowFails
  <2>15. CASE InitSave(t)
    BY <2>15 DEF InitSave, Rename, RenameFails
  <2>16. CASE CheckRunning(t)
    BY <2>16 DEF CheckRunning, Return
  <2>17. CASE StartProcess(t)
    BY <2>17 DEF StartProcess
  <2>18. CASE OpenFifo(t)
    BY <2>18 DEF OpenFifo
  <2>19. CASE Spawn(t)
    BY <2>19 DEF Spawn, Live, VmmState, FreeVmm
  <2>20. CASE SocketAppears(t)
    BY <2>20 DEF SocketAppears
  <2>21. CASE Configure(t)
    BY <2>21 DEF Configure, Live, VmmState, Configurable
  <2>22. CASE ConfigureFails(t)
    BY <2>22 DEF ConfigureFails
  <2>23. CASE Boot(t)
    BY <2>23 DEF Boot, Live, VmmState, Bootable, Return
  <2>24. CASE BootFails(t)
    BY <2>24 DEF BootFails, Live, VmmState, Bootable
  <2>25. CASE Abort(t)
    BY <2>25 DEF Abort, Return
  <2>26. CASE Unwant(t)
    BY <2>26 DEF Unwant, Marshal
  <2>27. CASE StopSave(t)
    BY <2>27 DEF StopSave, Rename, RenameFails
  <2>28. CASE DetachConsole(t)
    BY <2>28 DEF DetachConsole
  <2>29. CASE Halt(t)
    BY <2>29 DEF Halt, Halted
  <2>30. CASE Kill(t)
    BY <2>30 DEF Kill, Halted
  <2>31. CASE SigKill(t)
    BY <2>31 DEF SigKill, Live, VmmState, Halted, Running
  <2>32. CASE End(t)
    BY <2>32 DEF End, Marshal
  <2>33. CASE EndSave(t)
    BY <2>33 DEF EndSave, Rename, RenameFails
  <2>34. CASE DeleteNetwork(t)
    BY <2>34 DEF DeleteNetwork, Return
  <2>35. CASE LockSnapshots(t)
    BY <2>35 DEF LockSnapshots
  <2>36. CASE CopyRootfs(t)
    BY <2>36 DEF CopyRootfs, Return
  <2>37. CASE OfflineCopied(t)
    BY <2>37 DEF OfflineCopied
  <2>38. CASE ColdCopied(t)
    BY <2>38 DEF ColdCopied, Return
  <2>39. CASE KillSelf(t)
    BY <2>39, <1>2 DEF KillSelf
  <2>40. CASE IPSaveFails(t)
    BY <2>40 DEF IPSaveFails, Return
  <2>41. CASE CloneRootfsFails(t)
    BY <2>41 DEF CloneRootfsFails
  <2>42. CASE SpawnFails(t)
    BY <2>42 DEF SpawnFails
  <2> QED
    BY <1>3, <2>1, <2>2, <2>3, <2>4, <2>5, <2>6, <2>7, <2>8, <2>9, <2>10, <2>11, <2>12,
       <2>13, <2>14, <2>15, <2>16, <2>17, <2>18, <2>19, <2>20, <2>21, <2>22, <2>23, <2>24,
       <2>25, <2>26, <2>27, <2>28, <2>29, <2>30, <2>31, <2>32, <2>33, <2>34, <2>35, <2>36,
       <2>37, <2>38, <2>39, <2>40, <2>41, <2>42
    DEF Step
<1>4. ASSUME NEW h \in Handler, NEW o \in Operation, Request(h, o) PROVE Alone'
  BY <1>4 DEF Request, Entry
<1>5. ASSUME NEW v \in Vmm, Bind(v) PROVE Alone'
  BY <1>5 DEF Bind, Exits, Live, VmmState
<1>6. ASSUME NEW v \in Vmm, GuestExits(v) PROVE Alone'
  BY <1>6 DEF GuestExits, Exits, Live, VmmState
<1>7. CASE Crash
  BY <1>2, <1>7 DEF Crash
<1>8. ASSUME NEW t \in Thread, OpenFifoAnyway(t) PROVE Alone'
  BY <1>8 DEF OpenFifoAnyway
<1>9. ASSUME NEW v \in Vmm, Dies(v) PROVE Alone'
  BY <1>9 DEF Dies, Exits, Live, VmmState
<1>10. ASSUME NEW v \in Vmm, Reap(v) PROVE Alone'
  BY <1>10 DEF Reap, Live, VmmState
<1>11. CASE ReaderDies
  BY <1>11 DEF ReaderDies
<1> QED
  BY <1>1, <1>3, <1>4, <1>5, <1>6, <1>7, <1>8, <1>9, <1>10, <1>11 DEF Next

\* The part of Start after the rootfs is made.
After == {"initsave", "check", "recheck", "fifo", "spawn", "socket", "configure", "boot"}

\* Everything that says "initialized" says it of a rootfs that is ready, and
\* one goroutine at most is making one.
Ready ==
    /\ mem.initialized \/ disk.initialized => rootfs = "ready"
    /\ \A t \in Thread : buf[t].initialized => rootfs = "ready"
    /\ \A t \in Thread : pc[t] \in After => rootfs = "ready"
    /\ \A v \in Vmm : vmm[v] \in {"configured", "booted", "dying"} => rootfs = "ready"
    /\ \A t \in Thread : pc[t] \in {"grow", "cpend"} => rootfs = "raw"
    /\ \A t \in Thread : pc[t] \in {"copystat", "cp"} => rootfs = "none"
    /\ \A t \in Thread : pc[t] \in {"copystat", "cp", "cpend"} => ~reflink
    /\ \A t, u \in Thread : pc[t] = "grow" /\ pc[u] = "grow" => t = u

RootfsInv == TypeInv /\ Alone /\ (OneMaker => Ready)

LEMMA RootfsInit == Init => RootfsInv
<1> SUFFICES ASSUME Init PROVE RootfsInv
  OBVIOUS
<1>1. TypeInv
  BY TypeInit
<1>2. Alone
  BY ThreadAssumption DEF Init, Alone
<1>3. Ready
  BY DEF Init, Ready, After
<1> QED
  BY <1>1, <1>2, <1>3 DEF RootfsInv

\* OneMaker never becomes true.
LEMMA OneMakerStep == [Next]_vars /\ OneMaker' => OneMaker
BY DEF OneMaker, Next, Step, vars, threads, machine, store, history, Request, Bind, GuestExits, Dies, Reap, Exits,
       ReaderDies, OpenFifoAnyway, Crash, Restart, history, RenameFails, IPSaveFails,
       CloneRootfsFails, SpawnFails, MakeTap, KillSelf, Want, WantSave, CreateNetwork, CreateNetworkFails, ApplyPublicIPs,
       IPSave, AttachConsole,
       CloneRootfs, ResolveImageFails, CopyStat, CopyBegin, CopyEnd, Grow, GrowFails, InitSave,
       CheckRunning, StartProcess, OpenFifo, Spawn, SocketAppears, Configure, ConfigureFails, Boot,
       BootFails, Abort, Unwant, StopSave, DetachConsole, Halt, Kill, SigKill, End, EndSave,
       DeleteNetwork, LockSnapshots, CopyRootfs, OfflineCopied, ColdCopied, Rename

LEMMA ReadyStep == RootfsInv /\ OneMaker' /\ [Next]_vars => Ready'
<1> SUFFICES ASSUME RootfsInv, OneMaker', [Next]_vars PROVE Ready'
  OBVIOUS
<1>0. OneMaker /\ Ready
  BY OneMakerStep DEF RootfsInv
<1> USE <1>0 DEF RootfsInv, TypeInv, TypeOK, Ready, After, threads, machine, store, history
<1>1. CASE UNCHANGED vars
  BY <1>1 DEF vars
<1>2. ASSUME Restart PROVE Ready'
  BY <1>2 DEF Restart
<1>3. ASSUME NEW t \in Thread, Step(t) PROVE Ready'
  <2>1. CASE Want(t)
    BY <2>1 DEF Want, Marshal
  <2>2. CASE WantSave(t)
    BY <2>2 DEF WantSave, Rename, RenameFails
  <2>3. CASE CreateNetwork(t)
    BY <2>3 DEF CreateNetwork, MakeTap
  <2>4. CASE CreateNetworkFails(t)
    BY <2>4 DEF CreateNetworkFails, MakeTap, Return
  <2>5. CASE ApplyPublicIPs(t)
    BY <2>5 DEF ApplyPublicIPs, Marshal
  <2>6. CASE IPSave(t)
    BY <2>6 DEF IPSave, Rename
  <2>7. CASE AttachConsole(t)
    BY <2>7 DEF AttachConsole
  <2>8. CASE CloneRootfs(t)
    BY <2>8 DEF CloneRootfs
  <2>9. CASE ResolveImageFails(t)
    BY <2>9 DEF ResolveImageFails
  <2>10. CASE CopyStat(t)
    BY <2>10 DEF CopyStat
  <2>11. CASE CopyBegin(t)
    <3>1. \A u \in Thread : pc[u] # "idle" => u = t
      BY <2>11, <1>0 DEF CopyBegin, OneMaker, Alone
    <3> QED BY <2>11, <3>1 DEF CopyBegin
  <2>12. CASE CopyEnd(t)
    <3>1. \A u \in Thread : pc[u] # "idle" => u = t
      BY <2>12, <1>0 DEF CopyEnd, OneMaker, Alone
    <3>2. CASE rootfs' = rootfs /\ pc' = [pc EXCEPT ![t] = "grow"]
      BY <2>12, <3>1, <3>2 DEF CopyEnd
    <3>3. CASE rootfs' = "none" /\ pc' = [pc EXCEPT ![t] = "abort"]
      BY <2>12, <3>1, <3>3 DEF CopyEnd
    <3> QED BY <2>12, <3>2, <3>3 DEF CopyEnd
  <2>13. CASE Grow(t)
    <3>1. \A u \in Thread : pc[u] \in {"grow", "cpend", "copystat", "cp"} => u = t
      BY <2>13, <1>0 DEF Grow, OneMaker, Alone
    <3>2. rootfs' = "ready" /\ pc' = [pc EXCEPT ![t] = "initsave"]
      BY <2>13 DEF Grow, Marshal
    <3> QED BY <2>13, <3>1, <3>2 DEF Grow, Marshal
  <2>14. CASE GrowFails(t)
    BY <2>14 DEF GrowFails
  <2>15. CASE InitSave(t)
    BY <2>15 DEF InitSave, Rename, RenameFails
  <2>16. CASE CheckRunning(t)
    BY <2>16 DEF CheckRunning, Return
  <2>17. CASE StartProcess(t)
    BY <2>17 DEF StartProcess
  <2>18. CASE OpenFifo(t)
    BY <2>18 DEF OpenFifo
  <2>19. CASE Spawn(t)
    BY <2>19 DEF Spawn, Live, VmmState, FreeVmm
  <2>20. CASE SocketAppears(t)
    BY <2>20 DEF SocketAppears
  <2>21. CASE Configure(t)
    BY <2>21 DEF Configure, Live, VmmState, Configurable
  <2>22. CASE ConfigureFails(t)
    BY <2>22 DEF ConfigureFails
  <2>23. CASE Boot(t)
    BY <2>23 DEF Boot, Live, VmmState, Bootable, Return
  <2>24. CASE BootFails(t)
    BY <2>24 DEF BootFails, Live, VmmState, Bootable
  <2>25. CASE Abort(t)
    BY <2>25 DEF Abort, Return
  <2>26. CASE Unwant(t)
    BY <2>26 DEF Unwant, Marshal
  <2>27. CASE StopSave(t)
    BY <2>27 DEF StopSave, Rename, RenameFails
  <2>28. CASE DetachConsole(t)
    <3>1. UNCHANGED <<buf, mem, store, vmm>>
      BY <2>28 DEF DetachConsole
    <3>2. \E p \in {"halt", "want", "copy"} : pc' = [pc EXCEPT ![t] = p]
      <4>1. CASE op[t] = "stop"
        BY <2>28, <4>1 DEF DetachConsole
      <4>2. CASE op[t] = "reboot"
        BY <2>28, <4>2 DEF DetachConsole
      <4>3. CASE op[t] = "snapshot"
        BY <2>28, <4>3 DEF DetachConsole
      <4> QED BY <2>28, <4>1, <4>2, <4>3 DEF DetachConsole, Shape
    <3> QED BY <3>1, <3>2
  <2>29. CASE Halt(t)
    BY <2>29 DEF Halt, Halted
  <2>30. CASE Kill(t)
    BY <2>30 DEF Kill, Halted
  <2>31. CASE SigKill(t)
    BY <2>31 DEF SigKill, Live, VmmState, Halted, Running
  <2>32. CASE End(t)
    BY <2>32 DEF End, Marshal
  <2>33. CASE EndSave(t)
    BY <2>33 DEF EndSave, Rename, RenameFails
  <2>34. CASE DeleteNetwork(t)
    BY <2>34 DEF DeleteNetwork, Return
  <2>35. CASE LockSnapshots(t)
    BY <2>35 DEF LockSnapshots
  <2>36. CASE CopyRootfs(t)
    BY <2>36 DEF CopyRootfs, Return
  <2>37. CASE OfflineCopied(t)
    BY <2>37 DEF OfflineCopied
  <2>38. CASE ColdCopied(t)
    BY <2>38 DEF ColdCopied, Return
  <2>39. CASE KillSelf(t)
    BY <2>39, <1>2 DEF KillSelf
  <2>40. CASE IPSaveFails(t)
    BY <2>40 DEF IPSaveFails, Return
  <2>41. CASE CloneRootfsFails(t)
    BY <2>41 DEF CloneRootfsFails
  <2>42. CASE SpawnFails(t)
    BY <2>42 DEF SpawnFails
  <2> QED
    BY <1>3, <2>1, <2>2, <2>3, <2>4, <2>5, <2>6, <2>7, <2>8, <2>9, <2>10, <2>11, <2>12,
       <2>13, <2>14, <2>15, <2>16, <2>17, <2>18, <2>19, <2>20, <2>21, <2>22, <2>23, <2>24,
       <2>25, <2>26, <2>27, <2>28, <2>29, <2>30, <2>31, <2>32, <2>33, <2>34, <2>35, <2>36,
       <2>37, <2>38, <2>39, <2>40, <2>41, <2>42
    DEF Step
<1>4. ASSUME NEW h \in Handler, NEW o \in Operation, Request(h, o) PROVE Ready'
  <2>1. PICK p \in {"want", "unwant", "halt", "lock"} : pc' = [pc EXCEPT ![h] = p]
    BY <1>4, OperationAssumption DEF Request, Entry
  <2> QED BY <1>4, <2>1 DEF Request
<1>5. ASSUME NEW v \in Vmm, Bind(v) PROVE Ready'
  BY <1>5 DEF Bind, Exits, Live, VmmState
<1>6. ASSUME NEW v \in Vmm, GuestExits(v) PROVE Ready'
  BY <1>6 DEF GuestExits, Exits, Live, VmmState
<1>7. CASE Crash
  BY <1>2, <1>7 DEF Crash
<1>8. ASSUME NEW t \in Thread, OpenFifoAnyway(t) PROVE Ready'
  BY <1>8 DEF OpenFifoAnyway
<1>9. ASSUME NEW v \in Vmm, Dies(v) PROVE Ready'
  BY <1>9 DEF Dies, Exits, Live, VmmState
<1>10. ASSUME NEW v \in Vmm, Reap(v) PROVE Ready'
  BY <1>10 DEF Reap, Live, VmmState
<1>11. CASE ReaderDies
  BY <1>11 DEF ReaderDies
<1> QED
  BY <1>1, <1>3, <1>4, <1>5, <1>6, <1>7, <1>8, <1>9, <1>10, <1>11 DEF Next

LEMMA RootfsStep == RootfsInv /\ [Next]_vars => RootfsInv'
BY TypeStep, AloneStep, ReadyStep DEF RootfsInv

\* An initialized VM has a rootfs that was cloned and grown to the end, and no
\* guest boots from another one: for any number of requests at a time where the
\* filesystem can clone, for requests one at a time where it cannot
\* (Runtime.initialize, PrepareRootfs).
THEOREM RootfsComplete == Spec => []ImageReady
<1>1. RootfsInv => ImageReady
  BY DEF RootfsInv, Ready, ImageReady, Booted
<1> QED
  BY <1>1, RootfsInit, RootfsStep, PTL DEF Spec

LEMMA KeptStep ==
    RootfsInv /\ [Next]_vars => (OneMaker /\ disk.initialized => rootfs' = rootfs)
<1> SUFFICES ASSUME RootfsInv, [Next]_vars, OneMaker, disk.initialized PROVE rootfs' = rootfs
  OBVIOUS
<1>1. rootfs = "ready"
  BY DEF RootfsInv, Ready
<1>2. \A t \in Thread : pc[t] \notin {"copystat", "cp", "cpend", "grow"}
  BY <1>1 DEF RootfsInv, Ready
<1>3. ASSUME NEW t \in Thread, Step(t) PROVE rootfs' = rootfs
  <2>1. ~(CopyBegin(t) \/ CopyEnd(t) \/ Grow(t))
    BY <1>2 DEF CopyBegin, CopyEnd, Grow
  <2>2. CASE CloneRootfs(t)
    BY <1>1, <2>2 DEF CloneRootfs
  <2>3. ~CloneRootfsFails(t)
    BY <1>1 DEF CloneRootfsFails
  <2> QED
    BY <1>3, <2>1, <2>2, <2>3
    DEF Step, store, machine, RenameFails, IPSaveFails, SpawnFails, Want, WantSave, CreateNetwork, CreateNetworkFails, ApplyPublicIPs,
        IPSave, AttachConsole,
        ResolveImageFails, CopyStat, GrowFails, InitSave, CheckRunning, StartProcess, OpenFifo,
        Spawn, SocketAppears, Configure, ConfigureFails, Boot, BootFails, Abort, Unwant, StopSave,
        DetachConsole, Halt, Kill, SigKill, End, EndSave, DeleteNetwork, LockSnapshots, CopyRootfs,
        OfflineCopied, ColdCopied, Rename, KillSelf, Restart
<1> QED
  BY <1>3 DEF Next, vars, store, Request, Bind, GuestExits, Dies, Reap, ReaderDies, OpenFifoAnyway, Crash,
         Restart

\* Nothing replaces or removes the disk of an initialized VM: a start, a retry,
\* a restart or a second start at the same time leaves the guest's data alone
\* (the O_EXCL open of cloneFile, the stat of copyFile).
THEOREM DiskKept == Spec => RootfsKept
<1>1. RootfsInv /\ [Next]_vars => [OneMaker /\ disk.initialized => rootfs' = rootfs]_vars
  BY KeptStep
<1> QED
  BY <1>1, RootfsInit, RootfsStep, PTL DEF Spec, RootfsKept

-----------------------------------------------------------------------------
(* Requests that come one after another.                                   *)

OneBusy == \A t, u \in Thread : pc[t] # "idle" /\ pc[u] # "idle" => t = u

Saving == {"wantsave", "ipsave", "initsave", "stopsave", "endsave"}

\* Between marshalling and renaming, and after a save that failed, file and
\* memory may differ; at no other time.
Saved == /\ \A t \in Thread : pc[t] \in Saving => buf[t] = mem
         /\ ~stale /\ (\A t \in Thread : pc[t] \notin Saving) => disk = mem

Wanted == \A t \in Thread : pc[t] \in Starting \ {"want"} => mem.desired = "running"

\* What belongs to Stop alone.
Stops == \A t \in Thread :
    /\ pc[t] \in {"unwant", "stopsave", "end", "endsave", "delete"} => op[t] = "stop"
    /\ op[t] = "stop" => pc[t] \in Stopping

\* A stop does not forget what it has decided.
Stopped == \A t \in Thread : op[t] = "stop" /\ pc[t] # "unwant" => mem.desired = "stopped"

\* The runtime knows every process that nobody has told to die, ...
OneVmm == \A v \in Vmm : vmm[v] \in Live => v = pid

Empty == \A v \in Vmm : vmm[v] \notin Live

\* ... so that what it takes for halted is halted, ...
Emptied == \A t \in Thread :
    \/ pc[t] \in {"fifo", "spawn", "copy", "coldcopy", "end", "endsave", "delete"}
    \/ pc[t] = "detach" /\ op[t] # "stop"
    => Empty

\* ... and a VM that is not wanted has no process once its stop has halted it.
Unwanted ==
    /\ mem.desired = "stopped"
    /\ \A t \in Thread :
          op[t] = "stop" => pc[t] \notin {"stopsave", "detach", "halt", "kill", "sigkill"}
    => Empty

Orderly == OneBusy /\ Saved /\ Wanted /\ Stops /\ Stopped /\ OneVmm /\ Emptied /\ Unwanted

SerialInv == TypeInv /\ Alone /\ (overlap # "since" => Orderly)

LEMMA SerialInit == Init => SerialInv
<1> SUFFICES ASSUME Init PROVE SerialInv
  OBVIOUS
<1>1. TypeInv
  BY TypeInit
<1>2. Alone
  BY ThreadAssumption DEF Init, Alone
<1>3. OneBusy /\ Saved /\ Wanted /\ Stops /\ Stopped
  BY DEF Init, OneBusy, Saved, Saving, Wanted, Stops, Stopped
<1>4. OneVmm /\ Emptied /\ Unwanted
  BY DEF Init, Live, OneVmm, Emptied, Unwanted, Empty
<1> QED
  BY <1>1, <1>2, <1>3, <1>4 DEF SerialInv, Orderly

LEMMA EntryPoint ==
    ASSUME NEW o \in Operation
    PROVE  Entry(o) \in {"want", "unwant", "halt", "lock"} /\ (Entry(o) = "unwant" <=> o = "stop")
<1>1. o \in {"start", "stop", "reboot", "snapshot"}
  BY OperationAssumption
<1> QED
  BY <1>1 DEF Entry

LEMMA DetachPoint ==
    ASSUME TypeInv, NEW t \in Thread, DetachConsole(t)
    PROVE  \/ op[t] = "stop" /\ pc' = [pc EXCEPT ![t] = "halt"]
           \/ op[t] = "reboot" /\ pc' = [pc EXCEPT ![t] = "want"]
           \/ op[t] = "snapshot" /\ pc' = [pc EXCEPT ![t] = "copy"]
<1>1. op[t] \in {"stop", "reboot", "snapshot"}
  BY DEF DetachConsole, TypeInv, Shape
<1>2. CASE op[t] = "stop"
  BY <1>2 DEF DetachConsole
<1>3. CASE op[t] = "reboot"
  BY <1>3 DEF DetachConsole
<1>4. CASE op[t] = "snapshot"
  BY <1>4 DEF DetachConsole
<1> QED
  BY <1>1, <1>2, <1>3, <1>4

LEMMA BusyStep == SerialInv /\ overlap' # "since" /\ [Next]_vars => OneBusy'
<1> SUFFICES ASSUME SerialInv, overlap' # "since", [Next]_vars PROVE OneBusy'
  OBVIOUS
<1> USE ThreadAssumption, VmmAssumption
    DEF SerialInv, TypeInv, TypeOK, Orderly, OneBusy, Alone, threads, machine, store, history
<1>1. CASE UNCHANGED vars
  BY <1>1 DEF vars
<1>2. ASSUME Restart PROVE OneBusy'
  BY <1>2 DEF Restart
<1>3. ASSUME NEW t \in Thread, Step(t) PROVE OneBusy'
  <2>1. CASE Want(t)
    BY <2>1 DEF Want, Marshal
  <2>2. CASE WantSave(t)
    BY <2>2 DEF WantSave, Rename, RenameFails
  <2>3. CASE CreateNetwork(t)
    BY <2>3 DEF CreateNetwork, MakeTap
  <2>4. CASE CreateNetworkFails(t)
    BY <2>4 DEF CreateNetworkFails, MakeTap, Return
  <2>5. CASE ApplyPublicIPs(t)
    BY <2>5 DEF ApplyPublicIPs, Marshal
  <2>6. CASE IPSave(t)
    BY <2>6 DEF IPSave, Rename
  <2>7. CASE AttachConsole(t)
    BY <2>7 DEF AttachConsole
  <2>8. CASE CloneRootfs(t)
    BY <2>8 DEF CloneRootfs
  <2>9. CASE ResolveImageFails(t)
    BY <2>9 DEF ResolveImageFails
  <2>10. CASE CopyStat(t)
    BY <2>10 DEF CopyStat
  <2>11. CASE CopyBegin(t)
    BY <2>11 DEF CopyBegin
  <2>12. CASE CopyEnd(t)
    BY <2>12 DEF CopyEnd
  <2>13. CASE Grow(t)
    BY <2>13 DEF Grow, Marshal
  <2>14. CASE GrowFails(t)
    BY <2>14 DEF GrowFails
  <2>15. CASE InitSave(t)
    BY <2>15 DEF InitSave, Rename, RenameFails
  <2>16. CASE CheckRunning(t)
    BY <2>16 DEF CheckRunning, Return
  <2>17. CASE StartProcess(t)
    BY <2>17 DEF StartProcess
  <2>18. CASE OpenFifo(t)
    BY <2>18 DEF OpenFifo
  <2>19. CASE Spawn(t)
    BY <2>19 DEF Spawn, Live, VmmState, FreeVmm
  <2>20. CASE SocketAppears(t)
    BY <2>20 DEF SocketAppears
  <2>21. CASE Configure(t)
    BY <2>21 DEF Configure, Live, VmmState, Configurable
  <2>22. CASE ConfigureFails(t)
    BY <2>22 DEF ConfigureFails
  <2>23. CASE Boot(t)
    BY <2>23 DEF Boot, Live, VmmState, Bootable, Return
  <2>24. CASE BootFails(t)
    BY <2>24 DEF BootFails, Live, VmmState, Bootable
  <2>25. CASE Abort(t)
    BY <2>25 DEF Abort, Return
  <2>26. CASE Unwant(t)
    BY <2>26 DEF Unwant, Marshal
  <2>27. CASE StopSave(t)
    BY <2>27 DEF StopSave, Rename, RenameFails
  <2>28. CASE DetachConsole(t)
    BY <2>28, DetachPoint DEF DetachConsole
  <2>29. CASE Halt(t)
    BY <2>29 DEF Halt, Halted, Running
  <2>30. CASE Kill(t)
    BY <2>30 DEF Kill, Halted, Running
  <2>31. CASE SigKill(t)
    BY <2>31 DEF SigKill, Live, VmmState, Halted, Running
  <2>32. CASE End(t)
    BY <2>32 DEF End, Marshal
  <2>33. CASE EndSave(t)
    BY <2>33 DEF EndSave, Rename, RenameFails
  <2>34. CASE DeleteNetwork(t)
    BY <2>34 DEF DeleteNetwork, Return
  <2>35. CASE LockSnapshots(t)
    BY <2>35 DEF LockSnapshots
  <2>36. CASE CopyRootfs(t)
    BY <2>36 DEF CopyRootfs, Return
  <2>37. CASE OfflineCopied(t)
    BY <2>37 DEF OfflineCopied
  <2>38. CASE ColdCopied(t)
    BY <2>38 DEF ColdCopied, Return
  <2>39. CASE KillSelf(t)
    BY <2>39, <1>2 DEF KillSelf
  <2>40. CASE IPSaveFails(t)
    BY <2>40 DEF IPSaveFails, Return
  <2>41. CASE CloneRootfsFails(t)
    BY <2>41 DEF CloneRootfsFails
  <2>42. CASE SpawnFails(t)
    BY <2>42 DEF SpawnFails
  <2> QED
    BY <1>3, <2>1, <2>2, <2>3, <2>4, <2>5, <2>6, <2>7, <2>8, <2>9, <2>10, <2>11, <2>12,
       <2>13, <2>14, <2>15, <2>16, <2>17, <2>18, <2>19, <2>20, <2>21, <2>22, <2>23, <2>24,
       <2>25, <2>26, <2>27, <2>28, <2>29, <2>30, <2>31, <2>32, <2>33, <2>34, <2>35, <2>36,
       <2>37, <2>38, <2>39, <2>40, <2>41, <2>42
    DEF Step
<1>4. ASSUME NEW h \in Handler, NEW o \in Operation, Request(h, o) PROVE OneBusy'
  BY <1>4, EntryPoint DEF Request
<1>5. ASSUME NEW v \in Vmm, Bind(v) PROVE OneBusy'
  BY <1>5 DEF Bind, Exits, Live, VmmState
<1>6. ASSUME NEW v \in Vmm, GuestExits(v) PROVE OneBusy'
  BY <1>6 DEF GuestExits, Exits, Live, VmmState
<1>7. CASE Crash
  BY <1>2, <1>7 DEF Crash
<1>8. ASSUME NEW t \in Thread, OpenFifoAnyway(t) PROVE OneBusy'
  BY <1>8 DEF OpenFifoAnyway
<1>9. ASSUME NEW v \in Vmm, Dies(v) PROVE OneBusy'
  BY <1>9 DEF Dies, Exits, Live, VmmState
<1>10. ASSUME NEW v \in Vmm, Reap(v) PROVE OneBusy'
  BY <1>10 DEF Reap, Live, VmmState
<1>11. CASE ReaderDies
  BY <1>11 DEF ReaderDies
<1> QED
  BY <1>1, <1>3, <1>4, <1>5, <1>6, <1>7, <1>8, <1>9, <1>10, <1>11 DEF Next

LEMMA SavedStep == SerialInv /\ overlap' # "since" /\ [Next]_vars => Saved'
<1> SUFFICES ASSUME SerialInv, overlap' # "since", [Next]_vars PROVE Saved'
  OBVIOUS
<1> USE ThreadAssumption, VmmAssumption
    DEF SerialInv, TypeInv, TypeOK, Orderly, OneBusy, Saved, Saving, threads, machine, store, history
<1>1. CASE UNCHANGED vars
  BY <1>1 DEF vars
<1>2. ASSUME Restart PROVE Saved'
  BY <1>2 DEF Restart
<1>3. ASSUME NEW t \in Thread, Step(t) PROVE Saved'
  <2>1. CASE Want(t)
    BY <2>1 DEF Want, Marshal
  <2>2. CASE WantSave(t)
    BY <2>2 DEF WantSave, Rename, RenameFails
  <2>3. CASE CreateNetwork(t)
    BY <2>3 DEF CreateNetwork, MakeTap
  <2>4. CASE CreateNetworkFails(t)
    BY <2>4 DEF CreateNetworkFails, MakeTap, Return
  <2>5. CASE ApplyPublicIPs(t)
    BY <2>5 DEF ApplyPublicIPs, Marshal
  <2>6. CASE IPSave(t)
    BY <2>6 DEF IPSave, Rename
  <2>7. CASE AttachConsole(t)
    BY <2>7 DEF AttachConsole
  <2>8. CASE CloneRootfs(t)
    BY <2>8 DEF CloneRootfs
  <2>9. CASE ResolveImageFails(t)
    BY <2>9 DEF ResolveImageFails
  <2>10. CASE CopyStat(t)
    BY <2>10 DEF CopyStat
  <2>11. CASE CopyBegin(t)
    BY <2>11 DEF CopyBegin
  <2>12. CASE CopyEnd(t)
    BY <2>12 DEF CopyEnd
  <2>13. CASE Grow(t)
    BY <2>13 DEF Grow, Marshal
  <2>14. CASE GrowFails(t)
    BY <2>14 DEF GrowFails
  <2>15. CASE InitSave(t)
    BY <2>15 DEF InitSave, Rename, RenameFails
  <2>16. CASE CheckRunning(t)
    BY <2>16 DEF CheckRunning, Return
  <2>17. CASE StartProcess(t)
    BY <2>17 DEF StartProcess
  <2>18. CASE OpenFifo(t)
    BY <2>18 DEF OpenFifo
  <2>19. CASE Spawn(t)
    BY <2>19 DEF Spawn, Live, VmmState, FreeVmm
  <2>20. CASE SocketAppears(t)
    BY <2>20 DEF SocketAppears
  <2>21. CASE Configure(t)
    BY <2>21 DEF Configure, Live, VmmState, Configurable
  <2>22. CASE ConfigureFails(t)
    BY <2>22 DEF ConfigureFails
  <2>23. CASE Boot(t)
    BY <2>23 DEF Boot, Live, VmmState, Bootable, Return
  <2>24. CASE BootFails(t)
    BY <2>24 DEF BootFails, Live, VmmState, Bootable
  <2>25. CASE Abort(t)
    BY <2>25 DEF Abort, Return
  <2>26. CASE Unwant(t)
    BY <2>26 DEF Unwant, Marshal
  <2>27. CASE StopSave(t)
    BY <2>27 DEF StopSave, Rename, RenameFails
  <2>28. CASE DetachConsole(t)
    BY <2>28, DetachPoint DEF DetachConsole
  <2>29. CASE Halt(t)
    BY <2>29 DEF Halt, Halted, Running
  <2>30. CASE Kill(t)
    BY <2>30 DEF Kill, Halted, Running
  <2>31. CASE SigKill(t)
    BY <2>31 DEF SigKill, Live, VmmState, Halted, Running
  <2>32. CASE End(t)
    BY <2>32 DEF End, Marshal
  <2>33. CASE EndSave(t)
    BY <2>33 DEF EndSave, Rename, RenameFails
  <2>34. CASE DeleteNetwork(t)
    BY <2>34 DEF DeleteNetwork, Return
  <2>35. CASE LockSnapshots(t)
    BY <2>35 DEF LockSnapshots
  <2>36. CASE CopyRootfs(t)
    BY <2>36 DEF CopyRootfs, Return
  <2>37. CASE OfflineCopied(t)
    BY <2>37 DEF OfflineCopied
  <2>38. CASE ColdCopied(t)
    BY <2>38 DEF ColdCopied, Return
  <2>39. CASE KillSelf(t)
    BY <2>39, <1>2 DEF KillSelf
  <2>40. CASE IPSaveFails(t)
    BY <2>40 DEF IPSaveFails, Return
  <2>41. CASE CloneRootfsFails(t)
    BY <2>41 DEF CloneRootfsFails
  <2>42. CASE SpawnFails(t)
    BY <2>42 DEF SpawnFails
  <2> QED
    BY <1>3, <2>1, <2>2, <2>3, <2>4, <2>5, <2>6, <2>7, <2>8, <2>9, <2>10, <2>11, <2>12,
       <2>13, <2>14, <2>15, <2>16, <2>17, <2>18, <2>19, <2>20, <2>21, <2>22, <2>23, <2>24,
       <2>25, <2>26, <2>27, <2>28, <2>29, <2>30, <2>31, <2>32, <2>33, <2>34, <2>35, <2>36,
       <2>37, <2>38, <2>39, <2>40, <2>41, <2>42
    DEF Step
<1>4. ASSUME NEW h \in Handler, NEW o \in Operation, Request(h, o) PROVE Saved'
  BY <1>4, EntryPoint DEF Request
<1>5. ASSUME NEW v \in Vmm, Bind(v) PROVE Saved'
  BY <1>5 DEF Bind, Exits, Live, VmmState
<1>6. ASSUME NEW v \in Vmm, GuestExits(v) PROVE Saved'
  BY <1>6 DEF GuestExits, Exits, Live, VmmState
<1>7. CASE Crash
  BY <1>2, <1>7 DEF Crash
<1>8. ASSUME NEW t \in Thread, OpenFifoAnyway(t) PROVE Saved'
  BY <1>8 DEF OpenFifoAnyway
<1>9. ASSUME NEW v \in Vmm, Dies(v) PROVE Saved'
  BY <1>9 DEF Dies, Exits, Live, VmmState
<1>10. ASSUME NEW v \in Vmm, Reap(v) PROVE Saved'
  BY <1>10 DEF Reap, Live, VmmState
<1>11. CASE ReaderDies
  BY <1>11 DEF ReaderDies
<1> QED
  BY <1>1, <1>3, <1>4, <1>5, <1>6, <1>7, <1>8, <1>9, <1>10, <1>11 DEF Next

LEMMA WantedStep == SerialInv /\ overlap' # "since" /\ [Next]_vars => Wanted'
<1> SUFFICES ASSUME SerialInv, overlap' # "since", [Next]_vars PROVE Wanted'
  OBVIOUS
<1> USE ThreadAssumption, VmmAssumption
    DEF SerialInv, TypeInv, TypeOK, Orderly, OneBusy, Wanted, threads, machine, store, history
<1>1. CASE UNCHANGED vars
  BY <1>1 DEF vars
<1>2. ASSUME Restart PROVE Wanted'
  BY <1>2 DEF Restart
<1>3. ASSUME NEW t \in Thread, Step(t) PROVE Wanted'
  <2>1. CASE Want(t)
    BY <2>1 DEF Want, Marshal
  <2>2. CASE WantSave(t)
    BY <2>2 DEF WantSave, Rename, RenameFails
  <2>3. CASE CreateNetwork(t)
    BY <2>3 DEF CreateNetwork, MakeTap
  <2>4. CASE CreateNetworkFails(t)
    BY <2>4 DEF CreateNetworkFails, MakeTap, Return
  <2>5. CASE ApplyPublicIPs(t)
    BY <2>5 DEF ApplyPublicIPs, Marshal
  <2>6. CASE IPSave(t)
    BY <2>6 DEF IPSave, Rename
  <2>7. CASE AttachConsole(t)
    BY <2>7 DEF AttachConsole
  <2>8. CASE CloneRootfs(t)
    BY <2>8 DEF CloneRootfs
  <2>9. CASE ResolveImageFails(t)
    BY <2>9 DEF ResolveImageFails
  <2>10. CASE CopyStat(t)
    BY <2>10 DEF CopyStat
  <2>11. CASE CopyBegin(t)
    BY <2>11 DEF CopyBegin
  <2>12. CASE CopyEnd(t)
    BY <2>12 DEF CopyEnd
  <2>13. CASE Grow(t)
    BY <2>13 DEF Grow, Marshal
  <2>14. CASE GrowFails(t)
    BY <2>14 DEF GrowFails
  <2>15. CASE InitSave(t)
    BY <2>15 DEF InitSave, Rename, RenameFails
  <2>16. CASE CheckRunning(t)
    BY <2>16 DEF CheckRunning, Return
  <2>17. CASE StartProcess(t)
    BY <2>17 DEF StartProcess
  <2>18. CASE OpenFifo(t)
    BY <2>18 DEF OpenFifo
  <2>19. CASE Spawn(t)
    BY <2>19 DEF Spawn, Live, VmmState, FreeVmm
  <2>20. CASE SocketAppears(t)
    BY <2>20 DEF SocketAppears
  <2>21. CASE Configure(t)
    BY <2>21 DEF Configure, Live, VmmState, Configurable
  <2>22. CASE ConfigureFails(t)
    BY <2>22 DEF ConfigureFails
  <2>23. CASE Boot(t)
    BY <2>23 DEF Boot, Live, VmmState, Bootable, Return
  <2>24. CASE BootFails(t)
    BY <2>24 DEF BootFails, Live, VmmState, Bootable
  <2>25. CASE Abort(t)
    BY <2>25 DEF Abort, Return
  <2>26. CASE Unwant(t)
    BY <2>26 DEF Unwant, Marshal
  <2>27. CASE StopSave(t)
    BY <2>27 DEF StopSave, Rename, RenameFails
  <2>28. CASE DetachConsole(t)
    BY <2>28, DetachPoint DEF DetachConsole
  <2>29. CASE Halt(t)
    BY <2>29 DEF Halt, Halted, Running
  <2>30. CASE Kill(t)
    BY <2>30 DEF Kill, Halted, Running
  <2>31. CASE SigKill(t)
    BY <2>31 DEF SigKill, Live, VmmState, Halted, Running
  <2>32. CASE End(t)
    BY <2>32 DEF End, Marshal
  <2>33. CASE EndSave(t)
    BY <2>33 DEF EndSave, Rename, RenameFails
  <2>34. CASE DeleteNetwork(t)
    BY <2>34 DEF DeleteNetwork, Return
  <2>35. CASE LockSnapshots(t)
    BY <2>35 DEF LockSnapshots
  <2>36. CASE CopyRootfs(t)
    BY <2>36 DEF CopyRootfs, Return
  <2>37. CASE OfflineCopied(t)
    BY <2>37 DEF OfflineCopied
  <2>38. CASE ColdCopied(t)
    BY <2>38 DEF ColdCopied, Return
  <2>39. CASE KillSelf(t)
    BY <2>39, <1>2 DEF KillSelf
  <2>40. CASE IPSaveFails(t)
    BY <2>40 DEF IPSaveFails, Return
  <2>41. CASE CloneRootfsFails(t)
    BY <2>41 DEF CloneRootfsFails
  <2>42. CASE SpawnFails(t)
    BY <2>42 DEF SpawnFails
  <2> QED
    BY <1>3, <2>1, <2>2, <2>3, <2>4, <2>5, <2>6, <2>7, <2>8, <2>9, <2>10, <2>11, <2>12,
       <2>13, <2>14, <2>15, <2>16, <2>17, <2>18, <2>19, <2>20, <2>21, <2>22, <2>23, <2>24,
       <2>25, <2>26, <2>27, <2>28, <2>29, <2>30, <2>31, <2>32, <2>33, <2>34, <2>35, <2>36,
       <2>37, <2>38, <2>39, <2>40, <2>41, <2>42
    DEF Step
<1>4. ASSUME NEW h \in Handler, NEW o \in Operation, Request(h, o) PROVE Wanted'
  BY <1>4, EntryPoint DEF Request
<1>5. ASSUME NEW v \in Vmm, Bind(v) PROVE Wanted'
  BY <1>5 DEF Bind, Exits, Live, VmmState
<1>6. ASSUME NEW v \in Vmm, GuestExits(v) PROVE Wanted'
  BY <1>6 DEF GuestExits, Exits, Live, VmmState
<1>7. CASE Crash
  BY <1>2, <1>7 DEF Crash
<1>8. ASSUME NEW t \in Thread, OpenFifoAnyway(t) PROVE Wanted'
  BY <1>8 DEF OpenFifoAnyway
<1>9. ASSUME NEW v \in Vmm, Dies(v) PROVE Wanted'
  BY <1>9 DEF Dies, Exits, Live, VmmState
<1>10. ASSUME NEW v \in Vmm, Reap(v) PROVE Wanted'
  BY <1>10 DEF Reap, Live, VmmState
<1>11. CASE ReaderDies
  BY <1>11 DEF ReaderDies
<1> QED
  BY <1>1, <1>3, <1>4, <1>5, <1>6, <1>7, <1>8, <1>9, <1>10, <1>11 DEF Next

LEMMA StopsStep == SerialInv /\ overlap' # "since" /\ [Next]_vars => Stops'
<1> SUFFICES ASSUME SerialInv, overlap' # "since", [Next]_vars PROVE Stops'
  OBVIOUS
<1> USE ThreadAssumption, VmmAssumption
    DEF SerialInv, TypeInv, TypeOK, Orderly, OneBusy, Stops, Shape, threads, machine, store, history
<1>1. CASE UNCHANGED vars
  BY <1>1 DEF vars
<1>2. ASSUME Restart PROVE Stops'
  BY <1>2 DEF Restart
<1>3. ASSUME NEW t \in Thread, Step(t) PROVE Stops'
  <2>1. CASE Want(t)
    BY <2>1 DEF Want, Marshal
  <2>2. CASE WantSave(t)
    BY <2>2 DEF WantSave, Rename, RenameFails
  <2>3. CASE CreateNetwork(t)
    BY <2>3 DEF CreateNetwork, MakeTap
  <2>4. CASE CreateNetworkFails(t)
    BY <2>4 DEF CreateNetworkFails, MakeTap, Return
  <2>5. CASE ApplyPublicIPs(t)
    BY <2>5 DEF ApplyPublicIPs, Marshal
  <2>6. CASE IPSave(t)
    BY <2>6 DEF IPSave, Rename
  <2>7. CASE AttachConsole(t)
    BY <2>7 DEF AttachConsole
  <2>8. CASE CloneRootfs(t)
    BY <2>8 DEF CloneRootfs
  <2>9. CASE ResolveImageFails(t)
    BY <2>9 DEF ResolveImageFails
  <2>10. CASE CopyStat(t)
    BY <2>10 DEF CopyStat
  <2>11. CASE CopyBegin(t)
    BY <2>11 DEF CopyBegin
  <2>12. CASE CopyEnd(t)
    BY <2>12 DEF CopyEnd
  <2>13. CASE Grow(t)
    BY <2>13 DEF Grow, Marshal
  <2>14. CASE GrowFails(t)
    BY <2>14 DEF GrowFails
  <2>15. CASE InitSave(t)
    BY <2>15 DEF InitSave, Rename, RenameFails
  <2>16. CASE CheckRunning(t)
    BY <2>16 DEF CheckRunning, Return
  <2>17. CASE StartProcess(t)
    BY <2>17 DEF StartProcess
  <2>18. CASE OpenFifo(t)
    BY <2>18 DEF OpenFifo
  <2>19. CASE Spawn(t)
    BY <2>19 DEF Spawn, Live, VmmState, FreeVmm
  <2>20. CASE SocketAppears(t)
    BY <2>20 DEF SocketAppears
  <2>21. CASE Configure(t)
    BY <2>21 DEF Configure, Live, VmmState, Configurable
  <2>22. CASE ConfigureFails(t)
    BY <2>22 DEF ConfigureFails
  <2>23. CASE Boot(t)
    BY <2>23 DEF Boot, Live, VmmState, Bootable, Return
  <2>24. CASE BootFails(t)
    BY <2>24 DEF BootFails, Live, VmmState, Bootable
  <2>25. CASE Abort(t)
    BY <2>25 DEF Abort, Return
  <2>26. CASE Unwant(t)
    BY <2>26 DEF Unwant, Marshal
  <2>27. CASE StopSave(t)
    BY <2>27 DEF StopSave, Rename, RenameFails
  <2>28. CASE DetachConsole(t)
    BY <2>28, DetachPoint DEF DetachConsole
  <2>29. CASE Halt(t)
    BY <2>29 DEF Halt, Halted, Running
  <2>30. CASE Kill(t)
    BY <2>30 DEF Kill, Halted, Running
  <2>31. CASE SigKill(t)
    BY <2>31 DEF SigKill, Live, VmmState, Halted, Running
  <2>32. CASE End(t)
    BY <2>32 DEF End, Marshal
  <2>33. CASE EndSave(t)
    BY <2>33 DEF EndSave, Rename, RenameFails
  <2>34. CASE DeleteNetwork(t)
    BY <2>34 DEF DeleteNetwork, Return
  <2>35. CASE LockSnapshots(t)
    BY <2>35 DEF LockSnapshots
  <2>36. CASE CopyRootfs(t)
    BY <2>36 DEF CopyRootfs, Return
  <2>37. CASE OfflineCopied(t)
    BY <2>37 DEF OfflineCopied
  <2>38. CASE ColdCopied(t)
    BY <2>38 DEF ColdCopied, Return
  <2>39. CASE KillSelf(t)
    BY <2>39, <1>2 DEF KillSelf
  <2>40. CASE IPSaveFails(t)
    BY <2>40 DEF IPSaveFails, Return
  <2>41. CASE CloneRootfsFails(t)
    BY <2>41 DEF CloneRootfsFails
  <2>42. CASE SpawnFails(t)
    BY <2>42 DEF SpawnFails
  <2> QED
    BY <1>3, <2>1, <2>2, <2>3, <2>4, <2>5, <2>6, <2>7, <2>8, <2>9, <2>10, <2>11, <2>12,
       <2>13, <2>14, <2>15, <2>16, <2>17, <2>18, <2>19, <2>20, <2>21, <2>22, <2>23, <2>24,
       <2>25, <2>26, <2>27, <2>28, <2>29, <2>30, <2>31, <2>32, <2>33, <2>34, <2>35, <2>36,
       <2>37, <2>38, <2>39, <2>40, <2>41, <2>42
    DEF Step
<1>4. ASSUME NEW h \in Handler, NEW o \in Operation, Request(h, o) PROVE Stops'
  BY <1>4, EntryPoint DEF Request
<1>5. ASSUME NEW v \in Vmm, Bind(v) PROVE Stops'
  BY <1>5 DEF Bind, Exits, Live, VmmState
<1>6. ASSUME NEW v \in Vmm, GuestExits(v) PROVE Stops'
  BY <1>6 DEF GuestExits, Exits, Live, VmmState
<1>7. CASE Crash
  BY <1>2, <1>7 DEF Crash
<1>8. ASSUME NEW t \in Thread, OpenFifoAnyway(t) PROVE Stops'
  BY <1>8 DEF OpenFifoAnyway
<1>9. ASSUME NEW v \in Vmm, Dies(v) PROVE Stops'
  BY <1>9 DEF Dies, Exits, Live, VmmState
<1>10. ASSUME NEW v \in Vmm, Reap(v) PROVE Stops'
  BY <1>10 DEF Reap, Live, VmmState
<1>11. CASE ReaderDies
  BY <1>11 DEF ReaderDies
<1> QED
  BY <1>1, <1>3, <1>4, <1>5, <1>6, <1>7, <1>8, <1>9, <1>10, <1>11 DEF Next

LEMMA StoppedStep == SerialInv /\ overlap' # "since" /\ [Next]_vars => Stopped'
<1> SUFFICES ASSUME SerialInv, overlap' # "since", [Next]_vars PROVE Stopped'
  OBVIOUS
<1> USE ThreadAssumption, VmmAssumption
    DEF SerialInv, TypeInv, TypeOK, Orderly, OneBusy, Stopped, Stops, Shape, threads, machine, store, history
<1>1. CASE UNCHANGED vars
  BY <1>1 DEF vars
<1>2. ASSUME Restart PROVE Stopped'
  BY <1>2 DEF Restart
<1>3. ASSUME NEW t \in Thread, Step(t) PROVE Stopped'
  <2>1. CASE Want(t)
    BY <2>1 DEF Want, Marshal
  <2>2. CASE WantSave(t)
    BY <2>2 DEF WantSave, Rename, RenameFails
  <2>3. CASE CreateNetwork(t)
    BY <2>3 DEF CreateNetwork, MakeTap
  <2>4. CASE CreateNetworkFails(t)
    BY <2>4 DEF CreateNetworkFails, MakeTap, Return
  <2>5. CASE ApplyPublicIPs(t)
    BY <2>5 DEF ApplyPublicIPs, Marshal
  <2>6. CASE IPSave(t)
    BY <2>6 DEF IPSave, Rename
  <2>7. CASE AttachConsole(t)
    BY <2>7 DEF AttachConsole
  <2>8. CASE CloneRootfs(t)
    BY <2>8 DEF CloneRootfs
  <2>9. CASE ResolveImageFails(t)
    BY <2>9 DEF ResolveImageFails
  <2>10. CASE CopyStat(t)
    BY <2>10 DEF CopyStat
  <2>11. CASE CopyBegin(t)
    BY <2>11 DEF CopyBegin
  <2>12. CASE CopyEnd(t)
    BY <2>12 DEF CopyEnd
  <2>13. CASE Grow(t)
    BY <2>13 DEF Grow, Marshal
  <2>14. CASE GrowFails(t)
    BY <2>14 DEF GrowFails
  <2>15. CASE InitSave(t)
    BY <2>15 DEF InitSave, Rename, RenameFails
  <2>16. CASE CheckRunning(t)
    BY <2>16 DEF CheckRunning, Return
  <2>17. CASE StartProcess(t)
    BY <2>17 DEF StartProcess
  <2>18. CASE OpenFifo(t)
    BY <2>18 DEF OpenFifo
  <2>19. CASE Spawn(t)
    BY <2>19 DEF Spawn, Live, VmmState, FreeVmm
  <2>20. CASE SocketAppears(t)
    BY <2>20 DEF SocketAppears
  <2>21. CASE Configure(t)
    BY <2>21 DEF Configure, Live, VmmState, Configurable
  <2>22. CASE ConfigureFails(t)
    BY <2>22 DEF ConfigureFails
  <2>23. CASE Boot(t)
    BY <2>23 DEF Boot, Live, VmmState, Bootable, Return
  <2>24. CASE BootFails(t)
    BY <2>24 DEF BootFails, Live, VmmState, Bootable
  <2>25. CASE Abort(t)
    BY <2>25 DEF Abort, Return
  <2>26. CASE Unwant(t)
    BY <2>26 DEF Unwant, Marshal
  <2>27. CASE StopSave(t)
    BY <2>27 DEF StopSave, Rename, RenameFails
  <2>28. CASE DetachConsole(t)
    BY <2>28, DetachPoint DEF DetachConsole
  <2>29. CASE Halt(t)
    BY <2>29 DEF Halt, Halted, Running
  <2>30. CASE Kill(t)
    BY <2>30 DEF Kill, Halted, Running
  <2>31. CASE SigKill(t)
    BY <2>31 DEF SigKill, Live, VmmState, Halted, Running
  <2>32. CASE End(t)
    BY <2>32 DEF End, Marshal
  <2>33. CASE EndSave(t)
    BY <2>33 DEF EndSave, Rename, RenameFails
  <2>34. CASE DeleteNetwork(t)
    BY <2>34 DEF DeleteNetwork, Return
  <2>35. CASE LockSnapshots(t)
    BY <2>35 DEF LockSnapshots
  <2>36. CASE CopyRootfs(t)
    BY <2>36 DEF CopyRootfs, Return
  <2>37. CASE OfflineCopied(t)
    BY <2>37 DEF OfflineCopied
  <2>38. CASE ColdCopied(t)
    BY <2>38 DEF ColdCopied, Return
  <2>39. CASE KillSelf(t)
    BY <2>39, <1>2 DEF KillSelf
  <2>40. CASE IPSaveFails(t)
    BY <2>40 DEF IPSaveFails, Return
  <2>41. CASE CloneRootfsFails(t)
    BY <2>41 DEF CloneRootfsFails
  <2>42. CASE SpawnFails(t)
    BY <2>42 DEF SpawnFails
  <2> QED
    BY <1>3, <2>1, <2>2, <2>3, <2>4, <2>5, <2>6, <2>7, <2>8, <2>9, <2>10, <2>11, <2>12,
       <2>13, <2>14, <2>15, <2>16, <2>17, <2>18, <2>19, <2>20, <2>21, <2>22, <2>23, <2>24,
       <2>25, <2>26, <2>27, <2>28, <2>29, <2>30, <2>31, <2>32, <2>33, <2>34, <2>35, <2>36,
       <2>37, <2>38, <2>39, <2>40, <2>41, <2>42
    DEF Step
<1>4. ASSUME NEW h \in Handler, NEW o \in Operation, Request(h, o) PROVE Stopped'
  BY <1>4, EntryPoint DEF Request
<1>5. ASSUME NEW v \in Vmm, Bind(v) PROVE Stopped'
  BY <1>5 DEF Bind, Exits, Live, VmmState
<1>6. ASSUME NEW v \in Vmm, GuestExits(v) PROVE Stopped'
  BY <1>6 DEF GuestExits, Exits, Live, VmmState
<1>7. CASE Crash
  BY <1>2, <1>7 DEF Crash
<1>8. ASSUME NEW t \in Thread, OpenFifoAnyway(t) PROVE Stopped'
  BY <1>8 DEF OpenFifoAnyway
<1>9. ASSUME NEW v \in Vmm, Dies(v) PROVE Stopped'
  BY <1>9 DEF Dies, Exits, Live, VmmState
<1>10. ASSUME NEW v \in Vmm, Reap(v) PROVE Stopped'
  BY <1>10 DEF Reap, Live, VmmState
<1>11. CASE ReaderDies
  BY <1>11 DEF ReaderDies
<1> QED
  BY <1>1, <1>3, <1>4, <1>5, <1>6, <1>7, <1>8, <1>9, <1>10, <1>11 DEF Next

LEMMA OneVmmStep == SerialInv /\ overlap' # "since" /\ [Next]_vars => OneVmm'
<1> SUFFICES ASSUME SerialInv, overlap' # "since", [Next]_vars PROVE OneVmm'
  OBVIOUS
<1> USE ThreadAssumption, VmmAssumption
    DEF SerialInv, TypeInv, TypeOK, Orderly, OneBusy, OneVmm, Emptied, Empty, threads, machine, store, history
<1>1. CASE UNCHANGED vars
  BY <1>1 DEF vars
<1>2. ASSUME Restart PROVE OneVmm'
  BY <1>2 DEF Restart, Live
<1>3. ASSUME NEW t \in Thread, Step(t) PROVE OneVmm'
  <2>1. CASE Want(t)
    BY <2>1 DEF Want, Marshal
  <2>2. CASE WantSave(t)
    BY <2>2 DEF WantSave, Rename, RenameFails
  <2>3. CASE CreateNetwork(t)
    BY <2>3 DEF CreateNetwork, MakeTap
  <2>4. CASE CreateNetworkFails(t)
    BY <2>4 DEF CreateNetworkFails, MakeTap, Return
  <2>5. CASE ApplyPublicIPs(t)
    BY <2>5 DEF ApplyPublicIPs, Marshal
  <2>6. CASE IPSave(t)
    BY <2>6 DEF IPSave, Rename
  <2>7. CASE AttachConsole(t)
    BY <2>7 DEF AttachConsole
  <2>8. CASE CloneRootfs(t)
    BY <2>8 DEF CloneRootfs
  <2>9. CASE ResolveImageFails(t)
    BY <2>9 DEF ResolveImageFails
  <2>10. CASE CopyStat(t)
    BY <2>10 DEF CopyStat
  <2>11. CASE CopyBegin(t)
    BY <2>11 DEF CopyBegin
  <2>12. CASE CopyEnd(t)
    BY <2>12 DEF CopyEnd
  <2>13. CASE Grow(t)
    BY <2>13 DEF Grow, Marshal
  <2>14. CASE GrowFails(t)
    BY <2>14 DEF GrowFails
  <2>15. CASE InitSave(t)
    BY <2>15 DEF InitSave, Rename, RenameFails
  <2>16. CASE CheckRunning(t)
    BY <2>16 DEF CheckRunning, Return
  <2>17. CASE StartProcess(t)
    BY <2>17 DEF StartProcess, Live
  <2>18. CASE OpenFifo(t)
    BY <2>18 DEF OpenFifo
  <2>19. CASE Spawn(t)
    BY <2>19 DEF Spawn, Live, VmmState, FreeVmm
  <2>20. CASE SocketAppears(t)
    BY <2>20 DEF SocketAppears
  <2>21. CASE Configure(t)
    BY <2>21 DEF Configure, Live, VmmState, Configurable
  <2>22. CASE ConfigureFails(t)
    BY <2>22 DEF ConfigureFails
  <2>23. CASE Boot(t)
    BY <2>23 DEF Boot, Live, VmmState, Bootable, Return
  <2>24. CASE BootFails(t)
    BY <2>24 DEF BootFails, Live, VmmState, Bootable
  <2>25. CASE Abort(t)
    BY <2>25 DEF Abort, Return
  <2>26. CASE Unwant(t)
    BY <2>26 DEF Unwant, Marshal
  <2>27. CASE StopSave(t)
    BY <2>27 DEF StopSave, Rename, RenameFails
  <2>28. CASE DetachConsole(t)
    BY <2>28, DetachPoint DEF DetachConsole
  <2>29. CASE Halt(t)
    BY <2>29 DEF Halt, Live, Halted, Running
  <2>30. CASE Kill(t)
    BY <2>30 DEF Kill, Live, Halted, Running
  <2>31. CASE SigKill(t)
    BY <2>31 DEF SigKill, Live, VmmState, Halted, Running
  <2>32. CASE End(t)
    BY <2>32 DEF End, Marshal
  <2>33. CASE EndSave(t)
    BY <2>33 DEF EndSave, Rename, RenameFails
  <2>34. CASE DeleteNetwork(t)
    BY <2>34 DEF DeleteNetwork, Return
  <2>35. CASE LockSnapshots(t)
    BY <2>35 DEF LockSnapshots
  <2>36. CASE CopyRootfs(t)
    BY <2>36 DEF CopyRootfs, Live, Return
  <2>37. CASE OfflineCopied(t)
    BY <2>37 DEF OfflineCopied
  <2>38. CASE ColdCopied(t)
    BY <2>38 DEF ColdCopied, Return
  <2>39. CASE KillSelf(t)
    BY <2>39, <1>2 DEF KillSelf
  <2>40. CASE IPSaveFails(t)
    BY <2>40 DEF IPSaveFails, Return
  <2>41. CASE CloneRootfsFails(t)
    BY <2>41 DEF CloneRootfsFails
  <2>42. CASE SpawnFails(t)
    BY <2>42 DEF SpawnFails
  <2> QED
    BY <1>3, <2>1, <2>2, <2>3, <2>4, <2>5, <2>6, <2>7, <2>8, <2>9, <2>10, <2>11, <2>12,
       <2>13, <2>14, <2>15, <2>16, <2>17, <2>18, <2>19, <2>20, <2>21, <2>22, <2>23, <2>24,
       <2>25, <2>26, <2>27, <2>28, <2>29, <2>30, <2>31, <2>32, <2>33, <2>34, <2>35, <2>36,
       <2>37, <2>38, <2>39, <2>40, <2>41, <2>42
    DEF Step
<1>4. ASSUME NEW h \in Handler, NEW o \in Operation, Request(h, o) PROVE OneVmm'
  BY <1>4, EntryPoint DEF Request
<1>5. ASSUME NEW v \in Vmm, Bind(v) PROVE OneVmm'
  BY <1>5 DEF Bind, Exits, Live, VmmState
<1>6. ASSUME NEW v \in Vmm, GuestExits(v) PROVE OneVmm'
  BY <1>6 DEF GuestExits, Exits, Live, VmmState
<1>7. CASE Crash
  BY <1>2, <1>7 DEF Crash
<1>8. ASSUME NEW t \in Thread, OpenFifoAnyway(t) PROVE OneVmm'
  BY <1>8 DEF OpenFifoAnyway
<1>9. ASSUME NEW v \in Vmm, Dies(v) PROVE OneVmm'
  BY <1>9 DEF Dies, Exits, Live, VmmState
<1>10. ASSUME NEW v \in Vmm, Reap(v) PROVE OneVmm'
  BY <1>10 DEF Reap, Live, VmmState
<1>11. CASE ReaderDies
  BY <1>11 DEF ReaderDies
<1> QED
  BY <1>1, <1>3, <1>4, <1>5, <1>6, <1>7, <1>8, <1>9, <1>10, <1>11 DEF Next

LEMMA EmptiedStep == SerialInv /\ overlap' # "since" /\ [Next]_vars => Emptied'
<1> SUFFICES ASSUME SerialInv, overlap' # "since", [Next]_vars PROVE Emptied'
  OBVIOUS
<1> USE ThreadAssumption, VmmAssumption
    DEF SerialInv, TypeInv, TypeOK, Orderly, OneBusy, OneVmm, Emptied, Empty, Stops, Shape, Running, threads, machine, store, history
<1>1. CASE UNCHANGED vars
  BY <1>1 DEF vars
<1>2. ASSUME Restart PROVE Emptied'
  BY <1>2 DEF Restart, Live
<1>3. ASSUME NEW t \in Thread, Step(t) PROVE Emptied'
  <2>1. CASE Want(t)
    BY <2>1 DEF Want, Marshal
  <2>2. CASE WantSave(t)
    BY <2>2 DEF WantSave, Rename, RenameFails
  <2>3. CASE CreateNetwork(t)
    BY <2>3 DEF CreateNetwork, MakeTap
  <2>4. CASE CreateNetworkFails(t)
    BY <2>4 DEF CreateNetworkFails, MakeTap, Return
  <2>5. CASE ApplyPublicIPs(t)
    BY <2>5 DEF ApplyPublicIPs, Marshal
  <2>6. CASE IPSave(t)
    BY <2>6 DEF IPSave, Rename
  <2>7. CASE AttachConsole(t)
    BY <2>7 DEF AttachConsole
  <2>8. CASE CloneRootfs(t)
    BY <2>8 DEF CloneRootfs
  <2>9. CASE ResolveImageFails(t)
    BY <2>9 DEF ResolveImageFails
  <2>10. CASE CopyStat(t)
    BY <2>10 DEF CopyStat
  <2>11. CASE CopyBegin(t)
    BY <2>11 DEF CopyBegin
  <2>12. CASE CopyEnd(t)
    BY <2>12 DEF CopyEnd
  <2>13. CASE Grow(t)
    BY <2>13 DEF Grow, Marshal
  <2>14. CASE GrowFails(t)
    BY <2>14 DEF GrowFails
  <2>15. CASE InitSave(t)
    BY <2>15 DEF InitSave, Rename, RenameFails
  <2>16. CASE CheckRunning(t)
    BY <2>16 DEF CheckRunning, Return
  <2>17. CASE StartProcess(t)
    BY <2>17 DEF StartProcess, Live
  <2>18. CASE OpenFifo(t)
    BY <2>18 DEF OpenFifo
  <2>19. CASE Spawn(t)
    BY <2>19 DEF Spawn, Live, VmmState, FreeVmm
  <2>20. CASE SocketAppears(t)
    BY <2>20 DEF SocketAppears
  <2>21. CASE Configure(t)
    BY <2>21 DEF Configure, Live, VmmState, Configurable
  <2>22. CASE ConfigureFails(t)
    BY <2>22 DEF ConfigureFails
  <2>23. CASE Boot(t)
    BY <2>23 DEF Boot, Live, VmmState, Bootable, Return
  <2>24. CASE BootFails(t)
    BY <2>24 DEF BootFails, Live, VmmState, Bootable
  <2>25. CASE Abort(t)
    BY <2>25 DEF Abort, Return
  <2>26. CASE Unwant(t)
    BY <2>26 DEF Unwant, Marshal
  <2>27. CASE StopSave(t)
    BY <2>27 DEF StopSave, Rename, RenameFails
  <2>28. CASE DetachConsole(t)
    BY <2>28, DetachPoint DEF DetachConsole
  <2>29. CASE Halt(t)
    BY <2>29 DEF Halt, Live, Halted, Running
  <2>30. CASE Kill(t)
    BY <2>30 DEF Kill, Live, Halted, Running
  <2>31. CASE SigKill(t)
    BY <2>31 DEF SigKill, Live, VmmState, Halted, Running
  <2>32. CASE End(t)
    BY <2>32 DEF End, Marshal
  <2>33. CASE EndSave(t)
    BY <2>33 DEF EndSave, Rename, RenameFails
  <2>34. CASE DeleteNetwork(t)
    BY <2>34 DEF DeleteNetwork, Return
  <2>35. CASE LockSnapshots(t)
    BY <2>35 DEF LockSnapshots
  <2>36. CASE CopyRootfs(t)
    BY <2>36 DEF CopyRootfs, Live, Return
  <2>37. CASE OfflineCopied(t)
    BY <2>37 DEF OfflineCopied
  <2>38. CASE ColdCopied(t)
    BY <2>38 DEF ColdCopied, Return
  <2>39. CASE KillSelf(t)
    BY <2>39, <1>2 DEF KillSelf
  <2>40. CASE IPSaveFails(t)
    BY <2>40 DEF IPSaveFails, Return
  <2>41. CASE CloneRootfsFails(t)
    BY <2>41 DEF CloneRootfsFails
  <2>42. CASE SpawnFails(t)
    BY <2>42 DEF SpawnFails
  <2> QED
    BY <1>3, <2>1, <2>2, <2>3, <2>4, <2>5, <2>6, <2>7, <2>8, <2>9, <2>10, <2>11, <2>12,
       <2>13, <2>14, <2>15, <2>16, <2>17, <2>18, <2>19, <2>20, <2>21, <2>22, <2>23, <2>24,
       <2>25, <2>26, <2>27, <2>28, <2>29, <2>30, <2>31, <2>32, <2>33, <2>34, <2>35, <2>36,
       <2>37, <2>38, <2>39, <2>40, <2>41, <2>42
    DEF Step
<1>4. ASSUME NEW h \in Handler, NEW o \in Operation, Request(h, o) PROVE Emptied'
  BY <1>4, EntryPoint DEF Request
<1>5. ASSUME NEW v \in Vmm, Bind(v) PROVE Emptied'
  BY <1>5 DEF Bind, Exits, Live, VmmState
<1>6. ASSUME NEW v \in Vmm, GuestExits(v) PROVE Emptied'
  BY <1>6 DEF GuestExits, Exits, Live, VmmState
<1>7. CASE Crash
  BY <1>2, <1>7 DEF Crash
<1>8. ASSUME NEW t \in Thread, OpenFifoAnyway(t) PROVE Emptied'
  BY <1>8 DEF OpenFifoAnyway
<1>9. ASSUME NEW v \in Vmm, Dies(v) PROVE Emptied'
  BY <1>9 DEF Dies, Exits, Live, VmmState
<1>10. ASSUME NEW v \in Vmm, Reap(v) PROVE Emptied'
  BY <1>10 DEF Reap, Live, VmmState
<1>11. CASE ReaderDies
  BY <1>11 DEF ReaderDies
<1> QED
  BY <1>1, <1>3, <1>4, <1>5, <1>6, <1>7, <1>8, <1>9, <1>10, <1>11 DEF Next

LEMMA UnwantedStep == SerialInv /\ overlap' # "since" /\ [Next]_vars => Unwanted'
<1> SUFFICES ASSUME SerialInv, overlap' # "since", [Next]_vars PROVE Unwanted'
  OBVIOUS
<1> USE ThreadAssumption, VmmAssumption
    DEF SerialInv, TypeInv, TypeOK, Orderly, OneBusy, OneVmm, Emptied, Wanted, Unwanted, Empty, Stops, Shape, threads, machine, store, history
<1>1. CASE UNCHANGED vars
  BY <1>1 DEF vars
<1>2. ASSUME Restart PROVE Unwanted'
  BY <1>2 DEF Restart, Live
<1>3. ASSUME NEW t \in Thread, Step(t) PROVE Unwanted'
  <2>1. CASE Want(t)
    BY <2>1 DEF Want, Marshal
  <2>2. CASE WantSave(t)
    BY <2>2 DEF WantSave, Rename, RenameFails
  <2>3. CASE CreateNetwork(t)
    BY <2>3 DEF CreateNetwork, MakeTap
  <2>4. CASE CreateNetworkFails(t)
    BY <2>4 DEF CreateNetworkFails, MakeTap, Return
  <2>5. CASE ApplyPublicIPs(t)
    BY <2>5 DEF ApplyPublicIPs, Marshal
  <2>6. CASE IPSave(t)
    BY <2>6 DEF IPSave, Rename
  <2>7. CASE AttachConsole(t)
    BY <2>7 DEF AttachConsole
  <2>8. CASE CloneRootfs(t)
    BY <2>8 DEF CloneRootfs
  <2>9. CASE ResolveImageFails(t)
    BY <2>9 DEF ResolveImageFails
  <2>10. CASE CopyStat(t)
    BY <2>10 DEF CopyStat
  <2>11. CASE CopyBegin(t)
    BY <2>11 DEF CopyBegin
  <2>12. CASE CopyEnd(t)
    BY <2>12 DEF CopyEnd
  <2>13. CASE Grow(t)
    BY <2>13 DEF Grow, Marshal
  <2>14. CASE GrowFails(t)
    BY <2>14 DEF GrowFails
  <2>15. CASE InitSave(t)
    BY <2>15 DEF InitSave, Rename, RenameFails
  <2>16. CASE CheckRunning(t)
    BY <2>16 DEF CheckRunning, Return
  <2>17. CASE StartProcess(t)
    BY <2>17 DEF StartProcess, Live
  <2>18. CASE OpenFifo(t)
    BY <2>18 DEF OpenFifo
  <2>19. CASE Spawn(t)
    BY <2>19 DEF Spawn, Live, VmmState, FreeVmm
  <2>20. CASE SocketAppears(t)
    BY <2>20 DEF SocketAppears
  <2>21. CASE Configure(t)
    BY <2>21 DEF Configure, Live, VmmState, Configurable
  <2>22. CASE ConfigureFails(t)
    BY <2>22 DEF ConfigureFails
  <2>23. CASE Boot(t)
    BY <2>23 DEF Boot, Live, VmmState, Bootable, Return
  <2>24. CASE BootFails(t)
    BY <2>24 DEF BootFails, Live, VmmState, Bootable
  <2>25. CASE Abort(t)
    BY <2>25 DEF Abort, Return
  <2>26. CASE Unwant(t)
    BY <2>26 DEF Unwant, Marshal
  <2>27. CASE StopSave(t)
    BY <2>27 DEF StopSave, Rename, RenameFails
  <2>28. CASE DetachConsole(t)
    BY <2>28, DetachPoint DEF DetachConsole
  <2>29. CASE Halt(t)
    BY <2>29 DEF Halt, Live, Halted, Running
  <2>30. CASE Kill(t)
    BY <2>30 DEF Kill, Live, Halted, Running
  <2>31. CASE SigKill(t)
    BY <2>31 DEF SigKill, Live, VmmState, Halted, Running
  <2>32. CASE End(t)
    BY <2>32 DEF End, Marshal
  <2>33. CASE EndSave(t)
    BY <2>33 DEF EndSave, Rename, RenameFails
  <2>34. CASE DeleteNetwork(t)
    BY <2>34 DEF DeleteNetwork, Return
  <2>35. CASE LockSnapshots(t)
    BY <2>35 DEF LockSnapshots
  <2>36. CASE CopyRootfs(t)
    BY <2>36 DEF CopyRootfs, Live, Return
  <2>37. CASE OfflineCopied(t)
    BY <2>37 DEF OfflineCopied
  <2>38. CASE ColdCopied(t)
    BY <2>38 DEF ColdCopied, Return
  <2>39. CASE KillSelf(t)
    BY <2>39, <1>2 DEF KillSelf
  <2>40. CASE IPSaveFails(t)
    BY <2>40 DEF IPSaveFails, Return
  <2>41. CASE CloneRootfsFails(t)
    BY <2>41 DEF CloneRootfsFails
  <2>42. CASE SpawnFails(t)
    BY <2>42 DEF SpawnFails
  <2> QED
    BY <1>3, <2>1, <2>2, <2>3, <2>4, <2>5, <2>6, <2>7, <2>8, <2>9, <2>10, <2>11, <2>12,
       <2>13, <2>14, <2>15, <2>16, <2>17, <2>18, <2>19, <2>20, <2>21, <2>22, <2>23, <2>24,
       <2>25, <2>26, <2>27, <2>28, <2>29, <2>30, <2>31, <2>32, <2>33, <2>34, <2>35, <2>36,
       <2>37, <2>38, <2>39, <2>40, <2>41, <2>42
    DEF Step
<1>4. ASSUME NEW h \in Handler, NEW o \in Operation, Request(h, o) PROVE Unwanted'
  BY <1>4, EntryPoint DEF Request
<1>5. ASSUME NEW v \in Vmm, Bind(v) PROVE Unwanted'
  BY <1>5 DEF Bind, Exits, Live, VmmState
<1>6. ASSUME NEW v \in Vmm, GuestExits(v) PROVE Unwanted'
  BY <1>6 DEF GuestExits, Exits, Live, VmmState
<1>7. CASE Crash
  BY <1>2, <1>7 DEF Crash
<1>8. ASSUME NEW t \in Thread, OpenFifoAnyway(t) PROVE Unwanted'
  BY <1>8 DEF OpenFifoAnyway
<1>9. ASSUME NEW v \in Vmm, Dies(v) PROVE Unwanted'
  BY <1>9 DEF Dies, Exits, Live, VmmState
<1>10. ASSUME NEW v \in Vmm, Reap(v) PROVE Unwanted'
  BY <1>10 DEF Reap, Live, VmmState
<1>11. CASE ReaderDies
  BY <1>11 DEF ReaderDies
<1> QED
  BY <1>1, <1>3, <1>4, <1>5, <1>6, <1>7, <1>8, <1>9, <1>10, <1>11 DEF Next

LEMMA SerialStep == SerialInv /\ [Next]_vars => SerialInv'
<1> SUFFICES ASSUME SerialInv, [Next]_vars PROVE SerialInv'
  OBVIOUS
<1>1. TypeInv' /\ Alone'
  BY TypeStep, AloneStep DEF SerialInv
<1>2. overlap' # "since" => Orderly'
  BY BusyStep, SavedStep, WantedStep, StopsStep, StoppedStep, OneVmmStep, EmptiedStep,
     UnwantedStep DEF Orderly
<1> QED
  BY <1>1, <1>2 DEF SerialInv

LEMMA SerialInvariant == Spec => []SerialInv
  BY SerialInit, SerialStep, PTL DEF Spec

\* Requests that come one after another never leave two Firecracker processes:
\* the runtime knows the only one that can be alive, and starts another only
\* when it is gone (CheckRunning, startProcess, Firecracker.Stop).
THEOREM OneProcessAlive == Spec => []OneProcess
<1>1. SerialInv => OneProcess
  BY DEF SerialInv, Orderly, OneVmm, OneProcess, Alive
<1> QED
  BY <1>1, SerialInvariant, PTL

\* When nothing is in progress and the VM is not wanted, every Firecracker process
\* that is left has been told to die, whatever failed before (Stop, Start, Run).
THEOREM StopHalts == Spec => []StoppedIsHalted
<1>1. SerialInv => StoppedIsHalted
  BY DEF SerialInv, Orderly, Unwanted, Empty, StoppedIsHalted, Quiet, Alive
<1> QED
  BY <1>1, SerialInvariant, PTL

\* metadata.json and the memory of the runtime agree whenever nothing is in
\* progress and the last SaveMetadata worked.
THEOREM MetadataSaved == Spec => []SavedWhenQuiet
<1>1. SerialInv => SavedWhenQuiet
  BY DEF SerialInv, Orderly, Saved, Saving, SavedWhenQuiet, Quiet
<1> QED
  BY <1>1, SerialInvariant, PTL

\* While an offline snapshot is copied, every Firecracker process that is left
\* has been told to die (copyRootfsOffline): no guest runs on beside the copy. It
\* is not OfflineCopyQuiet, which is false: SIGKILL may not have taken effect yet.
THEOREM CopyHalted ==
    Spec => [](overlap # "since" /\ (\E t \in Thread : pc[t] \in {"copy", "coldcopy"}) => Alive = {})
<1>1. SerialInv =>
        (overlap # "since" /\ (\E t \in Thread : pc[t] \in {"copy", "coldcopy"}) => Alive = {})
  BY DEF SerialInv, Orderly, Emptied, Empty, Alive
<1> QED
  BY <1>1, SerialInvariant, PTL

\* What WrittenBeforeActed asks of one step.
Written ==
    overlap # "since" /\ ~stale =>
        /\ (\E v \in Vmm : vmm[v] = "configured" /\ vmm'[v] = "booted") => disk.desired = "running"
        /\ (\E t \in Thread : op[t] = "stop" /\ At(t, "sigkill")) => disk.desired = "stopped"

LEMMA SavedAt ==
    ASSUME SerialInv, overlap # "since", ~stale, NEW t \in Thread, pc[t] \notin Saving, pc[t] # "idle"
    PROVE  disk = mem
BY DEF SerialInv, Orderly, OneBusy, Saved, Saving

LEMMA BootStep ==
    ASSUME SerialInv, overlap # "since", ~stale, [Next]_vars,
           NEW v \in Vmm, vmm[v] = "configured", vmm'[v] = "booted"
    PROVE  disk.desired = "running"
<1> USE VmmAssumption DEF SerialInv, TypeInv, TypeOK, threads, machine, store, history
<1>1. CASE UNCHANGED vars
  BY <1>1 DEF vars
<1>2. CASE Crash
  BY <1>2 DEF Crash, Restart
<1>3. ASSUME NEW t \in Thread, Step(t) PROVE disk.desired = "running"
  <2>1. CASE Want(t)
    BY <2>1 DEF Want, Marshal
  <2>2. CASE WantSave(t)
    BY <2>2 DEF WantSave, Rename, RenameFails
  <2>3. CASE CreateNetwork(t)
    BY <2>3 DEF CreateNetwork, MakeTap
  <2>4. CASE CreateNetworkFails(t)
    BY <2>4 DEF CreateNetworkFails, MakeTap, Return
  <2>5. CASE ApplyPublicIPs(t)
    BY <2>5 DEF ApplyPublicIPs, Marshal
  <2>6. CASE IPSave(t)
    BY <2>6 DEF IPSave, Rename
  <2>7. CASE AttachConsole(t)
    BY <2>7 DEF AttachConsole
  <2>8. CASE CloneRootfs(t)
    BY <2>8 DEF CloneRootfs
  <2>9. CASE ResolveImageFails(t)
    BY <2>9 DEF ResolveImageFails
  <2>10. CASE CopyStat(t)
    BY <2>10 DEF CopyStat
  <2>11. CASE CopyBegin(t)
    BY <2>11 DEF CopyBegin
  <2>12. CASE CopyEnd(t)
    BY <2>12 DEF CopyEnd
  <2>13. CASE Grow(t)
    BY <2>13 DEF Grow, Marshal
  <2>14. CASE GrowFails(t)
    BY <2>14 DEF GrowFails
  <2>15. CASE InitSave(t)
    BY <2>15 DEF InitSave, Rename, RenameFails
  <2>16. CASE CheckRunning(t)
    BY <2>16 DEF CheckRunning, Return
  <2>17. CASE StartProcess(t)
    BY <2>17 DEF StartProcess
  <2>18. CASE OpenFifo(t)
    BY <2>18 DEF OpenFifo
  <2>19. CASE Spawn(t)
    BY <2>19 DEF Spawn, Live, VmmState, FreeVmm
  <2>20. CASE SocketAppears(t)
    BY <2>20 DEF SocketAppears
  <2>21. CASE Configure(t)
    BY <2>21 DEF Configure, Live, VmmState, Configurable
  <2>22. CASE ConfigureFails(t)
    BY <2>22 DEF ConfigureFails
  <2>23. CASE Boot(t)
    BY <2>23, SavedAt DEF Boot, Live, VmmState, Return, SerialInv, Orderly, Wanted, Saving
  <2>24. CASE BootFails(t)
    BY <2>24, SavedAt DEF BootFails, Live, VmmState, Return, SerialInv, Orderly, Wanted, Saving
  <2>25. CASE Abort(t)
    BY <2>25 DEF Abort, Return
  <2>26. CASE Unwant(t)
    BY <2>26 DEF Unwant, Marshal
  <2>27. CASE StopSave(t)
    BY <2>27 DEF StopSave, Rename, RenameFails
  <2>28. CASE DetachConsole(t)
    BY <2>28 DEF DetachConsole
  <2>29. CASE Halt(t)
    BY <2>29 DEF Halt, Halted
  <2>30. CASE Kill(t)
    BY <2>30 DEF Kill, Halted
  <2>31. CASE SigKill(t)
    BY <2>31 DEF SigKill, Live, VmmState, Halted, Running
  <2>32. CASE End(t)
    BY <2>32 DEF End, Marshal
  <2>33. CASE EndSave(t)
    BY <2>33 DEF EndSave, Rename, RenameFails
  <2>34. CASE DeleteNetwork(t)
    BY <2>34 DEF DeleteNetwork, Return
  <2>35. CASE LockSnapshots(t)
    BY <2>35 DEF LockSnapshots
  <2>36. CASE CopyRootfs(t)
    BY <2>36 DEF CopyRootfs, Return
  <2>37. CASE OfflineCopied(t)
    BY <2>37 DEF OfflineCopied
  <2>38. CASE ColdCopied(t)
    BY <2>38 DEF ColdCopied, Return
  <2>39. CASE KillSelf(t)
    BY <2>39 DEF KillSelf, Restart
  <2>40. CASE IPSaveFails(t)
    BY <2>40 DEF IPSaveFails, Return
  <2>41. CASE CloneRootfsFails(t)
    BY <2>41 DEF CloneRootfsFails
  <2>42. CASE SpawnFails(t)
    BY <2>42 DEF SpawnFails
  <2> QED
    BY <1>3, <2>1, <2>2, <2>3, <2>4, <2>5, <2>6, <2>7, <2>8, <2>9, <2>10, <2>11, <2>12,
       <2>13, <2>14, <2>15, <2>16, <2>17, <2>18, <2>19, <2>20, <2>21, <2>22, <2>23, <2>24,
       <2>25, <2>26, <2>27, <2>28, <2>29, <2>30, <2>31, <2>32, <2>33, <2>34, <2>35, <2>36,
       <2>37, <2>38, <2>39, <2>40, <2>41, <2>42
    DEF Step
<1>4. ASSUME NEW h \in Handler, NEW o \in Operation, Request(h, o) PROVE disk.desired = "running"
  BY <1>4 DEF Request
<1>5. ASSUME NEW w \in Vmm, Bind(w) PROVE disk.desired = "running"
  BY <1>5 DEF Bind, Exits, Live, VmmState
<1>6. ASSUME NEW w \in Vmm, GuestExits(w) PROVE disk.desired = "running"
  BY <1>6 DEF GuestExits, Exits, Live, VmmState
<1>8. ASSUME NEW t \in Thread, OpenFifoAnyway(t) PROVE disk.desired = "running"
  BY <1>8 DEF OpenFifoAnyway
<1>9. ASSUME NEW w \in Vmm, Dies(w) PROVE disk.desired = "running"
  BY <1>9 DEF Dies, Exits, Live, VmmState
<1>10. ASSUME NEW w \in Vmm, Reap(w) PROVE disk.desired = "running"
  BY <1>10 DEF Reap, Live, VmmState
<1>11. CASE ReaderDies
  BY <1>11 DEF ReaderDies
<1> QED
  BY <1>1, <1>2, <1>3, <1>4, <1>5, <1>6, <1>8, <1>9, <1>10, <1>11 DEF Next

\* As long as the metadata can be saved, it says running when a guest boots, and
\* stopped when a stop kills it (Start, Stop: the desired state is saved first).
THEOREM DesiredFirst == Spec => WrittenBeforeActed
<1>1. SerialInv /\ [Next]_vars => Written
  <2> SUFFICES ASSUME SerialInv, [Next]_vars, overlap # "since", ~stale PROVE Written
    BY DEF Written
  <2>1. (\E v \in Vmm : vmm[v] = "configured" /\ vmm'[v] = "booted") => disk.desired = "running"
    BY BootStep
  <2>2. ASSUME NEW t \in Thread, op[t] = "stop", At(t, "sigkill")
        PROVE  disk.desired = "stopped"
    <3>1. disk = mem
      BY <2>2, SavedAt DEF Saving
    <3> QED
      BY <2>2, <3>1 DEF SerialInv, Orderly, Stopped
  <2> QED
    BY <2>1, <2>2 DEF Written
<1>2. SerialInv /\ [Next]_vars => [Written]_vars
  BY <1>1
<1> QED
  BY <1>2, SerialInvariant, PTL DEF Spec, WrittenBeforeActed, Written
=============================================================================
