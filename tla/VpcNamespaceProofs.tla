------------------------ MODULE VpcNamespaceProofs ------------------------
(***************************************************************************)
(* What VpcNamespace promises for every number of runtimes and inodes.     *)
(*                                                                         *)
(* TypeCorrect holds for every behaviour. NamespaceSafe is about a VPC     *)
(* with a VM that is never stopped: there vpcLeave never reaches its       *)
(* removal, so the lock file is one inode for ever and the lock is sound.  *)
(***************************************************************************)
EXTENDS VpcNamespace, TLAPS

(* Type correctness.                                                       *)

\* From flock on, a runtime has a lock file open.
FileOpen == \A p \in Runtime : pc[p] \in Critical \cup {"flock"} => fd[p] \in Inode

TypeInv == TypeOK /\ FileOpen

USE DEF Points, Opening, Entering, Leaving, Removing, Resting, Critical, VethStates

LEMMA TypeInit == Init => TypeInv
BY RuntimeAssumption DEF Init, TypeInv, TypeOK, FileOpen

LEMMA TypeStep == TypeInv /\ [Next]_vars => TypeInv'
<1> SUFFICES ASSUME TypeInv, [Next]_vars PROVE TypeInv'
  OBVIOUS
<1> USE NoneAssumption DEF TypeInv, TypeOK, FileOpen, At, Goto, local, files, kernel, history
<1>1. CASE UNCHANGED vars
  BY <1>1 DEF vars
<1>2. ASSUME NEW p \in Runtime, NEW o \in {"enter", "leave"}, Begin(p, o) PROVE TypeInv'
  BY <1>2 DEF Begin
<1>3. ASSUME NEW p \in Runtime, Proceed(p) PROVE TypeInv'
  <2>1. CASE MkdirRun(p)
    BY <2>1 DEF MkdirRun
  <2>2. CASE MkdirVms(p)
    BY <2>2 DEF MkdirVms
  <2>3. CASE MkdirFails(p) \/ OpenFails(p) \/ WriteMarkerFails(p)
    <3>1. Fail(p)
      BY <2>3 DEF MkdirFails, OpenFails, WriteMarkerFails
    <3> QED BY <3>1 DEF Fail, Return
  <2>4. CASE OpenLock(p)
    <3>1. lockFile' \in Inode
      BY <2>4 DEF OpenLock
    <3> QED BY <2>4, <3>1 DEF OpenLock
  <2>5. CASE WriteMarker(p)
    BY <2>5 DEF WriteMarker
  <2>6. CASE AddNamespace(p) \/ EnsureVeth(p) \/ EnsureUplinkTable(p)
    BY <2>6 DEF AddNamespace, EnsureVeth, EnsureUplinkTable
  <2>16. CASE ConfigureVeth(p)
    BY <2>16 DEF ConfigureVeth
  <2>7. CASE NetworkUnlock(p)
    BY <2>7 DEF NetworkUnlock
  <2>8. CASE Entered(p)
    BY <2>8 DEF Entered, Return
  <2>9. CASE Left(p)
    BY <2>9 DEF Left, Return
  <2>10. CASE RemoveMarker(p) \/ ReadDir(p)
    BY <2>10 DEF RemoveMarker, ReadDir
  <2>11. CASE DeleteElement(p) \/ DeleteNamespace(p)
    BY <2>11 DEF DeleteElement, DeleteNamespace
  <2>12. CASE RemoveAllList(p)
    BY <2>12 DEF RemoveAllList
  <2>13. CASE RemoveAllLock(p)
    BY <2>13 DEF RemoveAllLock
  <2>14. CASE RemoveAllMarkers(p)
    BY <2>14 DEF RemoveAllMarkers
  <2>15. CASE RemoveAllVms(p) \/ RemoveAllDir(p)
    BY <2>15 DEF RemoveAllVms, RemoveAllDir
  <2> QED
    BY <1>3, <2>1, <2>2, <2>3, <2>4, <2>5, <2>6, <2>7, <2>8, <2>9, <2>10, <2>11,
       <2>12, <2>13, <2>14, <2>15, <2>16
    DEF Proceed
<1>4. ASSUME NEW p \in Runtime, Flock(p) PROVE TypeInv'
  BY <1>4 DEF Flock
<1>5. ASSUME NEW p \in Runtime, NetworkLock(p) PROVE TypeInv'
  BY <1>5 DEF NetworkLock
<1>6. ASSUME NEW p \in Runtime, Crash(p) PROVE TypeInv'
  BY <1>6 DEF Crash, Return
<1>7. CASE ReapVeth
  BY <1>7 DEF ReapVeth
<1> QED
  BY <1>1, <1>2, <1>3, <1>4, <1>5, <1>6, <1>7 DEF Next

\* Every variable of the namespace model keeps its type, and a runtime that
\* holds the flock has a lock file open, in every behaviour (vpcEnter, vpcLeave).
THEOREM TypeCorrect == Spec => []TypeOK
<1>1. TypeInv => TypeOK
  BY DEF TypeInv
<1> QED
  BY <1>1, TypeInit, TypeStep, PTL DEF Spec

(***************************************************************************)
(* A VPC with a resident VM.                                               *)
(***************************************************************************)

\* A resident's marker keeps vpcLeave from its removal.
Kept ==
    /\ runDir /\ vmsDir /\ lockFile \in Inode
    /\ Resident \subseteq markers
    /\ ns /\ veth = "attached" /\ vethSet
    /\ \A p \in Runtime : pc[p] \notin Removing \cup {"failed"}

\* So every runtime locks the same inode, and only one of them has it.
OneLock ==
    /\ \A p \in Runtime : pc[p] \in Critical \cup {"flock"} => fd[p] = lockFile
    /\ \A p \in Runtime : pc[p] \in Critical => p \in held
    /\ \A p \in held : fd[p] = lockFile
    /\ \A p, q \in held : p = q

\* A VM that is up, or about to be, has its marker; one that leaves is not up.
Marked ==
    /\ up \subseteq markers
    /\ \A p \in Runtime : pc[p] \in Entering \ {"mark"} => p \in markers
    /\ \A p \in Runtime : pc[p] \in Leaving => op[p] = "leave"
    /\ \A p \in Runtime : op[p] = "leave" => p \notin up /\ p \notin Resident
    /\ \A p \in Runtime : pc[p] \notin Resting => op[p] # "none"

ResidentInv == TypeInv /\ Kept /\ OneLock /\ Marked

LEMMA ResidentInit == Resident # {} /\ Init => ResidentInv
<1> SUFFICES ASSUME Resident # {}, Init PROVE ResidentInv
  OBVIOUS
<1>1. TypeInv
  BY TypeInit
<1> QED
  BY <1>1, RuntimeAssumption DEF Init, ResidentInv, Kept, OneLock, Marked

LEMMA ResidentStep == Resident # {} /\ ResidentInv /\ [Next]_vars => ResidentInv'
<1> SUFFICES ASSUME Resident # {}, ResidentInv, [Next]_vars PROVE ResidentInv'
  OBVIOUS
<1>0. TypeInv'
  BY TypeStep DEF ResidentInv
<1> USE <1>0, NoneAssumption, RuntimeAssumption
    DEF ResidentInv, TypeInv, TypeOK, Kept, OneLock, Marked, At, Goto, local, files, kernel
<1>1. CASE UNCHANGED vars
  BY <1>1 DEF vars
<1>2. ASSUME NEW p \in Runtime, NEW o \in {"enter", "leave"}, Begin(p, o) PROVE ResidentInv'
  BY <1>2 DEF Begin
<1>3. ASSUME NEW p \in Runtime, Proceed(p) PROVE ResidentInv'
  <2>1. CASE MkdirRun(p)
    BY <2>1 DEF MkdirRun
  <2>2. CASE MkdirVms(p)
    BY <2>2 DEF MkdirVms
  <2>3. CASE OpenLock(p)
    <3>1. lockFile' = lockFile
      BY <2>3 DEF OpenLock
    <3> QED BY <2>3, <3>1 DEF OpenLock
  <2>4. ~(MkdirFails(p) \/ OpenFails(p) \/ WriteMarkerFails(p))
    BY DEF MkdirFails, OpenFails, WriteMarkerFails
  <2>5. CASE WriteMarker(p)
    BY <2>5 DEF WriteMarker
  <2>6. CASE AddNamespace(p)
    BY <2>6 DEF AddNamespace
  <2>7. CASE EnsureVeth(p)
    BY <2>7 DEF EnsureVeth
  <2>8. CASE EnsureUplinkTable(p)
    BY <2>8 DEF EnsureUplinkTable
  <2>9. CASE NetworkUnlock(p)
    BY <2>9 DEF NetworkUnlock
  <2>10. CASE Entered(p)
    BY <2>10 DEF Entered, Return
  <2>11. CASE RemoveMarker(p)
    BY <2>11 DEF RemoveMarker
  <2>12. CASE ReadDir(p)
    <3>1. pc' = [pc EXCEPT ![p] = "left"]
      BY <2>12 DEF ReadDir
    <3> QED BY <2>12, <3>1 DEF ReadDir
  <2>13. CASE Left(p)
    BY <2>13 DEF Left, Return
  <2>14. pc[p] \notin Removing
    OBVIOUS
  <2>15. ~(DeleteElement(p) \/ DeleteNamespace(p) \/ RemoveAllList(p) \/ RemoveAllLock(p)
             \/ RemoveAllMarkers(p) \/ RemoveAllVms(p) \/ RemoveAllDir(p))
    BY <2>14 DEF DeleteElement, DeleteNamespace, RemoveAllList, RemoveAllLock,
                 RemoveAllMarkers, RemoveAllVms, RemoveAllDir
  <2>16. CASE ConfigureVeth(p)
    BY <2>16 DEF ConfigureVeth
  <2> QED
    BY <1>3, <2>1, <2>2, <2>3, <2>4, <2>5, <2>6, <2>7, <2>8, <2>9, <2>10, <2>11, <2>12, <2>13,
       <2>15, <2>16
    DEF Proceed
<1>4. ASSUME NEW p \in Runtime, Flock(p) PROVE ResidentInv'
  <2>1. held = {}
    BY <1>4 DEF Flock
  <2> QED BY <1>4, <2>1 DEF Flock
<1>5. ASSUME NEW p \in Runtime, NetworkLock(p) PROVE ResidentInv'
  BY <1>5 DEF NetworkLock
<1>6. ASSUME NEW p \in Runtime, Crash(p) PROVE ResidentInv'
  BY <1>6 DEF Crash, Return
<1>7. CASE ReapVeth
  BY <1>7 DEF ReapVeth
<1> QED
  BY <1>1, <1>2, <1>3, <1>4, <1>5, <1>6, <1>7 DEF Next

LEMMA ResidentInvariant == Resident # {} => (Spec => []ResidentInv)
<1> SUFFICES ASSUME Resident # {} PROVE Spec => []ResidentInv
  OBVIOUS
<1>1. Init => ResidentInv
  BY ResidentInit
<1>2. ResidentInv /\ [Next]_vars => ResidentInv'
  BY ResidentStep
<1> QED
  BY <1>1, <1>2, PTL DEF Spec

\* While the VPC has a VM that is not stopped, and however many others start,
\* stop and are killed, every VM that is up keeps its marker and the namespace
\* (vpcEnter, vpcLeave).
THEOREM NamespaceSafe == Resident # {} => (Spec => []NamespaceHeld)
<1>1. ResidentInv => NamespaceHeld
  BY DEF ResidentInv, Kept, Marked, NamespaceHeld
<1> QED
  BY <1>1, ResidentInvariant, PTL

\* ... and it keeps the uplink (vpcCreate).
THEOREM UplinkSafe == Resident # {} => (Spec => []UplinkHeld)
<1>1. ResidentInv => UplinkHeld
  BY DEF ResidentInv, Kept, UplinkHeld
<1> QED
  BY <1>1, ResidentInvariant, PTL

\* ... and no vpcEnter and no vpcLeave of any VM fails (writeMarker, vpcCreate).
THEOREM OperationsSucceed == Resident # {} => (Spec => []NoFailedOperation)
<1>1. ResidentInv => NoFailedOperation
  BY DEF ResidentInv, Kept, NoFailedOperation
<1> QED
  BY <1>1, ResidentInvariant, PTL

\* ... and the lock of the VPC is held by one runtime at a time (fileLock).
THEOREM LockSound == Resident # {} => (Spec => []LockExclusive)
<1>1. ResidentInv => LockExclusive
  BY DEF ResidentInv, OneLock, LockExclusive
<1> QED
  BY <1>1, ResidentInvariant, PTL

(***************************************************************************)
(* A VPC that may become empty, while no removal overlaps another          *)
(* operation.                                                              *)
(***************************************************************************)

\* A runtime that removes is alone ...
Apart ==
    \A p, q \in Runtime : pc[p] \in Removing /\ p # q => pc[q] \in Resting

\* ... so that the others find what they have made, ...
Directories == \A p \in Runtime :
    /\ pc[p] \in {"mkvms", "open", "flock"} \cup Entering \cup Leaving => runDir
    /\ pc[p] \in {"open", "flock"} \cup Entering \cup Leaving => vmsDir
    /\ pc[p] # "failed"

\* ... and lock the inode at the path.
Locked ==
    /\ \A p \in Runtime : pc[p] \in {"flock"} \cup Entering \cup Leaving => fd[p] = lockFile
    /\ \A p \in Runtime : pc[p] \in Critical <=> p \in held
    /\ \A p, q \in held : p = q

\* A VM that is up, or about to be, has its marker and the namespace; one that
\* leaves has not, and nobody has while the last one removes.
InUse ==
    /\ up \subseteq markers
    /\ up # {} => ns
    /\ \A p \in Runtime : pc[p] \in Entering \ {"mark"} => p \in markers
    /\ \A p \in Runtime : pc[p] \in {"link", "configure", "uplink", "netunlock", "entered"} => ns
    /\ \A p \in Runtime : op[p] = "leave" => p \notin up
    /\ \A p \in Runtime : pc[p] \in Leaving \cup Removing => op[p] = "leave"
    /\ \A p \in Runtime : pc[p] \notin Resting => op[p] # "none"
    /\ \A p \in Runtime : pc[p] \in Removing => markers = {}

\* What is there is owed by a runtime that has not finished its vpcLeave, and
\* the removal ticks it off piece by piece.
Settling ==
    /\ settled = Runtime => ~ns /\ markers = {} /\ ~runDir /\ ~vethSet
    /\ settled \cap (up \cup markers) = {}
    /\ \A p \in Runtime : pc[p] \notin Resting => p \notin settled
    /\ \A p \in Runtime : pc[p] \in (Leaving \ {"unmark"}) \cup Removing => p \notin markers
    /\ \A p \in Runtime : pc[p] = "left" => markers # {}
    /\ \A p \in Runtime : pc[p] \in Removing \ {"delelem"} => ~vethSet
    /\ \A p \in Runtime : pc[p] \in Removing \ {"delelem", "delns"} => ~ns
    /\ \A p \in Runtime : pc[p] \in {"rmall", "rmvms"} =>
           /\ lockFile # None => "lock" \in todo[p]
           /\ vmsDir => "vms" \in todo[p] \/ pc[p] = "rmvms"
    /\ \A p \in Runtime : pc[p] = "gone" => ~runDir

Undisturbed == Apart /\ Directories /\ Locked /\ InUse /\ Settling

RemovalInv == TypeInv /\ (raced \/ Undisturbed)

LEMMA RemovalInit == Init => RemovalInv
<1> SUFFICES ASSUME Init PROVE RemovalInv
  OBVIOUS
<1>1. TypeInv
  BY TypeInit
<1> QED
  BY <1>1, RuntimeAssumption
  DEF Init, RemovalInv, Undisturbed, Apart, Directories, Locked, InUse, Settling

\* What stays while a runtime steps and no removal is disturbed.
LEMMA ApartStep == ASSUME NEW p \in Runtime, NEW point, TypeInv, Goto(p, point), ~raced' PROVE Apart' /\ ~raced
<1>1. ~raced /\ ~Overlap
  BY DEF Goto
<1> QED
  BY <1>1 DEF Overlap, Apart

LEMMA RemovalStep ==
    ASSUME TypeInv, TypeInv', Undisturbed, [Next]_vars, ~raced'
    PROVE  Undisturbed'
<1> USE NoneAssumption, RuntimeAssumption
    DEF TypeInv, TypeOK, FileOpen, Undisturbed, Apart, Directories, Locked, InUse, Settling,
        At, local, files, kernel, history
<1>1. CASE UNCHANGED vars
  BY <1>1 DEF vars
<1>2. ASSUME NEW p \in Runtime, NEW o \in {"enter", "leave"}, Begin(p, o) PROVE Undisturbed'
  <2>0. Apart' /\ pc' = [pc EXCEPT ![p] = "mkdir"]
    BY <1>2, ApartStep DEF Begin, Goto
  <2>1. Directories'
    BY <1>2, <2>0 DEF Begin
  <2>2. Locked'
    BY <1>2, <2>0 DEF Begin
  <2>3. InUse'
    BY <1>2, <2>0 DEF Begin
  <2>4. Settling'
    BY <1>2, <2>0 DEF Begin
  <2> QED BY <2>0, <2>1, <2>2, <2>3, <2>4
<1>3. ASSUME NEW p \in Runtime, Proceed(p) PROVE Undisturbed'
  <2>1. CASE MkdirRun(p)
    <3>0. Apart' /\ \E point \in Points : pc' = [pc EXCEPT ![p] = point]
      BY <2>1, ApartStep DEF MkdirRun, Goto
    <3> QED BY <2>1, <3>0 DEF MkdirRun, Goto
  <2>2. CASE MkdirVms(p)
    <3>0. Apart' /\ \E point \in Points : pc' = [pc EXCEPT ![p] = point]
      BY <2>2, ApartStep DEF MkdirVms, Goto
    <3> QED BY <2>2, <3>0 DEF MkdirVms, Goto
  <2>3. CASE OpenLock(p)
    <3>0. Apart' /\ \E point \in Points : pc' = [pc EXCEPT ![p] = point]
      BY <2>3, ApartStep DEF OpenLock, Goto
    <3> QED BY <2>3, <3>0 DEF OpenLock, Goto
  <2>4. CASE WriteMarker(p)
    <3>0. Apart' /\ \E point \in Points : pc' = [pc EXCEPT ![p] = point]
      BY <2>4, ApartStep DEF WriteMarker, Goto
    <3> QED BY <2>4, <3>0 DEF WriteMarker, Goto
  <2>5. CASE AddNamespace(p)
    <3>0. Apart' /\ \E point \in Points : pc' = [pc EXCEPT ![p] = point]
      BY <2>5, ApartStep DEF AddNamespace, Goto
    <3> QED BY <2>5, <3>0 DEF AddNamespace, Goto
  <2>6. CASE EnsureVeth(p)
    <3>0. Apart' /\ \E point \in Points : pc' = [pc EXCEPT ![p] = point]
      BY <2>6, ApartStep DEF EnsureVeth, Goto
    <3> QED BY <2>6, <3>0 DEF EnsureVeth, Goto
  <2>7. CASE EnsureUplinkTable(p)
    <3>0. Apart' /\ \E point \in Points : pc' = [pc EXCEPT ![p] = point]
      BY <2>7, ApartStep DEF EnsureUplinkTable, Goto
    <3> QED BY <2>7, <3>0 DEF EnsureUplinkTable, Goto
  <2>8. CASE NetworkUnlock(p)
    <3>0. Apart' /\ \E point \in Points : pc' = [pc EXCEPT ![p] = point]
      BY <2>8, ApartStep DEF NetworkUnlock, Goto
    <3> QED BY <2>8, <3>0 DEF NetworkUnlock, Goto
  <2>9. CASE Entered(p)
    <3>0. Apart' /\ \E point \in Points : pc' = [pc EXCEPT ![p] = point]
      BY <2>9, ApartStep DEF Entered, Goto
    <3> QED BY <2>9, <3>0 DEF Entered, Goto, Return
  <2>10. CASE RemoveMarker(p)
    <3>0. Apart' /\ \E point \in Points : pc' = [pc EXCEPT ![p] = point]
      BY <2>10, ApartStep DEF RemoveMarker, Goto
    <3> QED BY <2>10, <3>0 DEF RemoveMarker, Goto
  <2>11. CASE ReadDir(p)
    <3>0. Apart' /\ \E point \in Points : pc' = [pc EXCEPT ![p] = point]
      BY <2>11, ApartStep DEF ReadDir, Goto
    <3> QED BY <2>11, <3>0 DEF ReadDir, Goto
  <2>12. CASE DeleteElement(p)
    <3>0. Apart' /\ \E point \in Points : pc' = [pc EXCEPT ![p] = point]
      BY <2>12, ApartStep DEF DeleteElement, Goto
    <3> QED BY <2>12, <3>0 DEF DeleteElement, Goto
  <2>13. CASE DeleteNamespace(p)
    <3>0. Apart' /\ \E point \in Points : pc' = [pc EXCEPT ![p] = point]
      BY <2>13, ApartStep DEF DeleteNamespace, Goto
    <3> QED BY <2>13, <3>0 DEF DeleteNamespace, Goto
  <2>14. CASE RemoveAllList(p)
    <3>0. Apart' /\ \E point \in Points : pc' = [pc EXCEPT ![p] = point]
      BY <2>14, ApartStep DEF RemoveAllList, Goto
    <3> QED BY <2>14, <3>0 DEF RemoveAllList, Goto
  <2>15. CASE RemoveAllLock(p)
    <3>0. Apart' /\ \E point \in Points : pc' = [pc EXCEPT ![p] = point]
      BY <2>15, ApartStep DEF RemoveAllLock, Goto
    <3> QED BY <2>15, <3>0 DEF RemoveAllLock, Goto
  <2>16. CASE RemoveAllMarkers(p)
    <3>0. Apart' /\ \E point \in Points : pc' = [pc EXCEPT ![p] = point]
      BY <2>16, ApartStep DEF RemoveAllMarkers, Goto
    <3> QED BY <2>16, <3>0 DEF RemoveAllMarkers, Goto
  <2>17. CASE RemoveAllVms(p)
    <3>0. Apart' /\ \E point \in Points : pc' = [pc EXCEPT ![p] = point]
      BY <2>17, ApartStep DEF RemoveAllVms, Goto
    <3> QED BY <2>17, <3>0 DEF RemoveAllVms, Goto
  <2>18. CASE RemoveAllDir(p)
    <3>0. Apart' /\ \E point \in Points : pc' = [pc EXCEPT ![p] = point]
      BY <2>18, ApartStep DEF RemoveAllDir, Goto
    <3> QED BY <2>18, <3>0 DEF RemoveAllDir, Goto
  <2>19. CASE Left(p)
    <3>0. Apart' /\ \E point \in Points : pc' = [pc EXCEPT ![p] = point]
      BY <2>19, ApartStep DEF Left, Goto
    <3> QED BY <2>19, <3>0 DEF Left, Goto, Return
  <2>21. CASE ConfigureVeth(p)
    <3>0. Apart' /\ \E point \in Points : pc' = [pc EXCEPT ![p] = point]
      BY <2>21, ApartStep DEF ConfigureVeth, Goto
    <3> QED BY <2>21, <3>0 DEF ConfigureVeth, Goto
  <2>20. ~(MkdirFails(p) \/ OpenFails(p) \/ WriteMarkerFails(p))
    BY DEF MkdirFails, OpenFails, WriteMarkerFails
  <2> QED
    BY <1>3, <2>1, <2>2, <2>3, <2>4, <2>5, <2>6, <2>7, <2>8, <2>9, <2>10, <2>11, <2>12, <2>13, <2>14, <2>15, <2>16,
       <2>17, <2>18, <2>19, <2>20, <2>21 DEF Proceed
<1>4. ASSUME NEW p \in Runtime, Flock(p) PROVE Undisturbed'
  <2>0. Apart' /\ \E point \in Points : pc' = [pc EXCEPT ![p] = point]
    BY <1>4, ApartStep DEF Flock, Goto
  <2> QED BY <1>4, <2>0 DEF Flock, Goto
<1>5. ASSUME NEW p \in Runtime, NetworkLock(p) PROVE Undisturbed'
  <2>0. Apart' /\ \E point \in Points : pc' = [pc EXCEPT ![p] = point]
    BY <1>5, ApartStep DEF NetworkLock, Goto
  <2> QED BY <1>5, <2>0 DEF NetworkLock, Goto
<1>6. ASSUME NEW p \in Runtime, Crash(p) PROVE Undisturbed'
  <2>0. Apart' /\ \E point \in Points : pc' = [pc EXCEPT ![p] = point]
    BY <1>6, ApartStep DEF Crash, Goto
  <2> QED BY <1>6, <2>0 DEF Crash, Goto, Return
<1>7. CASE ReapVeth
  BY <1>7 DEF ReapVeth
<1> QED
  BY <1>1, <1>2, <1>3, <1>4, <1>5, <1>6, <1>7 DEF Next

\* Every step of a runtime records whether it overlaps a removal.
LEMMA Recorded ==
    ASSUME [Next]_vars
    PROVE  UNCHANGED <<pc, raced>> \/ raced' = (raced \/ Overlap)
<1> USE DEF Goto
<1>1. CASE UNCHANGED vars
  BY <1>1 DEF vars, local, history
<1>2. ASSUME NEW p \in Runtime, NEW o \in {"enter", "leave"}, Begin(p, o) PROVE raced' = (raced \/ Overlap)
  BY <1>2 DEF Begin
<1>3. ASSUME NEW p \in Runtime, Proceed(p) PROVE raced' = (raced \/ Overlap)
  <2>1. CASE MkdirRun(p) \/ MkdirVms(p) \/ OpenLock(p) \/ WriteMarker(p) \/ AddNamespace(p)
    BY <2>1 DEF MkdirRun, MkdirVms, OpenLock, WriteMarker, AddNamespace
  <2>2. CASE EnsureVeth(p) \/ EnsureUplinkTable(p) \/ NetworkUnlock(p) \/ Entered(p) \/ RemoveMarker(p)
    BY <2>2 DEF EnsureVeth, EnsureUplinkTable, NetworkUnlock, Entered, RemoveMarker
  <2>3. CASE ReadDir(p) \/ DeleteElement(p) \/ DeleteNamespace(p) \/ RemoveAllList(p) \/ RemoveAllLock(p)
    BY <2>3 DEF ReadDir, DeleteElement, DeleteNamespace, RemoveAllList, RemoveAllLock
  <2>4. CASE RemoveAllMarkers(p) \/ RemoveAllVms(p) \/ RemoveAllDir(p) \/ Left(p)
    BY <2>4 DEF RemoveAllMarkers, RemoveAllVms, RemoveAllDir, Left
  <2>5. CASE MkdirFails(p) \/ OpenFails(p) \/ WriteMarkerFails(p)
    BY <2>5 DEF MkdirFails, OpenFails, WriteMarkerFails, Fail
  <2>6. CASE ConfigureVeth(p)
    BY <2>6 DEF ConfigureVeth
  <2> QED BY <1>3, <2>1, <2>2, <2>3, <2>4, <2>5, <2>6 DEF Proceed
<1>4. ASSUME NEW p \in Runtime, Flock(p) \/ NetworkLock(p) \/ Crash(p) PROVE raced' = (raced \/ Overlap)
  BY <1>4 DEF Flock, NetworkLock, Crash
<1>5. CASE ReapVeth
  BY <1>5 DEF ReapVeth, local, history
<1> QED
  BY <1>1, <1>2, <1>3, <1>4, <1>5 DEF Next

LEMMA RemovalInvariant == Spec => []RemovalInv
<1>1. RemovalInv /\ [Next]_vars => RemovalInv'
  <2> SUFFICES ASSUME RemovalInv, [Next]_vars, ~raced' PROVE Undisturbed'
    BY TypeStep DEF RemovalInv
  <2>1. ~raced
    BY Recorded
  <2> QED BY <2>1, TypeStep, RemovalStep DEF RemovalInv
<1> QED
  BY <1>1, RemovalInit, PTL DEF Spec

\* For any number of runtimes, killed at any step, and with or without a VM that
\* stays: if no removal overlaps another operation, every VM that is up keeps its
\* marker and the namespace, no operation fails, and the lock excludes. The lock
\* file that vpcLeave deletes is the only hole in the protocol.
THEOREM OnlyRemovalRaces == Spec => []HeldUnlessRaced
<1>1. RemovalInv => HeldUnlessRaced
  BY DEF RemovalInv, Undisturbed, Directories, Locked, InUse, HeldUnlessRaced, NamespaceHeld,
         NoFailedOperation, LockExclusive
<1> QED
  BY <1>1, RemovalInvariant, PTL

\* ... and when the last vpcLeave has returned nothing of the VPC is left, also
\* after runtimes were killed halfway (os.RemoveAll, ip netns del).
THEOREM LastCleans == Spec => []LastLeaveCleans
<1>1. RemovalInv => LastLeaveCleans
  BY DEF RemovalInv, Undisturbed, Settling, LastLeaveCleans
<1> QED
  BY <1>1, RemovalInvariant, PTL

\* With a VM that stays there is no such overlap: NamespaceSafe and its company
\* are the case in which OnlyRemovalRaces is unconditional.
THEOREM ResidentNeverRaced == Resident # {} => (Spec => []~raced)
<1> SUFFICES ASSUME Resident # {} PROVE Spec => []~raced
  OBVIOUS
<1>1. Init => ResidentInv /\ ~raced
  BY ResidentInit DEF Init
<1>2. ResidentInv /\ ~raced /\ [Next]_vars => ResidentInv' /\ ~raced'
  <2> SUFFICES ASSUME ResidentInv, ~raced, [Next]_vars PROVE ResidentInv' /\ ~raced'
    OBVIOUS
  <2>1. ResidentInv'
    BY ResidentStep
  <2>2. ~Overlap
    BY <2>1 DEF ResidentInv, Kept, Overlap
  <2>3. UNCHANGED <<pc, raced>> \/ raced' = (raced \/ Overlap)
    BY Recorded
  <2>4. ~raced'
    BY <2>2, <2>3
  <2> QED BY <2>1, <2>4
<1> QED
  BY <1>1, <1>2, PTL DEF Spec

=============================================================================
