-------------------------- MODULE SnapshotsProofs ---------------------------
(***************************************************************************)
(* Snapshots keeps its types, lists only complete snapshots, and           *)
(* implements SnapshotSet, for any number of snapshots; and on a node of   *)
(* any number of new VMs (FirstStart) it goes on to do so, while they boot *)
(* from whole disks.                                                       *)
(***************************************************************************)
EXTENDS FirstStart, TLAPS

\* Everything that a power loss could take is on the disk.
Complete(s) ==
    /\ entries[s] = File /\ must[s] = File /\ may[s] = File
    /\ synced[s]
    /\ copy[s] \in {"raw", "whole"}

\* The create request has a snapshot of its own, which nobody can see before
\* it is renamed, and knows what it has written.
Working ==
    /\ pc # "idle" => current \in Snapshot
    /\ pc \in {"copy", "cp", "save", "syncdir", "rename"} =>
          /\ place[current] = "temporary"
          /\ current \notin acked \cup removed
    /\ pc \in {"copy", "cp", "save", "syncdir", "rename", "clean"}
       /\ place[current] = "temporary" => "final" \notin landing[current]
    /\ pc \in {"cp", "save", "syncdir", "rename"} => "rootfs" \in entries[current]
    /\ pc \in {"save", "syncdir", "rename"} =>
          /\ synced[current]
          /\ copy[current] \in {"raw", "whole"}
    /\ pc = "syncdir" => "record" \in entries[current]
    /\ pc = "rename" => Complete(current)
    /\ pc \in {"syncparent", "answer"} =>
          /\ place[current] # "temporary"
          /\ current \in removed \/ place[current] = "final"
    /\ pc = "answer" /\ current \notin removed => landing[current] = {"final"}

\* A final name that a power loss may leave stands for a rootfs that was copied
\* to the end, also while it is deleted. Otherwise the snapshot is complete, and
\* the name is the only one that it may leave once the snapshot is acknowledged.
Durable ==
    /\ deleting \subseteq removed
    /\ \A s \in Snapshot : place[s] \in landing[s]
    /\ \A s \in Snapshot : "final" \in landing[s] => synced[s] /\ copy[s] \in {"raw", "whole"}
    /\ \A s \in Snapshot \ removed :
          "final" \in landing[s] => Complete(s) /\ place[s] = "final"
    /\ \A s \in acked \ removed : landing[s] = {"final"}

IInv == TypeOK /\ Working /\ Durable

-----------------------------------------------------------------------------
LEMMA Initially == Init => IInv
BY SMT DEF Init, IInv, TypeOK, Working, Durable, Place, File

\* Every action keeps the invariant.
LEMMA Inductive == IInv /\ [Next]_vars => IInv'
<1> SUFFICES ASSUME IInv, [Next]_vars PROVE IInv'
  OBVIOUS
<1> USE DEF IInv, TypeOK, Working, Durable, At, Step, Name, AddEntry, Unlink, Place, File,
        Complete, Copied, request, names, files
<1>1. CASE UNCHANGED vars
  <2>1. TypeOK'
    BY <1>1 DEF vars
  <2>2. Working'
    BY <1>1 DEF vars
  <2>3. Durable'
    BY <1>1 DEF vars
  <2> QED BY <2>1, <2>2, <2>3
<1>2. CASE MakeDisk \/ FinishDisk
  <2>1. TypeOK'
    BY <1>2 DEF MakeDisk, FinishDisk
  <2>2. Working'
    BY <1>2 DEF MakeDisk, FinishDisk
  <2>3. Durable'
    BY <1>2 DEF MakeDisk, FinishDisk
  <2> QED BY <2>1, <2>2, <2>3
<1>3. ASSUME NEW s \in Snapshot, Begin(s) PROVE IInv'
  <2>1. TypeOK'
    BY <1>3 DEF Begin
  <2>2. Working'
    BY <1>3 DEF Begin
  <2>3. Durable'
    BY <1>3 DEF Begin
  <2> QED BY <2>1, <2>2, <2>3
<1>4. CASE Clone
  <2>1. TypeOK'
    BY <1>4 DEF Clone
  <2>2. Working'
    BY <1>4 DEF Clone
  <2>3. Durable'
    BY <1>4 DEF Clone
  <2> QED BY <2>1, <2>2, <2>3
<1>5. CASE BeginCopy
  <2>1. TypeOK'
    BY <1>5 DEF BeginCopy
  <2>2. Working'
    BY <1>5 DEF BeginCopy
  <2>3. Durable'
    BY <1>5 DEF BeginCopy
  <2> QED BY <2>1, <2>2, <2>3
<1>6. CASE EndCopy
  <2>1. TypeOK'
    BY <1>6 DEF EndCopy
  <2>2. Working'
    BY <1>6 DEF EndCopy
  <2>3. Durable'
    BY <1>6 DEF EndCopy
  <2> QED BY <2>1, <2>2, <2>3
<1>7. CASE SaveRecord
  <2>1. TypeOK'
    BY <1>7 DEF SaveRecord
  <2>2. Working'
    BY <1>7 DEF SaveRecord
  <2>3. Durable'
    BY <1>7 DEF SaveRecord
  <2> QED BY <2>1, <2>2, <2>3
<1>8. CASE SyncDirectory
  <2>1. TypeOK'
    BY <1>8 DEF SyncDirectory
  <2>2. Working'
    BY <1>8 DEF SyncDirectory
  <2>3. Durable'
    BY <1>8 DEF SyncDirectory
  <2> QED BY <2>1, <2>2, <2>3
<1>9. CASE Publish
  <2>1. TypeOK'
    BY <1>9 DEF Publish
  <2>2. Working'
    BY <1>9 DEF Publish
  <2>3. Durable'
    BY <1>9 DEF Publish
  <2> QED BY <2>1, <2>2, <2>3
<1>10. CASE SyncParent
  <2>1. TypeOK'
    BY <1>10 DEF SyncParent
  <2>2. Working'
    BY <1>10 DEF SyncParent
  <2>3. Durable'
    BY <1>10 DEF SyncParent
  <2> QED BY <2>1, <2>2, <2>3
<1>11. CASE Answer
  <2>1. TypeOK'
    BY <1>11 DEF Answer
  <2>2. Working'
    BY <1>11 DEF Answer
  <2>3. Durable'
    BY <1>11 DEF Answer
  <2> QED BY <2>1, <2>2, <2>3
<1>12. CASE Fails
  <2>1. TypeOK'
    BY <1>12 DEF Fails
  <2>2. Working'
    BY <1>12 DEF Fails
  <2>3. Durable'
    BY <1>12 DEF Fails
  <2> QED BY <2>1, <2>2, <2>3
<1>13. CASE Clean
  <2>1. TypeOK'
    BY <1>13 DEF Clean
  <2>2. Working'
    BY <1>13 DEF Clean
  <2>3. Durable'
    BY <1>13 DEF Clean
  <2> QED BY <2>1, <2>2, <2>3
<1>14. ASSUME NEW s \in Snapshot, BeginDelete(s) PROVE IInv'
  <2>1. TypeOK'
    BY <1>14 DEF BeginDelete
  <2>2. Working'
    BY <1>14 DEF BeginDelete
  <2>3. Durable'
    BY <1>14 DEF BeginDelete
  <2> QED BY <2>1, <2>2, <2>3
<1>15. ASSUME NEW s \in Snapshot, DeleteDirectory(s) PROVE IInv'
  <2>1. TypeOK'
    BY <1>15 DEF DeleteDirectory
  <2>2. Working'
    BY <1>15 DEF DeleteDirectory
  <2>3. Durable'
    BY <1>15 DEF DeleteDirectory
  <2> QED BY <2>1, <2>2, <2>3
<1>16. ASSUME NEW s \in Snapshot, DeleteFails(s) PROVE IInv'
  <2>1. TypeOK'
    BY <1>16 DEF DeleteFails
  <2>2. Working'
    BY <1>16 DEF DeleteFails
  <2>3. Durable'
    BY <1>16 DEF DeleteFails
  <2> QED BY <2>1, <2>2, <2>3
<1>17. ASSUME NEW s \in Snapshot, NEW f \in File, DeleteEntry(s, f) PROVE IInv'
  <2>1. TypeOK'
    BY <1>17 DEF DeleteEntry
  <2>2. Working'
    BY <1>17 DEF DeleteEntry
  <2>3. Durable'
    BY <1>17 DEF DeleteEntry
  <2> QED BY <2>1, <2>2, <2>3
<1>18. CASE Kill
  <2>1. TypeOK'
    BY <1>18 DEF Kill
  <2>2. Working'
    BY <1>18 DEF Kill
  <2>3. Durable'
    BY <1>18 DEF Kill
  <2> QED BY <2>1, <2>2, <2>3
<1>19. CASE PowerLoss
  <2>1. TypeOK'
    BY <1>19 DEF PowerLoss
  <2>2. Working'
    BY <1>19 DEF PowerLoss
  <2>3. Durable'
    BY <1>19 DEF PowerLoss
  <2> QED BY <2>1, <2>2, <2>3
<1> QED
  BY <1>1, <1>2, <1>3, <1>4, <1>5, <1>6, <1>7, <1>8, <1>9, <1>10, <1>11, <1>12, <1>13, <1>14, <1>15, <1>16, <1>17, <1>18, <1>19
  DEF Next, Create, Delete

\* The invariant holds in every state of every behaviour.
THEOREM Invariant == Spec => []IInv
<1>1. IInv /\ [Next]_vars => IInv'
  BY Inductive
<1> QED BY Initially, <1>1, PTL DEF Spec

\* Every variable keeps its type, for any number of snapshots.
THEOREM TypeCorrect == Spec => []TypeOK
<1>1. IInv => TypeOK
  BY DEF IInv
<1> QED BY Invariant, <1>1, PTL

\* What ListSnapshots shows and nobody asked to delete is complete, after
\* every failure, kill and power loss between two steps of publishSnapshot.
THEOREM OnlyCompleteListed == Spec => []ListedIsComplete
<1>1. IInv => ListedIsComplete
  BY DEF IInv, TypeOK, Durable, Complete, Listed, ListedIsComplete
<1> QED BY Invariant, <1>1, PTL

-----------------------------------------------------------------------------
(* The refinement: each step is one of SnapshotSet, or changes nothing that *)
(* SnapshotSet sees.                                                        *)

Kept == Listed \ removed

LEMMA RefinesInit == Init => Abstract!Init
BY DEF Init, Abstract!Init, Listed

\* Steps of a create request that stay out of sight.
LEMMA Hidden ==
    ASSUME IInv, Clone \/ BeginCopy \/ EndCopy \/ SaveRecord \/ SyncDirectory
                 \/ SyncParent \/ Fails \/ Clean
    PROVE  UNCHANGED <<Kept, acked, removed>>
<1> USE DEF IInv, TypeOK, Working, Durable, At, Step, Name, AddEntry, Place, File,
        request, names, files, Kept, Listed
<1>1. CASE Clone \/ BeginCopy
  BY <1>1 DEF Clone, BeginCopy
<1>2. CASE EndCopy \/ SyncDirectory \/ SyncParent \/ Fails
  BY <1>2 DEF EndCopy, SyncDirectory, SyncParent, Fails
<1>3. CASE SaveRecord
  BY <1>3 DEF SaveRecord
<1>4. CASE Clean
  BY <1>4 DEF Clean
<1> QED BY <1>1, <1>2, <1>3, <1>4

LEMMA AbstractStep ==
    ASSUME NEW s \in Snapshot,
           Abstract!Publish(s) \/ Abstract!Acknowledge(s) \/ Abstract!Remove(s)
    PROVE  Abstract!Next
BY DEF Abstract!Next

LEMMA RefinesNext == IInv /\ [Next]_vars => [Abstract!Next]_Abstract!vars
<1> SUFFICES ASSUME IInv, [Next]_vars PROVE [Abstract!Next]_Abstract!vars
  OBVIOUS
<1> USE DEF IInv, TypeOK, Working, Durable, At, Step, Name, AddEntry, Unlink, Place, File,
        Complete, request, names, files, Listed, Abstract!vars
<1>1. CASE UNCHANGED vars \/ MakeDisk \/ FinishDisk \/ Kill
  BY <1>1 DEF vars, MakeDisk, FinishDisk, Kill
<1>2. ASSUME NEW s \in Snapshot, Begin(s) PROVE UNCHANGED Abstract!vars
  BY <1>2 DEF Begin
<1>3. CASE Clone \/ BeginCopy \/ EndCopy \/ SaveRecord \/ SyncDirectory \/ SyncParent
           \/ Fails \/ Clean
  BY <1>3, Hidden DEF Kept
<1>4. CASE Publish
  <2>1. PICK s \in Snapshot : s = current
    BY <1>4 DEF Publish
  <2>2. Abstract!Publish(s)
    BY <1>4, <2>1 DEF Publish, Abstract!Publish
  <2> QED BY <2>2, AbstractStep
<1>5. CASE Answer
  <2>1. PICK s \in Snapshot : s = current
    BY <1>5 DEF Answer
  <2>2. Abstract!Acknowledge(s)
    BY <1>5, <2>1 DEF Answer, Abstract!Acknowledge
  <2> QED BY <2>2, AbstractStep
<1>6. ASSUME NEW s \in Snapshot, BeginDelete(s) PROVE [Abstract!Next]_Abstract!vars
  <2>1. CASE s \in removed
    BY <1>6, <2>1 DEF BeginDelete
  <2>2. CASE s \notin removed
    <3>1. Abstract!Remove(s)
      BY <1>6, <2>2 DEF BeginDelete, Abstract!Remove
    <3> QED BY <3>1, AbstractStep
  <2> QED BY <2>1, <2>2
<1>7. ASSUME NEW s \in Snapshot, DeleteDirectory(s) \/ DeleteFails(s)
      PROVE UNCHANGED Abstract!vars
  BY <1>7 DEF DeleteDirectory, DeleteFails
<1>8. ASSUME NEW s \in Snapshot, NEW f \in File, DeleteEntry(s, f)
      PROVE UNCHANGED Abstract!vars
  BY <1>8 DEF DeleteEntry
<1>9. CASE PowerLoss
  <2> USE <1>9 DEF PowerLoss
  <2>1. ASSUME NEW s \in Listed' \ removed' PROVE s \in Listed \ removed
    <3>1. s \in Snapshot /\ s \notin removed /\ "final" \in landing[s]
      OBVIOUS
    <3> QED BY <3>1
  <2>2. ASSUME NEW s \in acked \cap (Listed \ removed) PROVE s \in Listed'
    <3>1. landing[s] = {"final"} /\ must[s] = File
      OBVIOUS
    <3> QED BY <3>1
  <2>3. Abstract!PowerLoss
    BY <2>1, <2>2 DEF Abstract!PowerLoss
  <2> QED BY <2>3 DEF Abstract!Next
<1> QED
  BY <1>1, <1>2, <1>3, <1>4, <1>5, <1>6, <1>7, <1>8, <1>9 DEF Next, Create, Delete

\* The snapshot directories implement SnapshotSet: a snapshot appears whole in
\* one step, and one that was acknowledged survives every power loss.
THEOREM Implements == Spec => KeepsAcknowledged
<1>1. IInv /\ [Next]_vars => [Abstract!Next]_Abstract!vars
  BY RefinesNext
<1> QED BY RefinesInit, Invariant, <1>1, PTL DEF Spec, KeepsAcknowledged, Abstract!Spec

-----------------------------------------------------------------------------
(* The first starts.                                                       *)

\* What the node does is, for the older VM, one of its own steps or none.
THEOREM NodeRunsSnapshots == NodeSpec => Spec
<1>1. NodeInit => Init
  BY DEF NodeInit
<1>2. [NodeNext]_node => [Next]_vars
  <2> SUFFICES ASSUME [NodeNext]_node PROVE [Next]_vars
    OBVIOUS
  <2>1. CASE UNCHANGED node \/ \E v \in Vm : NewVm(v)
    BY <2>1 DEF node, older, NewVm, BeginStart, StartFails, KillNew, Resolve, Download, Receive,
                Install, Stat, CloneRootfs, BeginCopyRootfs, EndCopyRootfs, Grow, Save
  <2>2. CASE OlderVm
    BY <2>2 DEF OlderVm, Next
  <2>3. CASE NodePowerLoss
    BY <2>3 DEF NodePowerLoss, Next
  <2> QED
    BY <2>1, <2>2, <2>3 DEF NodeNext
<1> QED
  BY <1>1, <1>2, PTL DEF NodeSpec, Spec

\* A disk that was copied to the end, unless a power loss has torn it.
Whole == {"whole", "raw", "torn"}

\* Each start knows what it has in its hands: a download that is renamed is
\* finished, a copy has a whole source, a disk that is saved is whole and grown.
Starting ==
    /\ \A i \in Image : cache[i] \in Whole \cup {"none"}
    /\ \A v \in Vm : step[v] \in {"resolve", "download", "receive", "install"} => boot[v] \in Image
    /\ \A v \in Vm : step[v] = "install" => temp[v] = "whole"
    /\ \A v \in Vm : step[v] = "cp" => reading[v] \in Whole
    /\ \A v \in Vm : step[v] \in {"grow", "save"} => rootfs[v] \in Whole
    /\ \A v \in Vm : step[v] = "save" => v \in grown
    /\ \A v \in Vm : step[v] # "idle" => v \notin initialized /\ boot[v] # None

NodeInv == NodeTypeOK /\ Starting /\ InitializedIsWhole

LEMMA NodeInitially == NodeInit => NodeInv
<1> SUFFICES ASSUME NodeInit PROVE NodeInv
  OBVIOUS
<1>1. TypeOK
  BY Initially DEF NodeInit, IInv
<1> QED
  BY <1>1, BootAssumption
  DEF NodeInit, NodeInv, NodeTypeOK, Starting, InitializedIsWhole, Whole, Content

\* What PrepareRootfs finds at the path of its source, an image or a snapshot
\* that may be deleted meanwhile, was copied to the end.
LEMMA SourceIsWhole ==
    ASSUME IInv, NodeInv, NEW v \in Vm, boot[v] # None, SourceContent(v) # "none"
    PROVE  SourceContent(v) \in Whole
<1>1. boot[v] \in Image \cup Snapshot
  BY DEF NodeInv, NodeTypeOK
<1> QED
  BY <1>1 DEF SourceContent, IInv, Durable, NodeInv, Starting, Whole

LEMMA NodeStep == IInv /\ TypeOK' /\ NodeInv /\ [NodeNext]_node => NodeInv'
<1> SUFFICES ASSUME IInv, TypeOK', NodeInv, [NodeNext]_node PROVE NodeInv'
  OBVIOUS
<1> USE DEF NodeInv, NodeTypeOK, Starting, InitializedIsWhole, Content, Whole,
            AtStep, Goto, images, disks
<1>1. CASE UNCHANGED node
  BY <1>1 DEF node
<1>2. CASE OlderVm
  BY <1>2 DEF OlderVm
<1>3. CASE NodePowerLoss
  <2>1. cache' \in [Image -> Content \cup {"none"}] /\ \A i \in Image : cache'[i] \in Whole \cup {"none"}
    BY <1>3 DEF NodePowerLoss
  <2>2. /\ rootfs' \in [Vm -> Content \cup {"none"}]
        /\ \A v \in Vm : rootfs'[v] \in {"torn", rootfs[v]}
    BY <1>3 DEF NodePowerLoss
  <2>3. initialized' \subseteq initialized
    BY <1>3 DEF NodePowerLoss
  <2>4. /\ step' = [v \in Vm |-> "idle"] /\ temp' = [v \in Vm |-> "none"]
        /\ reading' = [v \in Vm |-> "none"] /\ flushed' = Image /\ settled' = Vm
        /\ UNCHANGED <<boot, grown>>
    BY <1>3 DEF NodePowerLoss
  <2> QED
    BY <2>1, <2>2, <2>3, <2>4
<1>4. ASSUME NEW v \in Vm, NewVm(v) PROVE NodeInv'
  <2>1. CASE BeginStart(v)
    BY <2>1 DEF BeginStart
  <2>2. CASE StartFails(v)
    BY <2>2 DEF StartFails
  <2>3. CASE KillNew(v)
    BY <2>3 DEF KillNew
  <2>4. CASE Resolve(v)
    BY <2>4 DEF Resolve
  <2>5. CASE Download(v)
    BY <2>5 DEF Download
  <2>6. CASE Receive(v)
    BY <2>6 DEF Receive
  <2>7. CASE Install(v)
    BY <2>7 DEF Install
  <2>8. CASE Stat(v)
    BY <2>8 DEF Stat
  <2>9. CASE CloneRootfs(v)
    BY <2>9, SourceIsWhole DEF CloneRootfs
  <2>10. CASE BeginCopyRootfs(v)
    BY <2>10, SourceIsWhole DEF BeginCopyRootfs
  <2>11. CASE EndCopyRootfs(v)
    BY <2>11 DEF EndCopyRootfs
  <2>12. CASE Grow(v)
    BY <2>12 DEF Grow
  <2>13. CASE Save(v)
    BY <2>13 DEF Save
  <2> QED
    BY <1>4, <2>1, <2>2, <2>3, <2>4, <2>5, <2>6, <2>7, <2>8, <2>9, <2>10, <2>11, <2>12, <2>13 DEF NewVm
<1> QED
  BY <1>1, <1>2, <1>3, <1>4 DEF NodeNext

LEMMA NodeInvariant == NodeSpec => [](IInv /\ NodeInv)
<1>1. IInv /\ [Next]_vars => IInv'
  BY Inductive
<1>2. IInv => TypeOK
  BY DEF IInv
<1>3. IInv /\ TypeOK' /\ NodeInv /\ [NodeNext]_node => NodeInv'
  BY NodeStep
<1> QED
  BY NodeInitially, NodeRunsSnapshots, Invariant, <1>2, <1>3, PTL DEF NodeSpec

\* Every variable of the node keeps its type, for any number of new VMs, images
\* and snapshots.
THEOREM NodeTypeCorrect == NodeSpec => []NodeTypeOK
<1>1. NodeInv => NodeTypeOK
  BY DEF NodeInv
<1> QED
  BY <1>1, NodeInvariant, PTL

\* A VM whose metadata.json says initialized has a whole, grown disk, or one that
\* a power loss has torn, whatever other runtimes download and delete meanwhile
\* (PrepareRootfs, ResolveImage).
THEOREM InitializedWhole == NodeSpec => []InitializedIsWhole
<1>1. NodeInv => InitializedIsWhole
  BY DEF NodeInv
<1> QED
  BY <1>1, NodeInvariant, PTL

\* The snapshots keep their promises while new VMs boot from them.
THEOREM NodeKeepsSnapshots == NodeSpec => []ListedIsComplete /\ KeepsAcknowledged
BY NodeRunsSnapshots, OnlyCompleteListed, Implements, PTL
=============================================================================
