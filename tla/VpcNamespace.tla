---------------------------- MODULE VpcNamespace ----------------------------
(***************************************************************************)
(* The network namespace that the VMs of one VPC share on one node         *)
(* (vpc.go), and the advisory lock that guards it (helpers.go).            *)
(*                                                                         *)
(* Every VM has an atlas-runtime process of its own. A runtime calls       *)
(* vpcEnter when its VM starts and vpcLeave when it stops; no process      *)
(* coordinates them but the file lock /run/atlas-vpc-<id>/lock, which is   *)
(* a lock on an INODE: the last leaver removes the run directory, lock     *)
(* file included, while other runtimes may have that file open or be about *)
(* to create it again. The model therefore keeps the inode that the lock   *)
(* path names apart from the inode each runtime has open.                  *)
(*                                                                         *)
(* A system call or a command is one step; a runtime may be killed between *)
(* any two of them.                                                        *)
(***************************************************************************)
EXTENDS Naturals, FiniteSets

CONSTANTS
    Runtime,    \* the atlas-runtime processes of the VMs of this VPC
    Resident,   \* those whose VM is up at first and is never stopped
    Killable,   \* those that may be killed at any step
    Inode,      \* inodes that the lock file may have
    None        \* no inode, no owner

ASSUME RuntimeAssumption == Resident \subseteq Runtime /\ Killable \subseteq Runtime
ASSUME NoneAssumption == None \notin Inode \cup Runtime

VARIABLES
    pc,         \* where each runtime is inside vpcEnter or vpcLeave
    op,         \* which of the two it runs, or "none"
    up,         \* the runtimes whose network.Create returned: the VM is up
    fd,         \* the inode each runtime has open as its lock file
    held,       \* the runtimes that hold the flock on their inode
    todo,       \* the entries os.RemoveAll has listed and not yet removed
    runDir,     \* /run/atlas-vpc-<id> exists
    vmsDir,     \* /run/atlas-vpc-<id>/vms exists
    lockFile,   \* the inode that /run/atlas-vpc-<id>/lock names, or None
    markers,    \* the marker files in vms
    netOwner,   \* who holds /run/atlas-network.lock
    ns,         \* the namespace atlas-vpc-<id> exists
    veth,       \* the root end of the veth pair, as `ip link show` sees it
    vethSet,    \* the root veth is an element of the nftables veth_set
    settled,    \* history: runtimes whose last operation is a finished vpcLeave
    raced       \* history: a removal has overlapped another operation

local   == <<pc, op, up, fd, held, todo>>
files   == <<runDir, vmsDir, lockFile, markers>>
kernel  == <<ns, veth, vethSet>>
history == <<settled, raced>>
vars    == <<local, files, netOwner, kernel, history>>

\* The program points of both operations, in the order of the code.
Opening  == {"mkdir", "mkvms", "open", "flock"}
Entering == {"mark", "netlock", "netns", "link", "configure", "uplink",
              "netunlock", "entered"}
Leaving  == {"unmark", "readdir", "left"}
Removing == {"delelem", "delns", "rmlist", "rmall", "rmvms", "gone"}
Resting  == {"idle", "failed"}
Points   == Opening \cup Entering \cup Leaving \cup Removing \cup Resting

\* The points at which a runtime is inside its critical section.
Critical == (Entering \cup Leaving \cup Removing)

\* "half": the end in the namespace is not configured. "stray": the pair was
\* made while the namespace was gone, so both ends stayed in root. "dying": the
\* namespace of the pair is deleted, but the kernel destroys the devices of a
\* deleted namespace later, from a work queue.
VethStates == {"absent", "stray", "half", "attached", "dying"}

TypeOK ==
    /\ pc \in [Runtime -> Points]
    /\ op \in [Runtime -> {"enter", "leave", "none"}]
    /\ up \subseteq Runtime
    /\ fd \in [Runtime -> Inode \cup {None}]
    /\ held \subseteq {p \in Runtime : fd[p] \in Inode}
    /\ todo \in [Runtime -> SUBSET {"lock", "vms"}]
    /\ runDir \in BOOLEAN
    /\ vmsDir \in BOOLEAN
    /\ lockFile \in Inode \cup {None}
    /\ markers \subseteq Runtime
    /\ netOwner \in Runtime \cup {None}
    /\ ns \in BOOLEAN
    /\ veth \in VethStates
    /\ vethSet \in BOOLEAN
    /\ settled \subseteq Runtime
    /\ raced \in BOOLEAN

\* The residents' VMs are up, as after their vpcEnter; without residents the
\* node has just booted and /run is empty.
Init ==
    /\ pc = [p \in Runtime |-> "idle"]
    /\ op = [p \in Runtime |-> "none"]
    /\ up = Resident
    /\ fd = [p \in Runtime |-> None]
    /\ held = {}
    /\ todo = [p \in Runtime |-> {}]
    /\ runDir = (Resident # {})
    /\ vmsDir = (Resident # {})
    /\ lockFile \in (IF Resident # {} THEN Inode ELSE {None})
    /\ markers = Resident
    /\ netOwner = None
    /\ ns = (Resident # {})
    /\ veth = (IF Resident # {} THEN "attached" ELSE "absent")
    /\ vethSet = (Resident # {})
    /\ settled = Runtime \ Resident
    /\ raced = FALSE

-----------------------------------------------------------------------------
(* Steps.                                                                  *)

At(p, point) == pc[p] = point

\* History: a removal, from the empty directory listing to the unlock, ran
\* while another runtime was inside one of the two operations.
Overlap == \E p \in Runtime : /\ pc'[p] \in Removing
                              /\ \E q \in Runtime \ {p} : pc'[q] \notin Resting

Goto(p, point) == /\ pc' = [pc EXCEPT ![p] = point]
                  /\ raced' = (raced \/ Overlap)

\* The operation returns: the deferred unlock drops the flock and closes the
\* file.
Return(p) == /\ held' = held \ {p}
             /\ fd' = [fd EXCEPT ![p] = None]
             /\ op' = [op EXCEPT ![p] = "none"]

\* An error return. Nothing that the operation did before is undone.
Fail(p) == /\ Goto(p, "failed")
           /\ Return(p)
           /\ UNCHANGED <<up, todo, files, netOwner, kernel, settled>>

\* A runtime starts vpcEnter (POST /start, recovery, reboot), or vpcLeave
\* (POST /stop, which has already halted the VM and deleted its TAP).
Begin(p, o) ==
    /\ pc[p] \in Resting
    /\ o = "leave" => p \notin Resident
    /\ op' = [op EXCEPT ![p] = o]
    /\ up' = IF o = "leave" THEN up \ {p} ELSE up
    /\ settled' = settled \ {p}
    /\ Goto(p, "mkdir")
    /\ UNCHANGED <<fd, held, todo, files, netOwner, kernel>>

\* os.MkdirAll makes the run directory, then vms in it.
MkdirRun(p) ==
    /\ At(p, "mkdir")
    /\ runDir' = TRUE
    /\ Goto(p, "mkvms")
    /\ UNCHANGED <<op, up, fd, held, todo, vmsDir, lockFile, markers, netOwner, kernel, settled>>

MkdirVms(p) ==
    /\ At(p, "mkvms")
    /\ runDir
    /\ vmsDir' = TRUE
    /\ Goto(p, "open")
    /\ UNCHANGED <<op, up, fd, held, todo, runDir, lockFile, markers, netOwner, kernel, settled>>

MkdirFails(p) == At(p, "mkvms") /\ ~runDir /\ Fail(p)

\* An inode that no directory entry names and no runtime has open.
FreeInode(i) == i # lockFile /\ \A q \in Runtime : fd[q] # i

\* os.OpenFile with O_CREATE: opens the inode at the path, or makes one.
MutantOpenLock(p) ==
    /\ At(p, "open")
    /\ runDir
    /\ fd' = [fd EXCEPT ![p] = lockFile]
    /\ Goto(p, "flock")
    /\ UNCHANGED <<op, up, held, todo, files, netOwner, kernel, settled>>

OpenLock(p) ==
    /\ At(p, "open")
    /\ runDir
    /\ \/ /\ lockFile # None
          /\ lockFile' = lockFile
       \/ /\ lockFile = None
          /\ \E i \in Inode : FreeInode(i)
          /\ lockFile' = CHOOSE i \in Inode : FreeInode(i)
    /\ fd' = [fd EXCEPT ![p] = lockFile']
    /\ Goto(p, "flock")
    /\ UNCHANGED <<op, up, held, todo, runDir, vmsDir, markers, netOwner, kernel, settled>>

OpenFails(p) == At(p, "open") /\ ~runDir /\ Fail(p)

\* syscall.Flock(LOCK_EX) blocks while another runtime holds the same inode.
MutantFlock(p) ==
    /\ At(p, "flock")
    /\ held' = held \cup {p}
    /\ Goto(p, IF op[p] = "enter" THEN "mark" ELSE "unmark")
    /\ UNCHANGED <<op, up, fd, todo, files, netOwner, kernel, settled>>

Flock(p) ==
    /\ At(p, "flock")
    /\ \A q \in held : fd[q] # fd[p]
    /\ held' = held \cup {p}
    /\ Goto(p, IF op[p] = "enter" THEN "mark" ELSE "unmark")
    /\ UNCHANGED <<op, up, fd, todo, files, netOwner, kernel, settled>>

-----------------------------------------------------------------------------
(* vpcEnter, inside the lock: the marker, then ensureVPCNetwork under the  *)
(* network lock.                                                           *)

WriteMarker(p) ==
    /\ At(p, "mark")
    /\ vmsDir
    /\ markers' = markers \cup {p}
    /\ Goto(p, "netlock")
    /\ UNCHANGED <<op, up, fd, held, todo, runDir, vmsDir, lockFile, netOwner, kernel, settled>>

WriteMarkerFails(p) == At(p, "mark") /\ ~vmsDir /\ Fail(p)

\* The network lock is one file for the whole node, and nobody removes it.
NetworkLock(p) ==
    /\ At(p, "netlock")
    /\ netOwner = None
    /\ netOwner' = p
    /\ Goto(p, "netns")
    /\ UNCHANGED <<op, up, fd, held, todo, files, kernel, settled>>

\* `ip netns add` fails, harmlessly, when the namespace exists.
AddNamespace(p) ==
    /\ At(p, "netns")
    /\ ns' = TRUE
    /\ Goto(p, "link")
    /\ UNCHANGED <<op, up, fd, held, todo, files, netOwner, veth, vethSet, settled>>

\* `ip link show`, then createVeth only when it fails: a pair that a killed
\* runtime left half made is accepted. A first `ip` process makes the pair and
\* moves one end into the namespace, which works while that exists, ...
EnsureVeth(p) ==
    /\ At(p, "link")
    /\ veth' = CASE veth # "absent" -> veth
                 [] veth = "absent" /\ ns -> "half"
                 [] OTHER -> "stray"
    /\ Goto(p, IF veth = "absent" THEN "configure" ELSE "uplink")
    /\ UNCHANGED <<op, up, fd, held, todo, files, netOwner, ns, vethSet, settled>>

\* ... and a second, in the namespace, gives that end its addresses and routes.
ConfigureVeth(p) ==
    /\ At(p, "configure")
    /\ veth' = IF ns /\ veth = "half" THEN "attached" ELSE veth
    /\ Goto(p, "uplink")
    /\ UNCHANGED <<op, up, fd, held, todo, files, netOwner, ns, vethSet, settled>>

EnsureUplinkTable(p) ==
    /\ At(p, "uplink")
    /\ vethSet' = TRUE
    /\ Goto(p, "netunlock")
    /\ UNCHANGED <<op, up, fd, held, todo, files, netOwner, ns, veth, settled>>

\* The deferred unlock of ensureVPCNetwork.
MutantNetworkUnlock(p) ==
    /\ At(p, "netunlock")
    /\ Goto(p, "entered")
    /\ UNCHANGED <<op, up, fd, held, todo, files, netOwner, kernel, settled>>

NetworkUnlock(p) ==
    /\ At(p, "netunlock")
    /\ netOwner' = None
    /\ Goto(p, "entered")
    /\ UNCHANGED <<op, up, fd, held, todo, files, kernel, settled>>

Entered(p) ==
    /\ At(p, "entered")
    /\ Return(p)
    /\ up' = up \cup {p}
    /\ Goto(p, "idle")
    /\ UNCHANGED <<todo, files, netOwner, kernel, settled>>

-----------------------------------------------------------------------------
(* vpcLeave, inside the lock.                                              *)

MutantRemoveMarker(p) ==
    /\ At(p, "unmark")
    /\ Goto(p, "readdir")
    /\ UNCHANGED <<op, up, fd, held, todo, files, netOwner, kernel, settled>>

RemoveMarker(p) ==
    /\ At(p, "unmark")
    /\ markers' = markers \ {p}
    /\ Goto(p, "readdir")
    /\ UNCHANGED <<op, up, fd, held, todo, runDir, vmsDir, lockFile, netOwner, kernel, settled>>

\* Any entry ends the operation. A directory that cannot be read has none.
MutantReadDir(p) ==
    /\ At(p, "readdir")
    /\ Goto(p, IF Cardinality(markers) > 1 THEN "left" ELSE "delelem")
    /\ UNCHANGED <<op, up, fd, held, todo, files, netOwner, kernel, settled>>

ReadDir(p) ==
    /\ At(p, "readdir")
    /\ Goto(p, IF markers # {} THEN "left" ELSE "delelem")
    /\ UNCHANGED <<op, up, fd, held, todo, files, netOwner, kernel, settled>>

DeleteElement(p) ==
    /\ At(p, "delelem")
    /\ vethSet' = FALSE
    /\ Goto(p, "delns")
    /\ UNCHANGED <<op, up, fd, held, todo, files, netOwner, ns, veth, settled>>

\* `ip netns del` unlinks the name at once; the devices die later.
DeleteNamespace(p) ==
    /\ At(p, "delns")
    /\ ns' = FALSE
    /\ veth' = IF ns /\ veth \in {"half", "attached"} THEN "dying" ELSE veth
    /\ Goto(p, "rmlist")
    /\ UNCHANGED <<op, up, fd, held, todo, files, netOwner, vethSet, settled>>

\* os.RemoveAll lists the run directory, removes the entries it saw in the
\* order it saw them, then the directory itself if nothing else is in it.
RemoveAllList(p) ==
    /\ At(p, "rmlist")
    /\ todo' = [todo EXCEPT ![p] = {e \in {"lock", "vms"} :
                                       IF e = "lock" THEN lockFile # None ELSE vmsDir}]
    /\ Goto(p, "rmall")
    /\ UNCHANGED <<op, up, fd, held, files, netOwner, kernel, settled>>

RemoveAllLock(p) ==
    /\ At(p, "rmall")
    /\ "lock" \in todo[p]
    /\ lockFile' = None
    /\ todo' = [todo EXCEPT ![p] = @ \ {"lock"}]
    /\ Goto(p, "rmall")
    /\ UNCHANGED <<op, up, fd, held, runDir, vmsDir, markers, netOwner, kernel, settled>>

\* Removes the markers it finds in vms, then tries to remove vms.
RemoveAllMarkers(p) ==
    /\ At(p, "rmall")
    /\ "vms" \in todo[p]
    /\ markers' = {}
    /\ todo' = [todo EXCEPT ![p] = @ \ {"vms"}]
    /\ Goto(p, "rmvms")
    /\ UNCHANGED <<op, up, fd, held, runDir, vmsDir, lockFile, netOwner, kernel, settled>>

RemoveAllVms(p) ==
    /\ At(p, "rmvms")
    /\ vmsDir' = (vmsDir /\ markers # {})
    /\ Goto(p, "rmall")
    /\ UNCHANGED <<op, up, fd, held, todo, runDir, lockFile, markers, netOwner, kernel, settled>>

RemoveAllDir(p) ==
    /\ At(p, "rmall")
    /\ todo[p] = {}
    /\ runDir' = (runDir /\ (vmsDir \/ lockFile # None))
    /\ Goto(p, "gone")
    /\ UNCHANGED <<op, up, fd, held, todo, vmsDir, lockFile, markers, netOwner, kernel, settled>>

\* The deferred unlock, after the removal or without one.
Left(p) ==
    /\ At(p, "left") \/ At(p, "gone")
    /\ Return(p)
    /\ settled' = settled \cup {p}
    /\ Goto(p, "idle")
    /\ UNCHANGED <<up, todo, files, netOwner, kernel>>

-----------------------------------------------------------------------------
(* The environment.                                                        *)

\* The runtime is killed. systemd kills the whole control group, so the VM
\* dies with it; the kernel drops the locks; files and devices stay.
Crash(p) ==
    /\ p \in Killable
    /\ pc[p] \notin Resting \/ p \in up
    /\ up' = up \ {p}
    /\ Return(p)
    /\ netOwner' = IF netOwner = p THEN None ELSE netOwner
    /\ todo' = [todo EXCEPT ![p] = {}]
    /\ Goto(p, "idle")
    /\ UNCHANGED <<files, kernel, settled>>

\* The kernel destroys the devices of a deleted namespace.
ReapVeth ==
    /\ veth = "dying"
    /\ veth' = "absent"
    /\ UNCHANGED <<local, files, netOwner, ns, vethSet, history>>

-----------------------------------------------------------------------------

\* The steps that a runtime takes by itself and cannot be made to wait for.
Proceed(p) ==
    \/ MkdirRun(p) \/ MkdirVms(p) \/ MkdirFails(p)
    \/ OpenLock(p) \/ OpenFails(p)
    \/ WriteMarker(p) \/ WriteMarkerFails(p)
    \/ AddNamespace(p) \/ EnsureVeth(p) \/ ConfigureVeth(p) \/ EnsureUplinkTable(p)
    \/ NetworkUnlock(p) \/ Entered(p)
    \/ RemoveMarker(p) \/ ReadDir(p) \/ DeleteElement(p) \/ DeleteNamespace(p)
    \/ RemoveAllList(p) \/ RemoveAllLock(p) \/ RemoveAllMarkers(p)
    \/ RemoveAllVms(p) \/ RemoveAllDir(p) \/ Left(p)

Next ==
    \/ \E p \in Runtime : \/ \E o \in {"enter", "leave"} : Begin(p, o)
                           \/ Proceed(p)
                           \/ Flock(p)
                           \/ NetworkLock(p)
                           \/ Crash(p)
    \/ ReapVeth

Spec == Init /\ [][Next]_vars

\* A runtime that can run does run. Waiters of a flock are woken in turn, so a
\* lock that is free again and again is taken: strong fairness on both locks.
Fairness ==
    /\ \A p \in Runtime : /\ WF_vars(Proceed(p))
                          /\ SF_vars(Flock(p))
                          /\ SF_vars(NetworkLock(p))
    /\ WF_vars(ReapVeth)

FairSpec == Spec /\ Fairness

-----------------------------------------------------------------------------
(* Properties.                                                             *)

\* The namespace and the marker of a VM stay for as long as the VM is up
\* (vpcLeave deletes the namespace only when no VM remains): docs/network.md
\* "The namespace stays while that directory holds files".
NamespaceHeld == \A p \in up : p \in markers /\ ns

\* A VM that is up has the veth pair of its VPC, in the NAT set of the uplink
\* (ensureVPCNetwork "Create namespace, veth, and uplink NAT if missing").
UplinkHeld == up # {} => veth = "attached" /\ vethSet

\* While some VM of the VPC stays, vpcEnter and vpcLeave never meet a missing
\* directory: neither returns an error.
NoFailedOperation == \A p \in Runtime : pc[p] # "failed"

\* fileLock "is used to coordinate between multiple atlas-runtime processes":
\* two runtimes are never inside vpcEnter or vpcLeave of one VPC together.
LockExclusive == \A p, q \in Runtime : pc[p] \in Critical /\ pc[q] \in Critical => p = q

\* Without the overlap of a removal with another operation, the namespace of a
\* running VM stays and no operation fails: the deleted lock file is the only
\* way in which the lock of vpcEnter and vpcLeave is unsound.
HeldUnlessRaced == raced \/ (NamespaceHeld /\ NoFailedOperation /\ LockExclusive)

\* When every VM of the VPC has been stopped, vpcLeave of the last one has
\* removed the namespace, the markers, the run directory and the set element,
\* whatever crashes came before.
LastLeaveCleans ==
    (~raced /\ settled = Runtime) => ~ns /\ markers = {} /\ ~runDir /\ ~vethSet

\* Every vpcEnter and every vpcLeave ends: the two nested locks never
\* deadlock, on live and on deleted lock files, and no path keeps a lock.
OperationsFinish == \A p \in Runtime : pc[p] \notin Resting ~> pc[p] \in Resting

=============================================================================
