# Formal model of atlas-runtime

atlas-runtime runs one Firecracker VM per process. It prepares the disk,
configures and boots Firecracker, joins the VM to a VPC (a network namespace
shared by the VMs of one tenant on a node), learns from beacon where the other
VMs of that VPC are, and serves an HTTP API. This directory holds TLA+ modules
of the parts that carry state across steps, TLC configurations that check them
on small instances, and proofs that TLAPS checks.

    tlc -config lifecycle.cfg MCLifecycle.tla     # one run
    tlapm LifecycleProofs.tla                     # the proofs of one module

## 1. Inventory

| Component | State it keeps | Operations | Talks to |
|---|---|---|---|
| VPC namespace and file lock (`vpc.go`, `helpers.go`) | `/run/atlas-vpc-<id>` with `lock` and `vms/<vm>`, the namespace, the veth pair, the nftables set, `/run/atlas-network.lock` | `vpcEnter`, `vpcLeave`, `ensureVPCNetwork`, `fileLock` | the kernel, and the runtimes of the other VMs through the files |
| Lifecycle (`runtime.go`, `firecracker.go`, `disk.go`, `metadata.go`, `main.go`) | `metadata.json` and its copy in memory, the rootfs, `vm.PID`, the API socket, the FIFOs, the TAP | `Start`, `Stop`, `Reboot`, recovery in `Run`, `CreateSnapshot` | Firecracker, systemd, network, console |
| VPC membership (`vpc_remote.go`, `vpc_members.go`, `beacon.go`) | the object of the VM in beacon, members and revision in memory and in `vpc-members.json`, routes | publish, watch, remember, forget, withdraw | beacon, the namespace, the watchers of the other VMs |
| Configuration (`config.go`, `api.go`, `runtime.go`) | `config.toml` and its copy in memory, public addresses, firewall | `mutateConfig`, `Reload`, `Resize`, `ResizeRootfs`, `applyConfig` | network, Firecracker |
| Network of a VM (`network.go`) | TAP, nftables table, tc | `Create`, `Delete`, `SetFirewall`, `SetBandwidth`, `SyncPublicIP*` | VPC namespace, membership |
| Addresses (`vpc.go`, `helpers.go`) | none | `vpcVethAddress4/6`, `guestIPv6`, `guestMAC` | - |
| Snapshots (`snapshot.go`, `runtime.go`) | snapshot directories | publish, list, delete | disk |
| Console (`console.go`, `api.go`) | ring of output, WebSocket clients, tokens | attach, detach, stream, write | FIFOs of Firecracker |
| Image cache (`image.go`) | downloaded images | `ResolveImage` | HTTP |
| Node configuration, units, dashboard, scripts | none of their own | - | - |

What is hard in this code:

* **Nothing but files coordinates the processes.** The runtimes of one VPC share
  a directory whose lock file is deleted by the process that holds it, and a
  namespace whose routes are written by every watcher.
* **Requests are not serialized.** `net/http` runs each in a goroutine and the
  runtime has no lock but the snapshot mutex, so `Start`, `Stop`, `Reboot` and a
  snapshot interleave at every call.
* **The process may die anywhere.** systemd kills the whole control group and
  starts the runtime again, which decides by what `metadata.json` says.
* **Firecracker and beacon answer late or not at all**, and have then perhaps
  done what they were asked; a process that was sent SIGKILL lives on for a while.
* **Errors are dropped**: of the saves of `metadata.json` in `Start` and `Stop`, of the
  console attach, of most commands.
* **Cached knowledge is applied before it is confirmed** (`vpc-members.json`).

What makes each component correct:

* namespace: a VM that is up keeps its marker, its namespace and its uplink;
  the last one out removes everything; the nested locks never deadlock;
* lifecycle: at most one Firecracker that nobody has told to die, a stop that halts it, a
  disk that is never made twice, metadata written before the act, requests that can go on;
* membership: the cache is exact up to its revision, routes follow the VMs,
  local routes are left alone, a withdrawn address stays withdrawn;
* configuration: no update is lost, what is saved is valid, what is applied is
  what is saved;
* addresses: no two VPCs share one;
* network: the chains of any number of VMs pass exactly what their rules allow;
* snapshots: a directory under its final name is complete, also after power loss;
* first start: a VM that is initialized has a whole disk, whatever its sources
  went through meanwhile;
* console: the ring is the end of the output, a client misses nothing between
  the history and the live output, a token opens one session while it is valid.

`PROJECT.json` lists the hazards at their source lines, with the properties that
cover them, and every definition with the lines it models.

## 2. Modules

### VpcNamespace

One process per VM of the VPC. `pc[p]` is the program point inside `vpcEnter` or
`vpcLeave`, and one system call or command is one step: `os.MkdirAll` makes two
directories, `os.OpenFile` and `flock` are apart, `os.RemoveAll` lists, removes
entry by entry and removes the directory at last. The lock path (`lockFile`)
names an *inode*, and `fd[p]` is the inode that a runtime has open, because
`flock` locks inodes and the last leaver unlinks the one it holds. `Crash` kills a runtime at any
point: the kernel drops its locks, files and namespace stay. `ip netns del`
removes the name at once while the devices go later (`veth = "dying"`,
`ReapVeth`). `createVeth` is two ip processes, `EnsureVeth` and `ConfigureVeth`, with a veth that
is there and not configured (`"half"`) in between. `settled` and `raced` are history variables for the properties: who
has finished its `vpcLeave`, and whether anybody was busy while a runtime was at one of
the points `Removing`, from the first deletion to the end of `os.RemoveAll`.

### Lifecycle

The goroutines of one runtime (`Handler`, and `Main` for recovery) as program
counters over shared memory. `Marshal` and `Rename` are apart because
`SaveMetadata` may be overtaken between them, and `RenameFails` is a save that fails: `Start` and
`Stop` drop its error and act, with memory ahead of the file (`stale`). A Firecracker process goes `new`
(spawned), `idle` (socket made), `configured`, `booted`; it fails to start when
the socket path is taken, as Firecracker does. SIGKILL makes it `killed`, or `dying` if its guest had
booted: `Firecracker.Stop` does not wait, so the process keeps its TAP, and its last writes may land, until it
`Dies`; it is `exited` until it is reaped, which `Running` sees as well. `console` says whether a reader has the output
FIFO open: it may have failed to attach (`failed`) or have ended with an error (`dead`), and `Start` goes on either
way, to an open that then blocks. `Configure` stands for the five
PUT requests before `InstanceStart`, which change nothing until the boot.
`Restart` is the death of the control group with the restart by systemd;
`KillSelf` is the same effect reached by `kill(0, SIGKILL)` when one `Stop` has
cleared `vm.PID` under another. `Fault` selects the outside failures of a run.
`Together` says which operations two handlers may run side by side, and
`overlap` records that two did.

### VpcMembership

Every VM with its runtime, watcher, cache and node; beacon as an external log of
changes whose index is the timestamp. A subscriber is sent the last change of
each object after `since` and then every change, in order (`Unsent`): that order
is an assumption about beacon, and the `since` scheme of the code depends on it. An address
stands for its VM and a GRE address for its node. `Learn` is `rememberMember`
and `forgetMember`: memory always, the file only on a change. `Receive` and
`Route` are two steps, so that a kill can come between. `AddTap` is `route add`,
which does not replace, and `Route` is `route replace` or a `route del` that
removes whatever is there. `Outage`, `PublishUnanswered` and `Disconnect` are
beacon out of reach, an answer lost after the Put took effect, and a broken
watch. `Move` carries a stopped VM's machine directory to another node. A runtime that
was killed in a stop (`halted`) may be stopped once more, and does not know its TAP then. The
routes of `applyCachedMembers` are one step here and one per member in the code.
Two history variables name the nodes whose routes nobody promises: on those of `cut` a watcher was
killed between forgetting a VM and removing its route, on those of `behind` one was stopped, or killed in the
middle of a stop, while a route that it could have put right was out of date (section 6). Both are
cleared with the namespace, when the last VM leaves the node.

### ConfigStore

What is asked for (`file`, config.toml), what the runtime holds (`config`,
`netband` and `firewall` are the parts of `instance.config`, `network.config` and
`network.firewall` that are read again), what `metadata.json` remembers
(`saved`; `metaip` and `desired` are its copy in memory, ahead of it when a save has failed) and what is in force (`dnat`, `snat`, `band`, `fw`,
`routes`, `disksize`). A handler loads, changes and validates in one step, since
nothing can be seen between, then saves, then applies in the steps of
`applyConfig`, each of which may be the last. `Start` and `Stop` are the steps
that touch these variables; how Firecracker gets there is `Lifecycle`. A
value that `Validate` refuses is the one value `Invalid`; a public address stands
for both families; a limit is there or not. `dirty` and `unvalidated` are
history variables: something saved has not been applied, config.toml was last
written without `Validate`.

### VethAddress

The address arithmetic of the veth pairs, with its theorems in the same module.

### SnapshotSet and Snapshots

`SnapshotSet` is the promise: a set that snapshots enter whole and in one step,
and from which a power loss takes nothing that was acknowledged. `Snapshots` is
the code: `CreateSnapshot` and `publishSnapshot` under `snapshotMutex`,
`DeleteSnapshot`, which takes no lock, `ListSnapshots` as `Listed`. One system
call is one step. For durability each directory has its name now (`place`)
and the names that a power loss may leave (`landing`), and its entries now
(`entries`) and the bounds of what a power loss leaves of them (`must`,
`may`); `fsyncDir` is what closes the gap. `PowerLoss` chooses within those bounds, `Kill` is the
death of the runtime alone, `Fails` any error return. `Abstract` is the refinement mapping: a snapshot is in
the set when it is listed and nobody has asked to delete it.

### FirstStart

The composition of the image cache, `PrepareRootfs` and the snapshots: new VMs,
each with a runtime of its own, on one node. It EXTENDS `Snapshots`, whose VM is
an older one that makes and deletes the snapshots the new ones boot from. A
download, `cp` and the growth are steps of their own; an image is identified with
its file name in the cache; `flushed` and `settled` say what a power loss cannot
tear any more.

### Console

Output is numbered by the guest, so that order and loss can be told; a unit is
what one cell of the ring holds. `rpc[r]` is the program point of a reader
goroutine (`select`, `file.Read`, then the parts of `write`), `cpc[c]` that of a WebSocket request. The runtime
holds the write end of the FIFO open, so `Detach` wakes no reader: a cancelled
one stays in `Read` beside its successor, and takes output from it. `ReadRing` may return the ring itself
as `append` with nothing to add does; it is then sent cell by cell
(`unsent`, `SendCell`) as each is at that moment, because `WriteMessage` copies to its buffer what fits and takes the
rest later. `Check` looks at the time after `Present` has taken the token out of the table. `ReadFails` ends
a reader while `console.cancel` stays set. `Start`, `Stop` and `Reboot` come one at a time here, in the
order of their calls that the console can see. `stored`, `received`, `admitted`, `torn` and `lingered` are
history variables.

### PacketFilter

Operators only: what `fwRules`, `ruleLines`, `dnsRules` and the forward chain of
`setupNftables` render, as sequences of sets of statements, what nftables does with them
(external: the first statement with a verdict decides; an accept ends one base chain, a
drop ends the packet), and beside it the policy in the words of `config.go` and `docs/network.md`.

### How they compose

`FirstStart` is `Snapshots` with the runtimes that read it, joined in one
next-state relation. `PacketFilter` takes the rules that `ConfigStore` says are in force.
`Lifecycle` calls the namespace through `CreateNetwork` and `DeleteNetwork`,
which it reduces to the TAP of the one VM; `ConfigStore` looks at the same starts and stops for what they do to the
configuration; `VpcNamespace` refines the calls of
several runtimes; `VpcMembership` takes `vpcEnter` and `vpcLeave` as single
steps, which is what `VpcNamespace` shows of them while no removal races.

## 3. Runs

| Run | Instance | Shows |
|---|---|---|
| `vpc_resident` | one VM that stays, two that enter, leave and are killed | `NamespaceHeld`, `UplinkHeld`, `NoFailedOperation`, `LockExclusive` |
| `vpc_removal` | two VMs from an empty node, one of them killed | `LastLeaveCleans` after every crash, `HeldUnlessRaced`, `OperationsFinish` (liveness) |
| `vpc_race` | the same, no kills needed | **violation** of `NamespaceHeld` |
| `lifecycle` | every operation and fault, two starts or two stops side by side | `ImageReady`, `RootfsKept`; `OneProcess`, `StoppedIsHalted`, `SavedWhenQuiet`, `WrittenBeforeActed`, `NeverStuck` of requests that come one after another |
| `lifecycle_copy` | one request at a time, nothing fails | **violation** of `OfflineCopyQuiet` |
| `lifecycle_recovery` | kills during the first start | **violation** of `RecoveryBoots` |
| `membership` | a VM that moves between two nodes, a watcher on a third, one outage | `CacheCoversRevision`, `OtherNodesFollow`, `WithdrawnStays`, `WatchersCatchUp` (liveness) |
| `membership_shared` | two watchers in one namespace, one of them stopped and killed at any step, also in the middle of a stop, a remote VM that comes and goes | `LocalRouteKept`, `NoStaleRoute` |
| `membership_moved` | a VM that moves to a node with a watcher | **violation** of `MovedVmReachable` |
| `config` | one request at a time of every kind, every failure, hand edits, kills | `AppliedIsSaved`, `DiskCoversConfig`, `RefusedOnlyUnvalidated`, `DiskNeverShrinks` |
| `first_start` | two new VMs, one image, one snapshot of an older VM, failures, kills and power losses | `InitializedIsWhole`, `ListedIsComplete`, `KeepsAcknowledged` (the refinement of `SnapshotSet`) |
| `console` | a guest that is started, stopped and rebooted, two readers, two clients, one token | `RingIsTail`, `ClientSeesSuffix`, `OrderKept`, `TokenOnce`, `OutputIsRead` (liveness) |

Bounds, and why they are enough:

* Three runtimes in `vpc_resident`: the interference of this protocol is between
  a leaver, an enterer and a witness. `vpc_removal` has two, since `raced` already needs
  only two; two inodes suffice for the file at the path and the deleted one,
  and `FreeInode` blocks nobody in these instances.
* Two processes in `Vmm` are the one that was killed and the one that is spawned beside it. With both
  still there a `Spawn` waits for one to be reaped: a third would be spawned beside a second that was killed
  as well, which the first two show already. Process ids are not reused.
* Two handlers: the races of `runtime.go` are pairwise (one handler reads what
  another is about to change). Together they run what the order of `initialize` and the
  exclusive create have to withstand, two starts, and two stops, one of which clears `vm.PID`
  under the other (`Together`). The properties with `overlap` are promises to a caller who waits for
  each answer, and hold again after the next restart of the runtime.
* `MaxRevision` is 5 for a publication by each VM, a withdrawal, a move and a second
  publication and withdrawal; in `membership_shared`, where no VM moves, for three
  publications and two withdrawals. That run starts in a state of the specification in which the
  remote VM is up already (`SharedInit`), which leaves out how its start interleaves with
  the others' and nothing of what its withdrawal meets. `Room` reserves
  what is needed to finish, so the bound stops new operations and never a half
  finished one. `Outages = 1` gives one loss at every point.

* Three sizes in `config` are a disk, a resize that fails halfway and a retry in
  between; two addresses and two firewalls are an old and a new one. The hand
  edits of that run are of the resources and the firewall (`Editable`): the first
  may be invalid, the second is live, and a reload applies every live setting
  along the path of a request. One handler, because with two the
  code does lose updates (section 6).

* Two new VMs in `first_start` race for one image or one snapshot, or boot from
  different things; one snapshot is enough, because snapshots share no file and
  `SyncParent` settles every name. Power losses are not counted.
* In `console` a ring of two cells, reads of up to two units and three units of
  output wrap the ring inside a write, exactly at its end, and leave it half full. Two readers
  are the one that lingers and its successor; when both are used up a start goes on without a console,
  as it does when `Attach` fails. Two clients are
  one that a reader is sending to and one that connects meanwhile. A `Kill` is a
  new runtime, and `log` is what one runtime appends to console.log.

`CHECK_DEADLOCK FALSE` stands in the membership runs, where with the bound
reached and no request coming in a system that has caught up does stop; in
`first_start`, where new VMs without a boot source, or all initialized, have nothing left to do;
and in `console`, where a guest that has said all it may and has no readers to start is quiet.

Symmetry is used in `config` (addresses, firewalls), in `vpc_resident` (the two runtimes that are not resident have
the same rights), in `lifecycle` (the handlers) and in `first_start` (the new VMs, the snapshots), none of which checks liveness.

## 4. Fairness

* `VpcNamespace`: weak fairness of each runtime's own steps, and strong fairness of
  the two lock acquisitions, because the kernel wakes the waiters of a `flock`
  in turn. Starting an operation and being killed are not fair.
* `Lifecycle` states safety only. `NeverStuck` says that every goroutine in an operation
  can take a step, with the failures of Firecracker as the time limits of the waits for it.
* `VpcMembership`: weak fairness of each watcher goroutine. `WatchersCatchUp` is
  conditional on beacon staying reachable in the end.
* `Console`: weak fairness of the steps of a reader that wait for nobody (`Loop`). A write to a client has no
  deadline, so nothing is assumed of `Send`; `OutputIsRead` is conditional on no reader staying in a write for
  ever. Requests, the guest and clients are not fair.
* `Snapshots` and `FirstStart` state safety only.

## 5. Proofs

TLC checks the instances above; these hold for every value of the constants.

* `VpcNamespaceProofs`: `TypeCorrect`; and with at least one
  resident VM `NamespaceSafe` (`NamespaceHeld`), `UplinkSafe` (`UplinkHeld`),
  `OperationsSucceed` (`NoFailedOperation`) and `LockSound` (`LockExclusive`),
  for any number of runtimes and with kills everywhere. Argument: `Kept` (directory, lock file, namespace and uplink
  exist, and nobody is at a removing point), `OneLock` (every open file is the
  one inode at the path, so `flock` excludes) and `Marked` (markers of VMs that
  are up are there and the residents' markers never go). None is inductive
  alone: the lock file stays because no removal starts, no removal starts
  because the listing is never empty, and it is never empty because the
  resident's marker is only removed by its owner.
  With no resident, for any number of runtimes and kills: `OnlyRemovalRaces`
  (`HeldUnlessRaced`), `LastCleans` (`LastLeaveCleans`), and `ResidentNeverRaced`, that the
  race cannot happen where there is a resident. Argument (`RemovalInv`): until a removal has been
  overlapped, a runtime that removes is alone (`Apart`), so the others find what they made
  (`Directories`), all lock the inode at the path (`Locked`), and a marker stands for
  the namespace (`InUse`); whatever is left is owed by a runtime that has not finished leaving, and
  a removal ticks it off piece by piece (`Settling`), also when it is killed in between and another
  runtime starts over. The markers that a removal found empty stay
  empty because of `Apart`, and `Apart` is `~raced` itself, step by step.
* `LifecycleProofs`: `TypeCorrect` (with `Shape`, which ties program points to
  operations); `RootfsComplete` (`ImageReady`) and `DiskKept` (`RootfsKept`), for any number of
  requests and processes. Argument: `Ready` says of every place that may later
  claim "initialized" (memory, file, buffers in flight, program points after
  `initialize`, configured processes) that the rootfs is ready. It needs
  `Alone` (while no two handlers overlapped one goroutine is busy) where the
  filesystem cannot clone, and the exclusive create of `cloneFile` where it can
  (`OneMaker` is the disjunction).
  To requests that come one after another it promises more, for any number of requests and processes, every failure and every restart: `OneProcessAlive`
  (`OneProcess`), `StopHalts` (`StoppedIsHalted`), `MetadataSaved`
  (`SavedWhenQuiet`), `DesiredFirst` (`WrittenBeforeActed`), the last two unless the last save has failed, and `CopyHalted`: an offline
  snapshot is copied when every process that is left has been told to die, which is all that is
  left of `OfflineCopyQuiet`.
  Argument (`SerialInv`): while no two handlers have overlapped, at most one goroutine is busy (`OneBusy`), the
  file is what memory is except between marshalling and renaming and after a save that failed (`Saved`),
  what memory says is wanted agrees with the operation in progress (`Wanted`, `Stopped`), and `vm.PID` is the
  only process that nobody has told to die (`OneVmm`). That last part fails as soon as two
  handlers overlap; it is what makes `Running`, a test of that PID alone, mean that nothing is left to halt (`Emptied`).
* `ConfigStoreProofs`: `TypeCorrect` for any number of concurrent requests; and
  for one request at a time (`Serial`) `DiskSafe` (`DiskCoversConfig`) and `DiskGrows` (`DiskNeverShrinks`). `Disk` says what a handler that is about to
  truncate, to run resize2fs or to save knows of the file, and that memory
  and config.toml name one size except between save and apply; it needs `Alone`,
  since a second handler makes what the first has read untrue.
  `OnlyUnvalidatedRefused` (`RefusedOnlyUnvalidated`) holds for any number of concurrent
  requests: a mutation validates its own copy, so whichever save comes last leaves a
  file that is valid or marked (`Refusal`). `SavedIsApplied` (`AppliedIsSaved`) is for `Serial` again:
  `Memory` says which parts of the runtime's memory follow the file at which point, and
  `Network` what is in force between the steps of `CreateNetwork` and `applyConfig` (`Progress`). It needs
  to know that the tables hold the address of `metadata.json` or none (`InForce`), because
  it is that address that the next reload takes away.
* `SnapshotsProofs`: `TypeCorrect`, `OnlyCompleteListed` (`ListedIsComplete`) and
  `Implements` (`KeepsAcknowledged`): every step of the code is a step of
  `SnapshotSet` or none, for any number of snapshots. Argument: `Durable` says that
  a final name a power loss *may leave* stands for a complete snapshot with every part on
  the disk (`Complete`), not only a final name that is there now; `Working` follows what the
  request has written and synced before it renames.
  The same module treats `FirstStart`. `NodeRunsSnapshots`: the node runs `Snapshots`, so all of this
  holds beside the new VMs (`NodeKeepsSnapshots`), since they write nothing of the older
  one's. `NodeTypeCorrect` (`NodeTypeOK`) and `InitializedWhole` (`InitializedIsWhole`), for any number of
  VMs, images and snapshots: a download that is renamed is finished and what `cp` has open is whole
  (`Starting`). The second rests on `OnlyCompleteListed`: a snapshot that a new VM can
  open has its rootfs to the end, and a file that is open survives its deletion.
* `PacketFilterProofs`: `FirewallIsPolicy`, `DenyByDefault`, `SenderDecides`,
  `BothVmsDecide`, for any rules, nameservers, packets and number of VMs. Argument: the only drop is the last
  statement (`FinalDrop`), so first match is "some line accepts"; each item of the configuration
  renders to lines that accept what it permits (`RuleMeaning`), ports of 0 included; in a
  namespace the tables in series drop nothing that is not for their own TAP. No run: the module has no
  state.
* `ConsoleProofs`: `TypeCorrect`, `TokenUsedOnce` (`TokenOnce`), `RingHolds`
  (`RingIsTail`), `OrderHolds` (`OrderKept`) and `ClientsSeeSuffix` (`ClientSeesSuffix`), for any number of readers, requests and tokens and any size of the ring. Argument
  (`RingInv`): the cells up to the position hold the last units, those behind it
  the units before them; a write goes over the end at most once, because a
  read is never longer than the ring. For the order (`OrderInv`): a reader that still
  runs is attached or cancelled, so one is started beside another only when it
  `lingered`; while there is one (`OneReader`), the log, then the ring, then what the
  reader holds, then the FIFO have the output in its order (`Ordered`). For the clients (`ClientInv`): what one was
  sent, with what readers are about to send it, is an end of the output of some length (`Suffix`), because
  a reader takes the list of clients in the same lock in which it writes the ring; the history is
  an end that is no shorter. Where it is the ring itself, what is sent and what is
  left to send are that end together until a write goes to a cell that is left, which puts the client in `torn`. For the
  tokens (`TokenInv`): a request between `Present` and `Check` is the only one that was shown its token.
* `VpcMembershipProofs`: `CacheExact` (`CacheCoversRevision`), `LocalRoutes`
  (`LocalRouteKept`) and `Withdrawn` (`WithdrawnStays`), for any nodes, VMs, changes and restarts.
  Argument: what a watcher was sent beyond the revision of its cache says nothing new of VMs on other
  nodes, so that the cache is the fold of the log up to that revision (`Behind`, `Exact`); nobody
  on a node that no VM has moved to or from caches or routes one of its own
  (`Local`, `Tap`). That the changes after a revision have a first and a last one
  (`Counted`) is proved along the steps that lengthen the log, since an induction over the numbers is not available.
  `NodesFollow` (`OtherNodesFollow`) and `NoneStale` (`NoStaleRoute`), of the routes once all is
  quiet, come from an invariant of every state (`Following`): on a node that no VM has moved to or from,
  the route to a VM that was never there is right, or a watcher that runs there still `Owes` it (it has not been
  sent the last change, is about to apply a cache that has it, or has it in hand), or none
  runs and whichever starts first will owe it; or the node is in `cut` or `behind`. With
  `AllSynced`, that memory and file say the same of the members, and with `Exact` a cache that is
  applied can put back an old route only if its watcher is then sent the newer change.
  `TypeCorrect` (`TypeOK`) has the bounds of the runs as well: `Bounded` counts the VMs that are
  still to publish and to withdraw, which is what `Room` keeps free. It assumes that there are finitely
  many VMs.
* `VethAddress`: for every id that `config.go` accepts the addresses of two VPCs are
  disjoint in both families, stay in the masqueraded ranges, form a /31 and a
  /127, and avoid the TAP address. The mask sends the last id to 0, not onto a
  neighbour.

Assumptions, beyond those on the constants in the modules: a resident (`Resident # {}`) where said,
one request at a time (`Serial`, and `~overlap` inside the properties of `Lifecycle`) where said. The race that
`vpc_race` shows and the updates that two handlers lose are what happens without them.

Every invariant and action property of the passing runs but one, and the refinement, is the statement of a
theorem. Only model-checked are `NeverStuck` and the three liveness properties `OperationsFinish`,
`WatchersCatchUp` and `OutputIsRead`: fairness and ENABLED are out of this prover's reach.

## 6. Findings

* `vpc_race`: `vpcLeave` removes the lock file it holds. A VM that starts at
  that moment locks a new inode, and loses its marker to `os.RemoveAll`; the next
  leaver then deletes the namespace under it.
* `lifecycle_recovery`: the rootfs gets its final name before `initialized` is
  saved. A runtime that dies in between can never start the VM again.
* `lifecycle_copy`: `Firecracker.Stop` returns when it has sent SIGKILL, and the offline snapshot is copied at
  once: the process may still be exiting, and its last writes land while `cp` reads the disk, against
  `docs/disk.md` "Atlas stops the VM for the length of the copy".
* `membership_moved`: a VM that moves to a node with a running watcher may lose
  its local route to the tombstone of its old place, and nothing restores it.

Seen in the models, with no run of their own: a reboot of a stopped VM sets
`desired_state` to running, against `docs/state.md`. `mutateConfig` takes no
lock, so one of two concurrent updates is lost, and two concurrent
`POST /rootfs` may cut the disk or grow the filesystem of a VM that has just
started. A resize2fs that failed is not repeated by the retry. `Resize` and
`ResizeRootfs` save without `Validate`, so that the runtime may refuse its own
config.toml at the next start. `Stop` forgets a public address without removing its route.
A `POST /stop` beside a `POST /start` that has not spawned yet succeeds, and the VM
boots afterwards. A firewall that is set while a VM with a bandwidth
limit is stopped is saved, but `applyConfig` returns at the limit and the next
start builds the old firewall. A console reader that was cancelled and still waits
breaks the order of ring and console.log after a restart of the VM. A torn
image in the cache after a power loss is never downloaded again. Each watcher on a node programs
what it was last sent, so a slow one, or one that has just applied an old cache, puts an older route over
the newer one of its neighbour; stopped before it is sent the rest (`vpc_remote.go:110`, `:131`), it leaves the
route wrong for the VMs that stay, against `docs/network.md` "the other nodes move the route".
The proof of `NodesFollow` found this one: an instance in which the second watcher could only be
killed had not. Readers and the
handler that sends the history may write to one WebSocket at once, where the library panics.

Also seen, from errors that are dropped and from kills:

* A save of `metadata.json` that fails does not keep `Start` and `Stop` from acting, against `docs/state.md` "Atlas
  writes this value before it acts on it": a restart then decides by the old value.
* Where the console cannot be attached, or its reader has failed (`console.cancel` stays set then, so that no
  later `Start` attaches again), the open of the output FIFO blocks: the request never answers, and
  a recovery that meets it never lets the API serve.
* A kill inside `createVeth` leaves a veth that `ip link show` finds and nothing completes: the namespace has no uplink.
* After a kill in the middle of a stop, a second stop does not know the name of the TAP: the TAP and its route stay
  until the last VM leaves the namespace.
* A client of the console that connects when the ring is full and its position is 0 is sent the ring itself; output that comes
  meanwhile leaves a gap in its history. One client that does not read stops the output of all, since
  no write to a WebSocket has a deadline.

## 7. Not modelled, and why

* Reuse of process ids (`Running` tests a bare PID) and torn reads of Go data
  races: a model of them would say only that everything is possible.
* A file of the snapshots directory named `.tmp-<id>`, which `DELETE` would take too (nobody is told the name); the
  early returns of `routeMember` when the lock file or the tunnel cannot be made, after which the cache has a member whose
  route is not there; the first `SaveMetadata` of `NewRuntime` failing, which ends the process. The failing saves of
  `Start` and `Stop` are in `Lifecycle` and not again in `ConfigStore`, whose failing save is the one of `applyPublicIPs`.
* In `ConfigStore`, a start between the `Running` test of `ResizeRootfs` and `resize2fs`: it takes a
  second request.
* That requests end: `Lifecycle` has no liveness property, since a request may wait for a FIFO reader for ever.
* Development mode, where Ctrl-C ends the runtime and Firecracker survives.
* In the configuration: the SSH keys and other MMDS contents, the disk limits (their
  errors are ignored by the code), config.toml that does not parse, a namespace without
  an uplink (no table then), the length of the filesystem inside the disk.
* The setup of the tunnel, the GRE filter, masquerading and the MSS clamp, tc and
  nft syntax, MMDS contents. A rule whose two addresses are of different families is valid for
  `Validate`; nft refuses the whole script, `runScript` drops the error, and
  the VM has no firewall chain: no model has a ruleset that nft refuses.
* Of the console: input (`WriteInput`, `SysRq`), which passes bytes on, and two
  `Start`s that both attach, one reader of which nobody can cancel.
* Of the snapshots and images: the directory that holds the snapshots of a VM, which is
  taken as durable though nothing syncs its own name; `.tmp-` and `img-` leftovers,
  which nothing reads again; two image URLs that end alike; a disk that is cloned while `cp`
  still fills it; `file://` images, which the cache never holds.
* A namespace without a resident may see the "dying" veth of its predecessor
  and stay without an uplink: the step is in the model, `UplinkHeld` is checked and
  proved with a resident only.
* `guestIPv6` and `guestMAC`, which spell out four bytes; unit files, dashboard,
  scripts.

## 8. Plan

Done: `VpcNamespace`, `Lifecycle`, `ConfigStore`, `VpcMembership`, `Snapshots`, `FirstStart`, `Console`,
each with proofs of all its safety properties; `VethAddress` and `PacketFilter`, proved.

Left, in this order:

1. Further abstract specifications, with the steps of the detailed ones proved to be theirs or none: a
   VPC namespace as the set of its VMs, implemented by `VpcNamespace` with a resident;
   a VM as desired against actual state, implemented by `Lifecycle` for requests that come
   one after another.
2. `ConfigStore` with two handlers (the lost update, `Reload` by SIGUSR1 beside a
   request), the length of the filesystem, the leaked route.
