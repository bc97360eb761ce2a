------------------------------ MODULE Lifecycle ------------------------------
(***************************************************************************)
(* The life of one VM under its atlas-runtime process: runtime.go, the     *)
(* Firecracker wrapper of firecracker.go, the first start of disk.go, and  *)
(* the metadata file of metadata.go.                                       *)
(*                                                                         *)
(* net/http runs every request in a goroutine of its own and the runtime   *)
(* takes no lock (only snapshots have a mutex), so handlers interleave at  *)
(* every call. systemd restarts a runtime that dies, and has then killed   *)
(* its whole control group, Firecracker processes included. The restarted  *)
(* runtime starts the VM if metadata.json says so, and only then serves.   *)
(***************************************************************************)
EXTENDS Naturals, FiniteSets

CONSTANTS
    Handler,    \* the requests that can be in flight together
    Main,       \* the main goroutine, which recovers the VM after a restart
    Operation,  \* which requests are sent: "start", "stop", "reboot", "snapshot"
    Together,   \* sets of operations of which two can be in flight together
    Vmm,        \* Firecracker processes that can exist together
    Fault,      \* which outside failures happen, out of Faults
    None        \* no process, no handler

Thread     == Handler \cup {Main}
Operations == {"start", "stop", "reboot", "snapshot"}

\* "network": network.Create returns an error; "save": SaveMetadata does;
\* "console": the FIFOs cannot be made or attached, or reading them fails;
\* "image": the image cannot be resolved; "resize": resize2fs fails; "copy":
\* the clone or the copy fails; "api": Firecracker cannot be started or does not
\* answer in time; "guest": the guest powers itself off; "kill": the runtime dies.
Faults == {"network", "save", "console", "image", "resize", "copy", "api", "guest", "kill"}

ASSUME ThreadAssumption == Main \notin Handler /\ None \notin Thread \cup Vmm
ASSUME OperationAssumption == Operation \subseteq Operations /\ Together \subseteq SUBSET Operation
ASSUME FaultAssumption == Fault \subseteq Faults
ASSUME VmmAssumption == Vmm \cap {"absent", "free"} = {}

VARIABLES
    pc,         \* where each goroutine is
    op,         \* the operation it runs, or "none"
    buf,        \* the metadata it has marshalled and not yet renamed into place
    mem,        \* instance.meta
    disk,       \* metadata.json
    rootfs,     \* the rootfs file: "none", "raw" (not yet cloned and grown) or "ready"
    reflink,    \* the filesystem can clone files
    console,    \* "attached": console.cancel is set and a reader has the output
                \* FIFO open; "dead": it is set and the reader is gone; "detached",
                \* or "failed": it is not set
    pid,        \* firecracker.PID
    vmm,        \* each Firecracker process: "none", or a state of VmmState
    socket,     \* the process that made the API socket file, or None
    tap,        \* the TAP: "absent", "free", or the process that has it open
    created,    \* network.Create has named the TAP and its namespace
    mutex,      \* the holder of snapshotMutex
    serving,    \* the HTTP server runs
    overlap,    \* history: two handlers ran together: "never", "before" the last
                \* restart of the runtime only, or "since" it
    stale       \* history: the last SaveMetadata of this runtime failed

threads == <<pc, op, buf, mutex>>
machine == <<console, pid, vmm, socket, tap, created>>
store   == <<disk, rootfs, reflink>>
history == <<overlap, stale>>
vars    == <<threads, mem, store, machine, serving, history>>

\* A process that nobody has told to die: just started, with its API socket,
\* configured, or with a guest.
Live == {"new", "idle", "configured", "booted"}

\* SIGKILL does not wait: a process it was sent to before its guest booted
\* ("killed") or after ("dying") still has its TAP open, and in the second case
\* writes that are under way may still land. An exited one waits to be reaped.
VmmState == Live \cup {"killed", "dying", "exited"}

Metadata == [desired : {"running", "stopped"}, initialized : BOOLEAN]

Starting == {"want", "wantsave", "network", "ips", "ipsave", "console", "init",
             "copystat", "cp", "cpend", "grow", "initsave", "check", "recheck", "fifo", "spawn",
             "socket", "configure", "boot", "abort"}
Stopping == {"unwant", "stopsave", "halt", "kill", "sigkill", "detach", "end", "endsave",
             "delete"}
Copying  == {"lock", "clone", "copy", "coldcopy"}

TypeOK ==
    /\ pc \in [Thread -> Starting \cup Stopping \cup Copying \cup {"idle"}]
    /\ op \in [Thread -> Operation \cup {"recover", "none"}]
    /\ buf \in [Thread -> Metadata]
    /\ mem \in Metadata /\ disk \in Metadata
    /\ rootfs \in {"none", "raw", "ready"}
    /\ reflink \in BOOLEAN /\ serving \in BOOLEAN
    /\ created \in BOOLEAN /\ stale \in BOOLEAN
    /\ console \in {"detached", "failed", "attached", "dead"}
    /\ pid \in Vmm \cup {None}
    /\ vmm \in [Vmm -> VmmState \cup {"none"}]
    /\ socket \in Vmm \cup {None}
    /\ tap \in Vmm \cup {"absent", "free"}
    /\ mutex \in {h \in Handler : op[h] = "snapshot"} \cup {None}
    /\ overlap \in {"never", "before", "since"}

\* A new machine directory: NewRuntime writes the first metadata.json.
NewMetadata == [desired |-> "stopped", initialized |-> FALSE]

Init ==
    /\ pc = [t \in Thread |-> "idle"]
    /\ op = [t \in Thread |-> "none"]
    /\ buf = [t \in Thread |-> NewMetadata]
    /\ mem = NewMetadata
    /\ disk = NewMetadata
    /\ rootfs = "none"
    /\ reflink \in BOOLEAN
    /\ console = "detached"
    /\ pid = None
    /\ vmm = [v \in Vmm |-> "none"]
    /\ socket = None
    /\ tap = "absent"
    /\ created = FALSE
    /\ mutex = None
    /\ serving = TRUE
    /\ overlap = "never"
    /\ stale = FALSE

-----------------------------------------------------------------------------
(* Helpers.                                                                *)

At(t, point) == pc[t] = point

Goto(t, point) == pc' = [pc EXCEPT ![t] = point]

\* Firecracker.Running: kill(vm.PID, 0) succeeds until the process is reaped.
Running == pid # None /\ vmm[pid] # "none"

\* The operation returns; a recovery that ends lets the server start.
MutantReturn(t) ==
    /\ Goto(t, "idle")
    /\ op' = [op EXCEPT ![t] = "none"]
    /\ buf' = [buf EXCEPT ![t] = NewMetadata]
    /\ mutex' = mutex
    /\ serving' = (serving \/ t = Main)

Return(t) ==
    /\ Goto(t, "idle")
    /\ op' = [op EXCEPT ![t] = "none"]
    /\ buf' = [buf EXCEPT ![t] = NewMetadata]
    /\ mutex' = IF mutex = t THEN None ELSE mutex
    /\ serving' = (serving \/ t = Main)

\* SaveMetadata marshals instance.meta, with a field just assigned, ...
Marshal(t, meta, next) ==
    /\ mem' = meta
    /\ buf' = [buf EXCEPT ![t] = meta]
    /\ Goto(t, next)

\* ... writes a temporary file and renames it over metadata.json, ...
Rename(t, point, next) ==
    /\ At(t, point)
    /\ disk' = buf[t]
    /\ stale' = FALSE
    /\ Goto(t, next)
    /\ UNCHANGED <<op, buf, mutex, mem, rootfs, reflink, machine, serving, overlap>>

\* ... or fails before the rename, which is its last step: the file keeps what
\* it says, the memory is ahead of it, and the caller mostly goes on.
RenameFails(t, point, next) ==
    /\ "save" \in Fault
    /\ At(t, point)
    /\ stale' = TRUE
    /\ Goto(t, next)
    /\ UNCHANGED <<op, buf, mutex, mem, store, machine, serving, overlap>>

\* A request arrives, beside another one if Together has both.
Entry(o) == CASE o = "start" -> "want"
              [] o = "stop" -> "unwant"
              [] o = "reboot" -> "halt"
              [] o = "snapshot" -> "lock"

Request(t, o) ==
    /\ serving
    /\ At(t, "idle")
    /\ \A u \in Handler : ~At(u, "idle") => \E both \in Together : {o, op[u]} \subseteq both
    /\ Goto(t, Entry(o))
    /\ op' = [op EXCEPT ![t] = o]
    /\ overlap' = IF \E u \in Handler : ~At(u, "idle") THEN "since" ELSE overlap
    /\ UNCHANGED <<buf, mutex, mem, store, machine, serving, stale>>

-----------------------------------------------------------------------------
(* Runtime.Start: the desired state, the network, the console.             *)

Want(t) ==
    /\ At(t, "want")
    /\ Marshal(t, [mem EXCEPT !.desired = "running"], "wantsave")
    /\ UNCHANGED <<op, mutex, store, machine, serving, history>>

\* The error of SaveMetadata is dropped.
WantSave(t) == Rename(t, "wantsave", "network") \/ RenameFails(t, "wantsave", "network")

\* network.Create names the TAP and makes it unless it exists.
MakeTap == created' = TRUE /\ tap' = IF tap = "absent" THEN "free" ELSE tap

CreateNetwork(t) ==
    /\ At(t, "network")
    /\ MakeTap
    /\ Goto(t, "ips")
    /\ UNCHANGED <<op, buf, mutex, mem, store, console, pid, vmm, socket, serving, history>>

\* vpcEnter fails, before that, or SetBandwidth after it.
CreateNetworkFails(t) ==
    /\ "network" \in Fault
    /\ At(t, "network")
    /\ MakeTap \/ UNCHANGED <<created, tap>>
    /\ Return(t)
    /\ UNCHANGED <<mem, store, console, pid, vmm, socket, history>>

\* applyPublicIPs saves the metadata, whether or not an address changed.
ApplyPublicIPs(t) ==
    /\ At(t, "ips")
    /\ Marshal(t, mem, "ipsave")
    /\ UNCHANGED <<op, mutex, store, machine, serving, history>>

IPSave(t) == Rename(t, "ipsave", "console")

IPSaveFails(t) ==
    /\ "save" \in Fault
    /\ At(t, "ipsave")
    /\ stale' = TRUE
    /\ Return(t)
    /\ UNCHANGED <<mem, store, machine, overlap>>

\* A reader is started unless console.cancel is set. Where CreateSerialFIFOs or
\* Attach fails there is none, and Start goes on.
AttachConsole(t) ==
    /\ At(t, "console")
    /\ \/ console' = IF console \in {"detached", "failed"} THEN "attached" ELSE console
       \/ "console" \in Fault /\ console \in {"detached", "failed"} /\ console' = "failed"
    /\ Goto(t, IF mem.initialized THEN "check" ELSE "init")
    /\ UNCHANGED <<op, buf, mutex, mem, store, pid, vmm, socket, tap, created, serving, history>>

-----------------------------------------------------------------------------
(* Runtime.initialize: PrepareRootfs, then initialized = true.             *)

\* cloneFile opens the destination with O_EXCL. Where it cannot clone it
\* removes the file again and copyFile takes over, which also refuses a
\* destination that exists.
MutantCloneRootfs(t) ==
    /\ At(t, "init")
    /\ rootfs' = IF reflink THEN "raw" ELSE rootfs
    /\ Goto(t, IF reflink THEN "grow" ELSE "copystat")
    /\ UNCHANGED <<op, buf, mutex, mem, disk, reflink, machine, serving, history>>

CloneRootfs(t) ==
    /\ At(t, "init")
    /\ rootfs' = IF rootfs = "none" /\ reflink THEN "raw" ELSE rootfs
    /\ Goto(t, CASE rootfs # "none" -> "abort"
                 [] rootfs = "none" /\ reflink -> "grow"
                 [] OTHER -> "copystat")
    /\ UNCHANGED <<op, buf, mutex, mem, disk, reflink, machine, serving, history>>

\* Another error of the clone removes the file, and one of its sync leaves it.
CloneRootfsFails(t) ==
    /\ "copy" \in Fault
    /\ At(t, "init")
    /\ rootfs = "none"
    /\ rootfs' \in {"none", IF reflink THEN "raw" ELSE "none"}
    /\ Goto(t, "abort")
    /\ UNCHANGED <<op, buf, mutex, mem, disk, reflink, machine, serving, history>>

ResolveImageFails(t) ==
    /\ "image" \in Fault
    /\ At(t, "init")
    /\ Goto(t, "abort")
    /\ UNCHANGED <<op, buf, mutex, mem, store, machine, serving, history>>

CopyStat(t) ==
    /\ At(t, "copystat")
    /\ Goto(t, IF rootfs = "none" THEN "cp" ELSE "abort")
    /\ UNCHANGED <<op, buf, mutex, mem, store, machine, serving, history>>

\* cp creates the file, or truncates the one that appeared meanwhile.
CopyBegin(t) ==
    /\ At(t, "cp")
    /\ rootfs' = "raw"
    /\ Goto(t, "cpend")
    /\ UNCHANGED <<op, buf, mutex, mem, disk, reflink, machine, serving, history>>

\* An error of cp removes the file, one of syncFile leaves it.
CopyEnd(t) ==
    /\ At(t, "cpend")
    /\ \/ rootfs' = rootfs /\ Goto(t, "grow")
       \/ "copy" \in Fault /\ rootfs' \in {"none", rootfs} /\ Goto(t, "abort")
    /\ UNCHANGED <<op, buf, mutex, mem, disk, reflink, machine, serving, history>>

\* truncate and resize2fs; a file that is not there counts as done. Then
\* initialize sets initialized and saves it.
MutantGrow(t) ==
    /\ At(t, "grow")
    /\ rootfs' = rootfs
    /\ Marshal(t, [mem EXCEPT !.initialized = TRUE], "initsave")
    /\ UNCHANGED <<op, mutex, disk, reflink, machine, serving, history>>

Grow(t) ==
    /\ At(t, "grow")
    /\ rootfs' = IF rootfs = "none" THEN "none" ELSE "ready"
    /\ Marshal(t, [mem EXCEPT !.initialized = TRUE], "initsave")
    /\ UNCHANGED <<op, mutex, disk, reflink, machine, serving, history>>

GrowFails(t) ==
    /\ "resize" \in Fault
    /\ At(t, "grow")
    /\ Goto(t, "abort")
    /\ UNCHANGED <<op, buf, mutex, mem, store, machine, serving, history>>

MutantInitSave(t) ==
    /\ At(t, "initsave")
    /\ stale' = FALSE
    /\ Goto(t, "check")
    /\ UNCHANGED <<op, buf, mutex, mem, store, machine, serving, overlap>>

InitSave(t) == Rename(t, "initsave", "check") \/ RenameFails(t, "initsave", "abort")

-----------------------------------------------------------------------------
(* Firecracker.Start.                                                      *)

\* A process that is alive ends Start, whether or not it was booted.
CheckRunning(t) ==
    /\ At(t, "check")
    /\ IF Running THEN Return(t)
                  ELSE Goto(t, "recheck") /\ UNCHANGED <<op, buf, mutex, serving>>
    /\ UNCHANGED <<mem, store, machine, history>>

\* startProcess: nothing to do if a process is alive, else remove the socket.
StartProcess(t) ==
    /\ At(t, "recheck")
    /\ socket' = IF Running THEN socket ELSE None
    /\ Goto(t, IF Running THEN "configure" ELSE "fifo")
    /\ UNCHANGED <<op, buf, mutex, mem, store, console, pid, vmm, tap, created, serving, history>>

\* Opening the output FIFO for writing blocks until a reader has it open.
OpenFifo(t) ==
    /\ At(t, "fifo")
    /\ console = "attached"
    /\ Goto(t, "spawn")
    /\ UNCHANGED <<op, buf, mutex, mem, store, machine, serving, history>>

\* With no reader attached it may still get by: a detached reader that has not
\* left yet has the FIFO open, or there is no FIFO and the open fails.
OpenFifoAnyway(t) ==
    /\ At(t, "fifo")
    /\ console # "attached"
    /\ Goto(t, "spawn")
    /\ UNCHANGED <<op, buf, mutex, mem, store, machine, serving, history>>

\* A process id that nothing refers to any more.
FreeVmm(v) == vmm[v] = "none" /\ v \notin {pid, socket, tap}

Spawn(t) ==
    /\ At(t, "spawn")
    /\ \E v \in Vmm : FreeVmm(v)
    /\ LET v == CHOOSE v \in Vmm : FreeVmm(v)
       IN  /\ vmm' = [vmm EXCEPT ![v] = "new"]
           /\ pid' = v
    /\ Goto(t, "socket")
    /\ UNCHANGED <<op, buf, mutex, mem, store, console, socket, tap, created, serving, history>>

\* command.Start fails.
SpawnFails(t) ==
    /\ "api" \in Fault
    /\ At(t, "spawn")
    /\ Goto(t, "abort")
    /\ UNCHANGED <<op, buf, mutex, mem, store, machine, serving, history>>

\* The process exits, and the kernel closes its TAP.
Exits(v) ==
    /\ vmm' = [vmm EXCEPT ![v] = "exited"]
    /\ tap' = IF tap = v THEN "free" ELSE tap

\* Firecracker makes its API socket, or exits because the path is taken.
Bind(v) ==
    /\ vmm[v] = "new"
    /\ \/ /\ socket = None
          /\ socket' = v
          /\ vmm' = [vmm EXCEPT ![v] = "idle"]
          /\ tap' = tap
       \/ socket # None /\ socket' = socket /\ Exits(v)
    /\ UNCHANGED <<threads, mem, store, console, pid, created, serving, history>>

SocketAppears(t) ==
    /\ At(t, "socket")
    /\ \/ socket # None /\ Goto(t, "configure")
       \/ "api" \in Fault /\ Goto(t, "abort")
    /\ UNCHANGED <<op, buf, mutex, mem, store, machine, serving, history>>

\* The PUT requests before the boot: the process that owns the socket must be
\* alive and not booted, it opens the rootfs, and it opens the TAP for itself.
Configurable(v) ==
    v # None /\ vmm[v] \in {"idle", "configured"} /\ rootfs # "none" /\ tap \in {"free", v}

Configure(t) ==
    /\ At(t, "configure")
    /\ Configurable(socket)
    /\ vmm' = [vmm EXCEPT ![socket] = "configured"]
    /\ tap' = socket
    /\ Goto(t, "boot")
    /\ UNCHANGED <<op, buf, mutex, mem, store, console, pid, socket, created, serving, history>>

ConfigureFails(t) ==
    /\ At(t, "configure")
    /\ "api" \in Fault \/ ~Configurable(socket)
    /\ Goto(t, "abort")
    /\ UNCHANGED <<op, buf, mutex, mem, store, machine, serving, history>>

Bootable(v) == v # None /\ vmm[v] = "configured"

\* InstanceStart.
Boot(t) ==
    /\ At(t, "boot")
    /\ Bootable(socket)
    /\ vmm' = [vmm EXCEPT ![socket] = "booted"]
    /\ Return(t)
    /\ UNCHANGED <<mem, store, console, pid, socket, tap, created, history>>

\* The request is refused, or its answer is late: it may still have booted.
BootFails(t) ==
    /\ At(t, "boot")
    /\ \/ ~Bootable(socket) /\ vmm' = vmm
       \/ "api" \in Fault /\ vmm' = vmm
       \/ "api" \in Fault /\ Bootable(socket) /\ vmm' = [vmm EXCEPT ![socket] = "booted"]
    /\ Goto(t, "abort")
    /\ UNCHANGED <<op, buf, mutex, mem, store, console, pid, socket, tap, created, serving, history>>

\* Start returns an error from initialize or Firecracker: the console is
\* detached, the process stays.
Abort(t) ==
    /\ At(t, "abort")
    /\ console' = "detached"
    /\ Return(t)
    /\ UNCHANGED <<mem, store, pid, vmm, socket, tap, created, history>>

-----------------------------------------------------------------------------
(* Runtime.Stop, Runtime.Reboot and Firecracker.Stop.                      *)

MutantUnwant(t) ==
    /\ At(t, "unwant")
    /\ mem' = [mem EXCEPT !.desired = "stopped"]
    /\ Goto(t, "detach")
    /\ UNCHANGED <<op, buf, mutex, store, machine, serving, history>>

Unwant(t) ==
    /\ At(t, "unwant")
    /\ Marshal(t, [mem EXCEPT !.desired = "stopped"], "stopsave")
    /\ UNCHANGED <<op, mutex, store, machine, serving, history>>

StopSave(t) == Rename(t, "stopsave", "detach") \/ RenameFails(t, "stopsave", "detach")

\* Stop detaches first and halts next; the others halt first.
DetachConsole(t) ==
    /\ At(t, "detach")
    /\ console' = "detached"
    /\ Goto(t, CASE op[t] = "stop" -> "halt"
                 [] op[t] = "reboot" -> "want"
                 [] op[t] = "snapshot" -> "copy")
    /\ UNCHANGED <<op, buf, mutex, mem, store, pid, vmm, socket, tap, created, serving, history>>

Halted(t) == IF op[t] = "stop" THEN "end" ELSE "detach"

\* Firecracker.Stop asks the guest to power off and waits.
Halt(t) ==
    /\ At(t, "halt")
    /\ Goto(t, IF Running THEN "kill" ELSE Halted(t))
    /\ UNCHANGED <<op, buf, mutex, mem, store, machine, serving, history>>

MutantKill(t) ==
    /\ At(t, "kill")
    /\ pid' = None
    /\ Goto(t, Halted(t))
    /\ UNCHANGED <<op, buf, mutex, mem, store, console, vmm, socket, tap, created, serving, history>>

Kill(t) ==
    /\ At(t, "kill")
    /\ pid' = IF Running THEN pid ELSE None
    /\ Goto(t, IF Running THEN "sigkill" ELSE Halted(t))
    /\ UNCHANGED <<op, buf, mutex, mem, store, console, vmm, socket, tap, created, serving, history>>

\* SIGKILL to the process that vm.PID names now, which Stop then forgets: it does
\* not wait for the exit.
MutantSigKill(t) ==
    /\ At(t, "sigkill")
    /\ pid # None
    /\ pid' = None
    /\ Goto(t, Halted(t))
    /\ UNCHANGED <<op, buf, mutex, mem, store, console, vmm, socket, tap, created, serving, history>>

SigKill(t) ==
    /\ At(t, "sigkill")
    /\ pid # None
    /\ vmm' = [vmm EXCEPT ![pid] = CASE @ = "booted" -> "dying"
                                     [] @ \in Live \ {"booted"} -> "killed"
                                     [] OTHER -> @]
    /\ pid' = None
    /\ Goto(t, Halted(t))
    /\ UNCHANGED <<op, buf, mutex, mem, store, console, socket, tap, created, serving, history>>

\* The public addresses are cleared and the metadata is saved once more.
End(t) ==
    /\ At(t, "end")
    /\ Marshal(t, mem, "endsave")
    /\ UNCHANGED <<op, mutex, store, machine, serving, history>>

EndSave(t) == Rename(t, "endsave", "delete") \/ RenameFails(t, "endsave", "delete")

\* network.Delete removes a TAP that no process has open, if Create has named it
\* since the runtime started; without that only the removal of the namespace,
\* when this VM is the last in it, takes the TAP away.
DeleteNetwork(t) ==
    /\ At(t, "delete")
    /\ \/ tap = "free" /\ tap' = "absent"
       \/ ~(created /\ tap = "free") /\ tap' = tap
    /\ Return(t)
    /\ UNCHANGED <<mem, store, console, pid, vmm, socket, created, history>>

-----------------------------------------------------------------------------
(* Runtime.CreateSnapshot, as far as it touches the VM.                    *)

LockSnapshots(t) ==
    /\ At(t, "lock")
    /\ mutex = None
    /\ mutex' = t
    /\ Goto(t, "clone")
    /\ UNCHANGED <<op, buf, mem, store, machine, serving, history>>

\* copyRootfs: a clone leaves the VM alone, and so does a missing rootfs.
\* Otherwise the copy is made with Firecracker stopped.
CopyRootfs(t) ==
    /\ At(t, "clone")
    /\ IF rootfs = "none" \/ reflink
       THEN Return(t)
       ELSE /\ Goto(t, IF Running THEN "halt" ELSE "coldcopy")
            /\ UNCHANGED <<op, buf, mutex, serving>>
    /\ UNCHANGED <<mem, store, machine, history>>

\* copyRootfsOffline calls Start after the copy, failed or not.
OfflineCopied(t) ==
    /\ At(t, "copy")
    /\ Goto(t, "want")
    /\ UNCHANGED <<op, buf, mutex, mem, store, machine, serving, history>>

ColdCopied(t) ==
    /\ At(t, "coldcopy")
    /\ Return(t)
    /\ UNCHANGED <<mem, store, machine, history>>

-----------------------------------------------------------------------------
(* The Firecracker processes, and the death of the runtime.                *)

\* The guest powers off: by itself, or because Stop asked it to.
GuestExits(v) ==
    /\ vmm[v] = "booted"
    /\ "guest" \in Fault \/ (v = socket /\ \E t \in Thread : At(t, "kill"))
    /\ Exits(v)
    /\ UNCHANGED <<threads, mem, store, console, pid, socket, created, serving, history>>

\* A killed process is gone at last.
Dies(v) ==
    /\ vmm[v] \in {"killed", "dying"}
    /\ Exits(v)
    /\ UNCHANGED <<threads, mem, store, console, pid, socket, created, serving, history>>

\* The goroutine that startProcess left in command.Wait.
Reap(v) ==
    /\ vmm[v] = "exited"
    /\ vmm' = [vmm EXCEPT ![v] = "none"]
    /\ UNCHANGED <<threads, mem, store, console, pid, socket, tap, created, serving, history>>

\* The console reader gets an error and leaves; console.cancel stays set.
ReaderDies ==
    /\ "console" \in Fault
    /\ console = "attached"
    /\ console' = "dead"
    /\ UNCHANGED <<threads, mem, store, pid, vmm, socket, tap, created, serving, history>>

\* The control group dies and systemd starts the runtime again: LoadMetadata,
\* then Run starts the VM if it is wanted, and serves afterwards.
Restart ==
    /\ mem' = disk
    /\ pc' = [t \in Thread |-> IF t = Main /\ disk.desired = "running" THEN "want" ELSE "idle"]
    /\ op' = [t \in Thread |-> IF t = Main /\ disk.desired = "running" THEN "recover" ELSE "none"]
    /\ buf' = [t \in Thread |-> NewMetadata]
    /\ mutex' = None
    /\ serving' = (disk.desired = "stopped")
    /\ console' = "detached"
    /\ pid' = None
    /\ vmm' = [v \in Vmm |-> "none"]
    /\ socket' = None
    /\ tap' = IF tap = "absent" THEN "absent" ELSE "free"
    /\ created' = FALSE
    /\ stale' = FALSE
    /\ overlap' = IF overlap = "since" THEN "before" ELSE overlap
    /\ UNCHANGED store

Crash == "kill" \in Fault /\ Restart

\* Another Stop has cleared vm.PID since it was read: kill(0, SIGKILL) takes
\* the process group of the runtime itself.
KillSelf(t) == At(t, "sigkill") /\ pid = None /\ Restart

-----------------------------------------------------------------------------

\* One step of a goroutine inside an operation.
Step(t) ==
    \/ Want(t) \/ WantSave(t)
    \/ CreateNetwork(t) \/ CreateNetworkFails(t)
    \/ ApplyPublicIPs(t) \/ IPSave(t) \/ IPSaveFails(t) \/ AttachConsole(t)
    \/ CloneRootfs(t) \/ CloneRootfsFails(t) \/ ResolveImageFails(t)
    \/ CopyStat(t) \/ CopyBegin(t) \/ CopyEnd(t)
    \/ Grow(t) \/ GrowFails(t) \/ InitSave(t)
    \/ CheckRunning(t) \/ StartProcess(t) \/ OpenFifo(t) \/ Spawn(t) \/ SpawnFails(t)
    \/ SocketAppears(t)
    \/ Configure(t) \/ ConfigureFails(t) \/ Boot(t) \/ BootFails(t) \/ Abort(t)
    \/ Unwant(t) \/ StopSave(t) \/ DetachConsole(t) \/ Halt(t) \/ Kill(t) \/ SigKill(t)
    \/ End(t) \/ EndSave(t) \/ DeleteNetwork(t)
    \/ LockSnapshots(t) \/ CopyRootfs(t) \/ OfflineCopied(t) \/ ColdCopied(t)
    \/ KillSelf(t)

Next ==
    \/ \E h \in Handler, o \in Operation : Request(h, o)
    \/ \E t \in Thread : Step(t) \/ OpenFifoAnyway(t)
    \/ \E v \in Vmm : Bind(v) \/ GuestExits(v) \/ Dies(v) \/ Reap(v)
    \/ ReaderDies
    \/ Crash

Spec == Init /\ [][Next]_vars

-----------------------------------------------------------------------------
(* Properties.                                                             *)

Alive  == {v \in Vmm : vmm[v] \in Live}
Booted == {v \in Vmm : vmm[v] \in {"booted", "dying"}}
Quiet  == \A t \in Thread : At(t, "idle")

\* Whether the rootfs can only have been made by one handler at a time:
\* cloneFile is exclusive by itself, copyFile is not.
OneMaker == reflink \/ overlap = "never"

\* A VM that counts as initialized has a rootfs that was cloned and grown to
\* the end, and no guest runs on any other: initialize sets the flag last, and
\* neither a crash, nor a failed step, nor a second Start at the same time
\* breaks that order.
ImageReady ==
    OneMaker => (disk.initialized \/ mem.initialized \/ Booted # {} => rootfs = "ready")

\* Once a VM is initialized nothing replaces or removes its disk: the O_EXCL
\* open and the stat of PrepareRootfs protect the data of the guest.
RootfsKept == [][OneMaker /\ disk.initialized => rootfs' = rootfs]_vars

\* Requests that come one after another never lose a Firecracker process: every
\* process that lives, and that nobody has told to die, is the one that vm.PID
\* names, so that the next stop finds it. A killed one may still be exiting
\* beside it, because Stop does not wait.
OneProcess == overlap # "since" => Alive \subseteq {pid}

\* When nothing is in progress and the VM is not wanted, every Firecracker
\* process that is left has been told to die: Stop halts what Start left, after
\* every failure of Start.
StoppedIsHalted ==
    overlap # "since" /\ Quiet /\ mem.desired = "stopped" => Alive = {}

\* metadata.json says running whenever a guest boots, and stopped before a stop
\* halts it, as long as it can be written: a restart in between takes the right
\* decision. The handlers act after a save that failed as well, which is where
\* docs/state.md ("Atlas writes this value before it acts on it") does not hold.
WrittenBeforeActed ==
    [][overlap # "since" /\ ~stale =>
         /\ (\E v \in Vmm : vmm[v] = "configured" /\ vmm'[v] = "booted") => disk.desired = "running"
         /\ (\E t \in Thread : op[t] = "stop" /\ At(t, "sigkill")) => disk.desired = "stopped"]_vars

\* The file and the memory of the runtime agree whenever nothing is in progress
\* and the last write of the file did not fail, so that a restart changes nothing
\* that a request decided: no handler ends with a change it did not try to save,
\* and one save that works makes up for those that failed.
SavedWhenQuiet == overlap # "since" /\ ~stale /\ Quiet => disk = mem

\* docs/disk.md: without reflink "Atlas stops the VM for the length of the copy":
\* an offline snapshot copies a rootfs that no guest writes.
OfflineCopyQuiet ==
    (overlap # "since" /\ \E t \in Thread : pc[t] \in {"copy", "coldcopy"}) => Booted = {}

\* Every request can go on, and so can recovery, after which the API answers:
\* with a time limit on each wait for Firecracker, a handler alone never waits for
\* the snapshot mutex that a request before it kept, nor for the reader of a FIFO
\* that it has itself detached. Only where the console could not be attached, or
\* its reader has died, does it wait for ever: the errors of CreateSerialFIFOs
\* and Attach are dropped, and the open in startProcess blocks.
NeverStuck ==
    overlap # "since" =>
        \A t \in Thread : \/ At(t, "idle")
                          \/ ENABLED Step(t)
                          \/ At(t, "fifo") /\ console \in {"failed", "dead"}

\* docs/state.md: at start the runtime "starts the VM if `desired_state` is
\* `running`": recovery, with nothing failing, ends with a guest that runs.
RecoveryBoots == [][op[Main] = "recover" /\ serving' => Booted' # {}]_vars
=============================================================================
