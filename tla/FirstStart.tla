----------------------------- MODULE FirstStart -----------------------------
(***************************************************************************)
(* The first starts of new VMs on a node: initialize of runtime.go,        *)
(* ResolveImage of image.go and PrepareRootfs of disk.go. Their runtimes   *)
(* share the image cache and read the snapshots of an older VM, which its  *)
(* own runtime makes and deletes meanwhile (Snapshots). A power loss takes *)
(* them all.                                                               *)
(***************************************************************************)
EXTENDS Snapshots   \* Snapshot and its variables are those of the older VM

CONSTANTS
    Vm,         \* the new VMs, each with a runtime of its own
    Image,      \* boot images; each has a file name of its own in the cache
    Boots       \* the [boot] sections that the new VMs may have

ASSUME BootAssumption ==
    /\ Boots \subseteq [Vm -> Image \cup Snapshot \cup {None}]
    /\ None \notin Image \cup Snapshot

VARIABLES
    boot,           \* [boot] of each config.toml: an image, a snapshot, or None
    step,           \* where the start of each VM is
    cache,          \* the images in the cache: "none", "part", "whole" or "torn"
    flushed,        \* the cached images that a power loss has left
    temp,           \* the temporary file of each download: "none", "part", "whole"
    reading,        \* what cp has open
    rootfs,         \* the disk of each new VM: "none", "part", a copy of a
                    \* "whole" or "raw" disk, or "torn" by a power loss
    grown,          \* the VMs whose disk has its full size
    initialized,    \* the VMs whose metadata.json says so
    settled         \* the VMs with no file written since the last power loss

older  == vars
images == <<cache, flushed, temp>>
disks  == <<reading, rootfs, grown, initialized, settled>>
node   == <<older, boot, step, images, disks>>

Content == {"whole", "raw", "torn", "part"}

NodeTypeOK ==
    /\ TypeOK
    /\ boot \in [Vm -> Image \cup Snapshot \cup {None}]
    /\ step \in [Vm -> {"idle", "resolve", "download", "receive", "install",
                        "stat", "clone", "cp", "grow", "save"}]
    /\ cache \in [Image -> Content \cup {"none"}]
    /\ flushed \subseteq Image
    /\ temp \in [Vm -> {"none", "part", "whole"}]
    /\ reading \in [Vm -> Content \cup {"none"}]
    /\ rootfs \in [Vm -> Content \cup {"none"}]
    /\ grown \subseteq Vm /\ initialized \subseteq Vm /\ settled \subseteq Vm
    /\ \A v \in Vm : temp[v] # "none" => step[v] \in {"receive", "install"}
    /\ \A v \in Vm : reading[v] # "none" <=> step[v] = "cp"

NodeInit ==
    /\ Init
    /\ boot \in Boots
    /\ step = [v \in Vm |-> "idle"]
    /\ cache = [i \in Image |-> "none"]
    /\ flushed = Image
    /\ temp = [v \in Vm |-> "none"]
    /\ reading = [v \in Vm |-> "none"]
    /\ rootfs = [v \in Vm |-> "none"]
    /\ grown = {}
    /\ initialized = {}
    /\ settled = Vm

-----------------------------------------------------------------------------
AtStep(v, point)   == step[v] = point
Goto(v, point) == step' = [step EXCEPT ![v] = point]

\* Start calls initialize until metadata.json says that it is done, and it
\* returns at once without a boot source; rootfsSource resolves an image, or
\* the path of a snapshot.
BeginStart(v) ==
    /\ AtStep(v, "idle") /\ v \notin initialized /\ boot[v] # None
    /\ Goto(v, IF boot[v] \in Image THEN "resolve" ELSE "stat")
    /\ UNCHANGED <<older, boot, images, disks>>

\* A faulty Fails: what cp has copied so far is left.
MutantStartFails(v) ==
    /\ step[v] \notin {"idle", "resolve"}
    /\ Goto(v, "idle")
    /\ UNCHANGED <<older, boot, images, disks>>

\* Any call may fail; the image temporary is removed only if the copy fails,
\* and the rootfs only if cp fails.
StartFails(v) ==
    /\ step[v] \notin {"idle", "resolve"}
    /\ Goto(v, "idle")
    /\ temp' = [temp EXCEPT ![v] = "none"]
    /\ rootfs' = IF AtStep(v, "cp") THEN [rootfs EXCEPT ![v] = "none"] ELSE rootfs
    /\ reading' = [reading EXCEPT ![v] = "none"]
    /\ UNCHANGED <<older, boot, cache, flushed, grown, initialized, settled>>

-----------------------------------------------------------------------------
(* ResolveImage.                                                           *)

Cached(v) == cache[boot[v]] # "none"

Resolve(v) ==
    /\ AtStep(v, "resolve")
    /\ Goto(v, IF Cached(v) THEN "stat" ELSE "download")
    /\ UNCHANGED <<older, boot, images, disks>>

\* The answer is there: a temporary file of a name of its own is filled ...
Download(v) ==
    /\ AtStep(v, "download")
    /\ temp' = [temp EXCEPT ![v] = "part"]
    /\ Goto(v, "receive")
    /\ UNCHANGED <<older, boot, cache, flushed, disks>>

Receive(v) ==
    /\ AtStep(v, "receive")
    /\ temp' = [temp EXCEPT ![v] = "whole"]
    /\ Goto(v, "install")
    /\ UNCHANGED <<older, boot, cache, flushed, disks>>

\* ... and renamed over the cached one, if another VM was faster. It is not
\* synced.
Install(v) ==
    /\ AtStep(v, "install")
    /\ cache' = [cache EXCEPT ![boot[v]] = temp[v]]
    /\ flushed' = flushed \ {boot[v]}
    /\ temp' = [temp EXCEPT ![v] = "none"]
    /\ Goto(v, "stat")
    /\ UNCHANGED <<older, boot, disks>>

-----------------------------------------------------------------------------
(* PrepareRootfs.                                                          *)

\* What the path of the source names now.
SourceContent(v) ==
    IF boot[v] \in Image THEN cache[boot[v]]
    ELSE IF place[boot[v]] = "final" /\ "rootfs" \in entries[boot[v]]
         THEN copy[boot[v]] ELSE "none"

Stat(v) ==
    /\ AtStep(v, "stat") /\ SourceContent(v) # "none"
    /\ Goto(v, "clone")
    /\ UNCHANGED <<older, boot, images, disks>>

\* A faulty Clone: a rootfs that exists is taken for a finished one.
MutantCloneRootfs(v) ==
    /\ AtStep(v, "clone") /\ SourceContent(v) # "none"
    /\ rootfs' = [rootfs EXCEPT ![v] = IF @ = "none" THEN SourceContent(v) ELSE @]
    /\ settled' = settled \ {v}
    /\ Goto(v, "grow")
    /\ UNCHANGED <<older, boot, images, reading, grown, initialized>>

\* cloneFile creates the rootfs exclusively, so that a file left by an earlier
\* start makes this one fail (and copyFile too, which looks for it).
CloneRootfs(v) ==
    /\ AtStep(v, "clone") /\ SourceContent(v) # "none" /\ rootfs[v] = "none"
    /\ rootfs' = [rootfs EXCEPT ![v] = SourceContent(v)]
    /\ settled' = settled \ {v}
    /\ Goto(v, "grow")
    /\ UNCHANGED <<older, boot, images, reading, grown, initialized>>

\* Without reflink cp opens the source, and keeps it when it is unlinked.
BeginCopyRootfs(v) ==
    /\ AtStep(v, "clone") /\ SourceContent(v) # "none" /\ rootfs[v] = "none"
    /\ rootfs' = [rootfs EXCEPT ![v] = "part"]
    /\ reading' = [reading EXCEPT ![v] = SourceContent(v)]
    /\ settled' = settled \ {v}
    /\ Goto(v, "cp")
    /\ UNCHANGED <<older, boot, images, grown, initialized>>

EndCopyRootfs(v) ==
    /\ AtStep(v, "cp")
    /\ rootfs' = [rootfs EXCEPT ![v] = reading[v]]
    /\ reading' = [reading EXCEPT ![v] = "none"]
    /\ Goto(v, "grow")
    /\ UNCHANGED <<older, boot, images, grown, initialized, settled>>

\* truncate, e2fsck and resize2fs; nothing is synced.
Grow(v) ==
    /\ AtStep(v, "grow")
    /\ grown' = grown \cup {v}
    /\ Goto(v, "save")
    /\ UNCHANGED <<older, boot, images, reading, rootfs, initialized, settled>>

\* SaveMetadata with initialized set.
Save(v) ==
    /\ AtStep(v, "save")
    /\ initialized' = initialized \cup {v}
    /\ Goto(v, "idle")
    /\ UNCHANGED <<older, boot, images, reading, rootfs, grown, settled>>

-----------------------------------------------------------------------------
(* Faults.                                                                 *)

\* The runtime of a VM dies; its files stay. The temporary file of a download
\* is left in the cache directory under a name that nobody uses again.
KillNew(v) ==
    /\ ~AtStep(v, "idle")
    /\ Goto(v, "idle")
    /\ temp' = [temp EXCEPT ![v] = "none"]
    /\ reading' = [reading EXCEPT ![v] = "none"]
    /\ UNCHANGED <<older, boot, cache, flushed, rootfs, grown, initialized, settled>>

\* Of what was not synced the power loss leaves all, nothing or a part: "all"
\* is also the case where the kernel has written it out.
NodePowerLoss ==
    /\ PowerLoss
    /\ step' = [v \in Vm |-> "idle"]
    /\ temp' = [v \in Vm |-> "none"]
    /\ reading' = [v \in Vm |-> "none"]
    /\ cache' \in {c \in [Image -> Content \cup {"none"}] : \A i \in Image :
                    \/ c[i] = cache[i]
                    \/ cache[i] # "none" /\ i \notin flushed /\ c[i] \in {"none", "torn"}}
    /\ flushed' = Image
    /\ \E torn \in SUBSET {v \in Vm : v \notin settled /\ rootfs[v] # "none"} :
          rootfs' = [v \in Vm |-> IF v \in torn THEN "torn" ELSE rootfs[v]]
    /\ \E lost \in SUBSET (initialized \ settled) : initialized' = initialized \ lost
    /\ settled' = Vm
    /\ UNCHANGED <<boot, grown>>

-----------------------------------------------------------------------------
\* The older VM acts where one of the new ones can see it.
OlderVm ==
    /\ \E v \in Vm : boot[v] \in Snapshot
    /\ MakeDisk \/ FinishDisk \/ Create \/ Delete \/ Kill
    /\ UNCHANGED <<boot, step, images, disks>>

NewVm(v) ==
    \/ BeginStart(v) \/ StartFails(v) \/ KillNew(v)
    \/ Resolve(v) \/ Download(v) \/ Receive(v) \/ Install(v)
    \/ Stat(v) \/ CloneRootfs(v) \/ BeginCopyRootfs(v) \/ EndCopyRootfs(v) \/ Grow(v) \/ Save(v)

NodeNext == OlderVm \/ NodePowerLoss \/ \E v \in Vm : NewVm(v)

NodeSpec == NodeInit /\ [][NodeNext]_node

-----------------------------------------------------------------------------
(* Properties.                                                             *)

\* A VM whose metadata.json says initialized has a disk that was copied to the
\* end and grown, whatever died, failed, was deleted or was downloaded by
\* others meanwhile (PrepareRootfs; ResolveImage renames a finished file). Only
\* a power loss can tear it, for neither the cached image nor what resize2fs
\* writes is synced.
InitializedIsWhole == \A v \in initialized :
    \/ rootfs[v] = "torn"
    \/ v \in grown /\ rootfs[v] \in {"whole", "raw"}
=============================================================================
