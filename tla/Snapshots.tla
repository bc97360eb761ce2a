----------------------------- MODULE Snapshots ------------------------------
(***************************************************************************)
(* The snapshots of one VM: CreateSnapshot and publishSnapshot of          *)
(* runtime.go, DeleteSnapshot and ListSnapshots of snapshot.go, with the   *)
(* durability that disk.go and helpers.go give to files and directories.   *)
(*                                                                         *)
(* A file or a name that has not been synced survives a power loss or      *)
(* does not. `place` is the name of a snapshot's directory now, `landing`  *)
(* the names a power loss may leave it under; `entries` are the files in   *)
(* it now, between `must` and `may` is what a power loss leaves of them.   *)
(* The directory that holds the snapshots of the VM is taken as durable.   *)
(***************************************************************************)
EXTENDS Naturals, FiniteSets

CONSTANTS
    Snapshot,   \* the identifiers that newSnapshotID makes; it makes none twice
    None        \* no snapshot

Place == {"none", "temporary", "final"}
File  == {"rootfs", "record"}

VARIABLES
    disk,       \* the rootfs of the VM: "none", "raw" (first start), "ready"
    pc,         \* the create request that holds snapshotMutex
    current,    \* its snapshot, or None
    place, landing,
    entries, must, may,
    copy,       \* the rootfs file: "none", "part", "raw" or "whole" copy
    synced,     \* its contents are durable
    deleting,   \* the snapshots that a delete request is removing
    acked,      \* history: their creation was answered with success
    removed     \* history: a delete of them has begun

request == <<pc, current, deleting>>
names   == <<place, landing>>
files   == <<entries, must, may, copy, synced>>
vars    == <<disk, request, names, files, acked, removed>>

TypeOK ==
    /\ disk \in {"none", "raw", "ready"}
    /\ pc \in {"idle", "copy", "cp", "save", "syncdir", "rename", "syncparent",
               "answer", "clean"}
    /\ current \in Snapshot \cup {None}
    /\ place \in [Snapshot -> Place]
    /\ landing \in [Snapshot -> SUBSET Place]
    /\ entries \in [Snapshot -> SUBSET File]
    /\ must \in [Snapshot -> SUBSET File]
    /\ may \in [Snapshot -> SUBSET File]
    /\ copy \in [Snapshot -> {"none", "part", "raw", "whole"}]
    /\ synced \in [Snapshot -> BOOLEAN]
    /\ deleting \subseteq Snapshot
    /\ acked \subseteq Snapshot
    /\ removed \subseteq Snapshot

Init ==
    /\ disk = "none"
    /\ pc = "idle"
    /\ current = None
    /\ place = [s \in Snapshot |-> "none"]
    /\ landing = [s \in Snapshot |-> {"none"}]
    /\ entries = [s \in Snapshot |-> {}]
    /\ must = [s \in Snapshot |-> {}]
    /\ may = [s \in Snapshot |-> {}]
    /\ copy = [s \in Snapshot |-> "none"]
    /\ synced = [s \in Snapshot |-> FALSE]
    /\ deleting = {}
    /\ acked = {}
    /\ removed = {}

-----------------------------------------------------------------------------
(* Files and directories.                                                  *)

\* A directory gets a name; without a sync either name may be found later.
Name(s, p) ==
    /\ place' = [place EXCEPT ![s] = p]
    /\ landing' = [landing EXCEPT ![s] = @ \cup {p}]

AddEntry(s, f) ==
    /\ entries' = [entries EXCEPT ![s] = @ \cup {f}]
    /\ may' = [may EXCEPT ![s] = @ \cup {f}]
    /\ UNCHANGED must

Unlink(s, f) ==
    /\ entries' = [entries EXCEPT ![s] = @ \ {f}]
    /\ must' = [must EXCEPT ![s] = @ \ {f}]
    /\ UNCHANGED <<may, copy, synced>>

\* ListSnapshots shows the directories with a readable record and no dot.
Listed == {s \in Snapshot : place[s] = "final" /\ "record" \in entries[s]}

-----------------------------------------------------------------------------
(* The first start of the VM, as far as a snapshot can see it.             *)

MakeDisk ==
    /\ disk = "none" /\ disk' = "raw"
    /\ UNCHANGED <<request, names, files, acked, removed>>

FinishDisk ==
    /\ disk = "raw" /\ disk' = "ready"
    /\ UNCHANGED <<request, names, files, acked, removed>>

-----------------------------------------------------------------------------
(* CreateSnapshot, under snapshotMutex.                                    *)

At(point) == pc = point

Step(from, to) == At(from) /\ pc' = to /\ UNCHANGED <<current, deleting>>

\* The lock, a new identifier, and os.MkdirAll of ".tmp-<id>".
Begin(s) ==
    /\ At("idle")
    /\ landing[s] = {"none"} /\ s \notin removed
    /\ pc' = "copy"
    /\ current' = s
    /\ Name(s, "temporary")
    /\ UNCHANGED <<disk, deleting, files, acked, removed>>

Copied == IF disk = "raw" THEN "raw" ELSE "whole"

\* copyRootfs with reflink: the clone is one step, and is synced.
Clone ==
    /\ disk # "none"
    /\ Step("copy", "save")
    /\ AddEntry(current, "rootfs")
    /\ copy' = [copy EXCEPT ![current] = Copied]
    /\ synced' = [synced EXCEPT ![current] = TRUE]
    /\ UNCHANGED <<disk, names, acked, removed>>

\* copyFile without it: cp fills the file by and by, and syncFile ends it.
BeginCopy ==
    /\ disk # "none"
    /\ Step("copy", "cp")
    /\ AddEntry(current, "rootfs")
    /\ copy' = [copy EXCEPT ![current] = "part"]
    /\ UNCHANGED <<disk, names, synced, acked, removed>>

EndCopy ==
    /\ Step("cp", "save")
    /\ copy' = [copy EXCEPT ![current] = Copied]
    /\ synced' = [synced EXCEPT ![current] = TRUE]
    /\ UNCHANGED <<disk, names, entries, must, may, acked, removed>>

\* The rest publishes: saveSnapshot, whose temporary file is synced, ...
SaveRecord ==
    /\ Step("save", "syncdir")
    /\ AddEntry(current, "record")
    /\ UNCHANGED <<disk, names, copy, synced, acked, removed>>

\* A faulty SyncDirectory: the directory is not synced.
MutantSyncDirectory ==
    /\ Step("syncdir", "rename")
    /\ UNCHANGED <<disk, names, files, acked, removed>>

\* ... fsyncDir of the directory, ...
SyncDirectory ==
    /\ Step("syncdir", "rename")
    /\ must' = [must EXCEPT ![current] = entries[current]]
    /\ may' = [may EXCEPT ![current] = entries[current]]
    /\ UNCHANGED <<disk, names, entries, copy, synced, acked, removed>>

\* ... os.Rename to the final name, ...
Publish ==
    /\ Step("rename", "syncparent")
    /\ Name(current, "final")
    /\ UNCHANGED <<disk, files, acked, removed>>

\* A faulty SyncParent: the parent is not synced.
MutantSyncParent ==
    /\ Step("syncparent", "answer")
    /\ UNCHANGED <<disk, names, files, acked, removed>>

\* ... and fsyncDir of the parent, which settles every name in it.
SyncParent ==
    /\ Step("syncparent", "answer")
    /\ landing' = [s \in Snapshot |-> {place[s]}]
    /\ UNCHANGED <<disk, place, files, acked, removed>>

\* The deferred os.RemoveAll finds nothing under the temporary name.
Answer ==
    /\ At("answer")
    /\ acked' = acked \cup {current}
    /\ pc' = "idle"
    /\ current' = None
    /\ UNCHANGED <<disk, deleting, names, files, removed>>

\* Any call may fail, the restart of the VM after an offline copy included.
Fails ==
    /\ pc \in {"copy", "cp", "save", "syncdir", "rename", "syncparent"}
    /\ pc' = "clean"
    /\ UNCHANGED <<disk, current, deleting, names, files, acked, removed>>

\* The deferred os.RemoveAll; a directory that has its final name stays.
Clean ==
    /\ At("clean")
    /\ pc' = "idle"
    /\ current' = None
    /\ IF place[current] = "temporary"
       THEN /\ Name(current, "none")
            /\ entries' = [entries EXCEPT ![current] = {}]
            /\ must' = [must EXCEPT ![current] = {}]
       ELSE UNCHANGED <<names, entries, must>>
    /\ UNCHANGED <<disk, deleting, may, copy, synced, acked, removed>>

-----------------------------------------------------------------------------
(* DeleteSnapshot, which takes no lock.                                    *)

\* os.Stat finds the directory.
BeginDelete(s) ==
    /\ place[s] = "final" /\ s \notin deleting
    /\ deleting' = deleting \cup {s}
    /\ removed' = removed \cup {s}
    /\ UNCHANGED <<disk, pc, current, names, files, acked>>

\* os.RemoveAll unlinks the entries in any order ...
DeleteEntry(s, f) ==
    /\ s \in deleting /\ f \in entries[s]
    /\ Unlink(s, f)
    /\ UNCHANGED <<disk, request, names, acked, removed>>

\* ... and the empty directory. Nothing is synced.
DeleteDirectory(s) ==
    /\ s \in deleting /\ entries[s] = {}
    /\ deleting' = deleting \ {s}
    /\ Name(s, "none")
    /\ UNCHANGED <<disk, pc, current, files, acked, removed>>

DeleteFails(s) ==
    /\ s \in deleting
    /\ deleting' = deleting \ {s}
    /\ UNCHANGED <<disk, pc, current, names, files, acked, removed>>

-----------------------------------------------------------------------------
(* Faults.                                                                 *)

\* The requests die with the runtime; what they wrote is in the page cache.
Kill ==
    /\ pc' = "idle"
    /\ current' = None
    /\ deleting' = {}
    /\ UNCHANGED <<disk, names, files, acked, removed>>

\* What is not durable may be gone, and what is found afterwards is durable.
PowerLoss ==
    /\ pc' = "idle"
    /\ current' = None
    /\ deleting' = {}
    /\ place' \in {p \in [Snapshot -> Place] : \A s \in Snapshot : p[s] \in landing[s]}
    /\ landing' = [s \in Snapshot |-> {place'[s]}]
    /\ entries' \in {e \in [Snapshot -> SUBSET File] : \A s \in Snapshot :
                        IF place'[s] = "none" THEN e[s] = {}
                        ELSE must[s] \subseteq e[s] /\ e[s] \subseteq may[s]}
    /\ must' = entries'
    /\ may' = entries'
    /\ \E torn \in SUBSET {s \in Snapshot : "rootfs" \in may[s] /\ ~synced[s]} :
          copy' = [s \in Snapshot |-> IF s \in torn THEN "part" ELSE copy[s]]
    /\ synced' = [s \in Snapshot |-> TRUE]
    /\ UNCHANGED <<disk, acked, removed>>

-----------------------------------------------------------------------------
(* Properties.                                                             *)

\* A snapshot that is listed and that nobody has asked to delete has its
\* rootfs, copied to the end, after every failure, kill and power loss:
\* "an interrupted operation never leaves a directory that looks complete"
\* (publishSnapshot).
ListedIsComplete == \A s \in Listed \ removed :
    entries[s] = File /\ copy[s] \in {"raw", "whole"}

\* The files and directories implement a set of snapshots that appear whole
\* and, once acknowledged, survive a power loss (publishSnapshot, fsyncDir).
Abstract == INSTANCE SnapshotSet WITH kept <- Listed \ removed

KeepsAcknowledged == Abstract!Spec

-----------------------------------------------------------------------------
Create ==
    \/ \E s \in Snapshot : Begin(s)
    \/ Clone \/ BeginCopy \/ EndCopy
    \/ SaveRecord \/ SyncDirectory \/ Publish \/ SyncParent \/ Answer
    \/ Fails \/ Clean

Delete == \E s \in Snapshot :
    \/ BeginDelete(s)
    \/ \E f \in File : DeleteEntry(s, f)
    \/ DeleteDirectory(s)
    \/ DeleteFails(s)

Next == MakeDisk \/ FinishDisk \/ Create \/ Delete \/ Kill \/ PowerLoss

Spec == Init /\ [][Next]_vars
=============================================================================
