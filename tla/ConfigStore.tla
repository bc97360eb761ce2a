----------------------------- MODULE ConfigStore -----------------------------
(***************************************************************************)
(* The configuration of one VM: config.toml, its copies in the runtime and *)
(* what they have become in the network, and the size of the disk.         *)
(*                                                                         *)
(* mutateConfig (api.go) and Resize, ResizeRootfs and Reload (runtime.go)  *)
(* each load config.toml, change it, save it and apply it; no lock orders  *)
(* them. Start builds the network from what the runtime holds in memory,   *)
(* Stop removes it, and a runtime that dies comes back with what is saved. *)
(* The starts and stops themselves are the subject of Lifecycle.           *)
(***************************************************************************)
EXTENDS Integers

CONSTANTS
    Handler,    \* the requests that can be in flight together
    Main,       \* the main goroutine, which recovers the VM after a restart
    Operation,  \* which requests are sent, out of Operations
    Fault,      \* which outside events happen, out of Faults
    Editable,   \* the settings that are edited by hand
    Shared,     \* other VMs keep the VPC namespace when this one stops
    Resources,  \* CPUs and memory that can be asked for
    Rules,      \* firewalls that can be asked for
    Address,    \* public addresses
    Size,       \* sizes of the disk
    Invalid,    \* a value that Validate refuses
    None        \* no address, no firewall

Thread     == Handler \cup {Main}
Mutations  == {"bandwidth", "publicip", "firewall"}
Operations == Mutations \cup {"reload", "resize", "rootfs", "start", "stop"}

\* "tc": tc fails; "api": Firecracker refuses a request; "truncate" and
\* "resize": the tools that grow the disk fail; "save": config.toml cannot be
\* written; "metadata": nor metadata.json; "edit": the file is edited by hand;
\* "kill": the runtime dies.
Faults == {"tc", "api", "truncate", "resize", "save", "metadata", "edit", "kill"}

ASSUME ThreadAssumption == Main \notin Handler
ASSUME InputAssumption ==
    /\ Operation \subseteq Operations /\ Fault \subseteq Faults
    /\ Shared \in BOOLEAN
    /\ Size \subseteq Nat \ {0}
    /\ Invalid \notin Resources \cup Rules \cup Address \cup {None}
    /\ None \notin Rules \cup Address
ASSUME EditAssumption == Editable \subseteq {"resources", "band", "ip", "fw"}

VARIABLES
    pc,         \* where each goroutine is
    op,         \* the request it serves
    arg,        \* its body, until config.toml is loaded
    local,      \* the configuration it has loaded and changed
    file,       \* config.toml
    config,     \* instance.config, of which Start reads the address and the size
    netband,    \* network.config, of which Create reads the limits
    firewall,   \* network.firewall
    created,    \* network.TapName and network.namespace are set
    metaip,     \* instance.meta.PublicIPv4, the public address in force
    desired,    \* instance.meta.DesiredState
    saved,      \* both as they are in metadata.json
    vm,         \* Firecracker: "running" or "stopped"
    disksize,   \* the length of the rootfs file, 0 before the first start
    network,    \* the TAP and the nftables table exist
    dnat,       \* the public addresses in the DNAT map
    snat,       \* the public address of the guest in the SNAT map
    band,       \* the limit on the TAP, 0 for none
    fw,         \* the fw chain
    routes,     \* the public addresses that root routes to the VPC
    up,         \* the runtime runs
    dirty,      \* history: what is saved was not, or not wholly, applied
    unvalidated \* history: config.toml was written without Validate

threads == <<pc, op, arg, local>>
memory  == <<config, netband, firewall, created>>
rules   == <<network, dnat, snat, band, fw>>
history == <<dirty, unvalidated>>
metadata == <<metaip, desired, saved>>
vars    == <<threads, file, memory, metadata, vm, disksize, rules, routes, up, history>>

\* The part of Config that some step reads. A positive bandwidth stands for
\* every limit; the address stands for public_ipv4 and for public_ipv6.
Config == [resources : Resources \cup {Invalid}, size : Size, band : {0, 1},
           ip : Address \cup {None}, fw : Rules]

\* Config.Validate. It does not look at the bandwidth.
Valid(c) == Invalid \notin {c.resources, c.ip, c.fw} /\ c.size > 0

Held(c) == [ip |-> c.ip, size |-> c.size]

Applying == {"apply", "nat", "route", "ipsave", "band", "firewall"}
Growing  == {"statlive", "statcold", "truncatelive", "truncatecold", "patch", "resize2fs"}

TypeOK ==
    /\ pc \in [Thread -> Applying \cup Growing \cup
                 {"idle", "load", "save", "keep", "want", "network", "boot",
                  "unwant", "halt", "end", "delete"}]
    /\ op \in [Thread -> Operation \cup {"recover", "none"}]
    /\ arg \in [Thread -> Resources \cup Rules \cup Address \cup Size \cup {0, 1, Invalid, None}]
    /\ local \in [Thread -> Config \cup {None}] /\ file \in Config
    /\ config \in [ip : Address \cup {None}, size : Size] /\ netband \in {0, 1}
    /\ firewall \in Rules
    /\ metaip \in Address \cup {None} /\ snat \in Address \cup {None}
    /\ dnat \subseteq Address /\ routes \subseteq Address
    /\ desired \in {"running", "stopped"}
    /\ saved \in [ip : Address \cup {None}, desired : {"running", "stopped"}]
    /\ vm \in {"running", "stopped"}
    /\ disksize \in Size \cup {0}
    /\ band \in {0, 1}
    /\ fw \in Rules \cup {None}
    /\ {created, network, up, dirty, unvalidated} \subseteq BOOLEAN

\* A new machine directory with a valid config.toml.
Init ==
    /\ file \in {c \in Config : Valid(c)}
    /\ pc = [t \in Thread |-> "idle"]
    /\ op = [t \in Thread |-> "none"]
    /\ arg = [t \in Thread |-> None]
    /\ local = [t \in Thread |-> None]
    /\ config = Held(file) /\ netband = file.band /\ firewall = file.fw
    /\ created = FALSE /\ network = FALSE /\ up = TRUE
    /\ metaip = None /\ snat = None /\ fw = None
    /\ dnat = {} /\ routes = {}
    /\ desired = "stopped" /\ saved = [ip |-> None, desired |-> "stopped"]
    /\ vm = "stopped"
    /\ disksize = 0 /\ band = 0
    /\ dirty = FALSE /\ unvalidated = FALSE

-----------------------------------------------------------------------------
(* Requests.                                                               *)

At(t, point) == pc[t] = point

Goto(t, point) ==
    /\ pc' = [pc EXCEPT ![t] = point]
    /\ UNCHANGED <<op, arg, local>>

\* The handler returns; what it held is gone.
Return(t) ==
    /\ pc' = [pc EXCEPT ![t] = "idle"]
    /\ op' = [op EXCEPT ![t] = "none"]
    /\ arg' = [arg EXCEPT ![t] = None]
    /\ local' = [local EXCEPT ![t] = None]

\* The configuration applied is the one that was asked for ...
Applied(t) == Return(t) /\ dirty' = FALSE /\ UNCHANGED unvalidated

\* ... or applyConfig returned its first error.
NotApplied(t) == Return(t) /\ dirty' = TRUE /\ UNCHANGED unvalidated

\* The bodies that a request can carry.
Body ==
    [bandwidth |-> {0, 1}, publicip |-> Address \cup {None, Invalid},
     firewall |-> Rules \cup {Invalid}, resize |-> Resources \cup {Invalid},
     rootfs |-> Size, reload |-> {None}, start |-> {None}, stop |-> {None}]

Entry(o) == CASE o = "start" -> "want" [] o = "stop" -> "unwant" [] OTHER -> "load"

\* A request arrives. The server runs once the recovery has ended.
Request(h) ==
    /\ up /\ At(Main, "idle") /\ At(h, "idle")
    /\ \E o \in Operation : \E body \in Body[o] :
           /\ op' = [op EXCEPT ![h] = o]
           /\ arg' = [arg EXCEPT ![h] = body]
           /\ pc' = [pc EXCEPT ![h] = Entry(o)]
    /\ UNCHANGED <<local, file, memory, metadata, vm, disksize, rules, routes, up, history>>

\* The configuration c is loaded, and changed; the handler goes on at point.
Loaded(t, c, point) ==
    /\ local' = [local EXCEPT ![t] = c]
    /\ arg' = [arg EXCEPT ![t] = None]
    /\ pc' = [pc EXCEPT ![t] = point]
    /\ UNCHANGED op

Untouched == UNCHANGED <<file, memory, metadata, vm, disksize, rules, routes, up, history>>

\* The mutations.
Changed(o, body) ==
    CASE o = "bandwidth" -> [file EXCEPT !.band = body]
      [] o = "publicip"  -> [file EXCEPT !.ip = body]
      [] o = "firewall"  -> [file EXCEPT !.fw = body]

\* A faulty Mutate: without Validate.
MutantMutate(t) ==
    /\ At(t, "load") /\ op[t] \in Mutations
    /\ Loaded(t, Changed(op[t], arg[t]), "save")
    /\ Untouched

\* mutateConfig: LoadConfig, the mutation, Validate.
Mutate(t) ==
    /\ At(t, "load") /\ op[t] \in Mutations
    /\ LET c == Changed(op[t], arg[t])
       IN  IF Valid(c) THEN Loaded(t, c, "save") ELSE Return(t)
    /\ Untouched

\* Reload: LoadConfig, Validate. Nothing is saved.
Reload(t) ==
    /\ At(t, "load") /\ op[t] = "reload"
    /\ IF Valid(file) THEN Loaded(t, file, "apply") ELSE Return(t)
    /\ Untouched

\* Resize: only a VM that is stopped; no Validate.
Resize(t) ==
    /\ At(t, "load") /\ op[t] = "resize"
    /\ IF vm = "running"
       THEN Return(t)
       ELSE Loaded(t, [file EXCEPT !.resources = arg[t]], "save")
    /\ Untouched

\* A faulty ResizeRootfs: a running VM whose disk is not grown.
MutantResizeRootfs(t) ==
    /\ At(t, "load") /\ op[t] = "rootfs"
    /\ IF arg[t] > file.size
       THEN Loaded(t, [file EXCEPT !.size = arg[t]],
                   IF vm = "running" THEN "save" ELSE "statcold")
       ELSE Loaded(t, file, "save")
    /\ Untouched

\* ResizeRootfs: a larger size is remembered for the save and the disk grown
\* first, in the way that Running calls for; no Validate.
ResizeRootfs(t) ==
    /\ At(t, "load") /\ op[t] = "rootfs"
    /\ IF arg[t] > file.size
       THEN Loaded(t, [file EXCEPT !.size = arg[t]],
                   IF vm = "running" THEN "statlive" ELSE "statcold")
       ELSE Loaded(t, file, "save")
    /\ Untouched

-----------------------------------------------------------------------------
(* The disk.                                                               *)

\* A faulty Stat: without the comparison of the sizes.
MutantStat(t) ==
    /\ pc[t] \in {"statlive", "statcold"}
    /\ IF disksize = 0
       THEN Goto(t, IF At(t, "statlive") THEN "patch" ELSE "save")
       ELSE Goto(t, IF At(t, "statlive") THEN "truncatelive" ELSE "truncatecold")
    /\ Untouched

\* GrowRootfs: a missing file, or one that is large enough, is left alone.
Stat(t) ==
    /\ pc[t] \in {"statlive", "statcold"}
    /\ IF disksize = 0 \/ local[t].size <= disksize
       THEN Goto(t, IF At(t, "statlive") THEN "patch" ELSE "save")
       ELSE Goto(t, IF At(t, "statlive") THEN "truncatelive" ELSE "truncatecold")
    /\ Untouched

\* truncate, and on a disk that was offline e2fsck and resize2fs after it.
Truncate(t) ==
    /\ pc[t] \in {"truncatelive", "truncatecold"}
    /\ disksize' = local[t].size
    /\ Goto(t, IF At(t, "truncatelive") THEN "patch" ELSE "resize2fs")
    /\ UNCHANGED <<file, memory, metadata, vm, rules, routes, up, history>>

TruncateFails(t) ==
    /\ "truncate" \in Fault
    /\ pc[t] \in {"truncatelive", "truncatecold"}
    /\ Return(t)
    /\ Untouched

Resize2fs(t) == At(t, "resize2fs") /\ Goto(t, "save") /\ Untouched

Resize2fsFails(t) ==
    /\ "resize" \in Fault
    /\ At(t, "resize2fs")
    /\ Return(t)
    /\ Untouched

\* SetRootfsSize: Firecracker reads the new length.
SetRootfsSize(t) ==
    /\ At(t, "patch") /\ vm = "running"
    /\ Goto(t, "save")
    /\ Untouched

SetRootfsSizeFails(t) ==
    /\ At(t, "patch") /\ ("api" \in Fault \/ vm = "stopped")
    /\ Return(t)
    /\ Untouched

-----------------------------------------------------------------------------
(* Saving and applying.                                                    *)

\* SaveConfig renames a complete file into place.
Save(t) ==
    /\ At(t, "save")
    /\ file' = local[t]
    /\ unvalidated' = (op[t] \notin Mutations)
    /\ Goto(t, IF op[t] = "resize" THEN "keep" ELSE "apply")
    /\ UNCHANGED <<memory, metadata, vm, disksize, rules, routes, up, dirty>>

SaveFails(t) ==
    /\ "save" \in Fault
    /\ At(t, "save")
    /\ Return(t)
    /\ Untouched

\* Resize ends with the configuration in memory; the next start uses it.
Keep(t) ==
    /\ At(t, "keep")
    /\ config' = Held(local[t])
    /\ Return(t)
    /\ UNCHANGED <<file, netband, firewall, created, metadata, vm, disksize,
                   rules, routes, up, history>>

\* A faulty Apply: network.config forgotten.
MutantApply(t) ==
    /\ At(t, "apply")
    /\ config' = Held(local[t])
    /\ Goto(t, "nat")
    /\ UNCHANGED <<file, netband, firewall, created, metadata, vm, disksize,
                   rules, routes, up, history>>

\* applyConfig takes the configuration over.
Apply(t) ==
    /\ At(t, "apply")
    /\ config' = Held(local[t]) /\ netband' = local[t].band
    /\ Goto(t, "nat")
    /\ UNCHANGED <<file, firewall, created, metadata, vm, disksize,
                   rules, routes, up, history>>

\* Commands in the namespace of the VM reach its TAP and its table.
Reachable == created /\ network

\* A faulty SyncNAT: an empty address added as if it were one.
MutantSyncNAT(t) ==
    /\ At(t, "nat")
    /\ LET moved == metaip \notin {None, config.ip}
           kept  == IF moved THEN None ELSE snat
       IN  IF Reachable
           THEN /\ dnat' = (IF moved THEN dnat \ {metaip} ELSE dnat) \cup {config.ip}
                /\ snat' = IF kept = None THEN config.ip ELSE kept
           ELSE UNCHANGED <<dnat, snat>>
    /\ Goto(t, "route")
    /\ UNCHANGED <<file, memory, metadata, vm, disksize, network, band, fw,
                   routes, up, history>>

\* syncNATMap. Elements are deleted by their key; an element whose key is
\* there with another value cannot be added.
SyncNAT(t) ==
    /\ At(t, "nat")
    /\ LET moved == metaip \notin {None, config.ip}
           kept  == IF moved THEN None ELSE snat
           new   == {config.ip} \ {None}
       IN  IF Reachable
           THEN /\ dnat' = (IF moved THEN dnat \ {metaip} ELSE dnat) \cup new
                /\ snat' = IF kept = None THEN config.ip ELSE kept
           ELSE UNCHANGED <<dnat, snat>>
    /\ Goto(t, "route")
    /\ UNCHANGED <<file, memory, metadata, vm, disksize, network, band, fw,
                   routes, up, history>>

\* syncPublicRoute. A route can be added only while the veth exists.
SyncRoute(t) ==
    /\ At(t, "route")
    /\ routes' = (routes \ ({metaip} \ {config.ip}))
                 \cup (IF network \/ Shared THEN {config.ip} \ {None} ELSE {})
    /\ Goto(t, "ipsave")
    /\ UNCHANGED <<file, memory, metadata, vm, disksize, rules, up, history>>

\* What SaveMetadata writes: all that the runtime remembers. Start and Stop drop
\* its error; what that costs is left to Lifecycle, and here they succeed.
InStep == [ip |-> metaip, desired |-> desired]'

Starting(t) == op[t] \in {"start", "recover"}

\* applyPublicIPs ends: the addresses in force are in metadata.json, ...
SaveIPs(t) ==
    /\ At(t, "ipsave")
    /\ metaip' = config.ip /\ UNCHANGED desired
    /\ saved' = InStep
    /\ Goto(t, IF Starting(t) THEN "boot" ELSE "band")
    /\ UNCHANGED <<file, memory, vm, disksize, rules, routes, up, history>>

\* ... or the error ends the request, or the start, of a VM that may run.
SaveIPsFails(t) ==
    /\ "metadata" \in Fault
    /\ At(t, "ipsave")
    /\ metaip' = config.ip /\ UNCHANGED <<desired, saved>>
    /\ IF Starting(t) /\ vm = "stopped" THEN Return(t) /\ UNCHANGED history ELSE NotApplied(t)
    /\ UNCHANGED <<file, memory, vm, disksize, rules, routes, up>>

\* SetBandwidth removes the limits and adds those asked for. Without a TAP
\* that fails, and applyConfig returns before it has touched the firewall.
SetBandwidth(t) ==
    /\ At(t, "band") /\ (local[t].band = 0 \/ Reachable)
    /\ band' = IF Reachable THEN local[t].band ELSE band
    /\ Goto(t, "firewall")
    /\ UNCHANGED <<file, memory, metadata, vm, disksize, network, dnat, snat, fw,
                   routes, up, history>>

SetBandwidthFails(t) ==
    /\ At(t, "band") /\ local[t].band > 0 /\ ("tc" \in Fault \/ ~Reachable)
    /\ band' = IF Reachable THEN 0 ELSE band
    /\ NotApplied(t)
    /\ UNCHANGED <<file, memory, metadata, vm, disksize, network, dnat, snat, fw,
                   routes, up>>

\* SetFirewall keeps the rules, and rebuilds the chain of a network that has
\* been created; a stopped VM has no chain left and nft fails.
SetFirewall(t) ==
    /\ At(t, "firewall")
    /\ firewall' = local[t].fw
    /\ fw' = IF Reachable THEN local[t].fw ELSE fw
    /\ IF created /\ ~network THEN NotApplied(t) ELSE Applied(t)
    /\ UNCHANGED <<file, config, netband, created, metadata, vm, disksize,
                   network, dnat, snat, band, routes, up>>

-----------------------------------------------------------------------------
(* Starts, stops, restarts and edits.                                      *)

\* Start: the desired state first.
Want(t) ==
    /\ At(t, "want")
    /\ desired' = "running" /\ UNCHANGED metaip
    /\ saved' = InStep
    /\ Goto(t, "network")
    /\ UNCHANGED <<file, memory, vm, disksize, rules, routes, up, history>>

\* The table is destroyed and built again, with the firewall in memory.
BuildTable ==
    /\ created' = TRUE /\ network' = TRUE
    /\ dnat' = {} /\ snat' = None
    /\ fw' = firewall

\* network.Create: TAP, table, limits.
CreateNetwork(t) ==
    /\ At(t, "network")
    /\ BuildTable
    /\ band' = netband
    /\ Goto(t, "nat")
    /\ UNCHANGED <<file, config, netband, firewall, metadata, vm, disksize,
                   routes, up, history>>

\* SetBandwidth fails; on a VM that runs the public address is gone as well.
CreateNetworkFails(t) ==
    /\ "tc" \in Fault
    /\ At(t, "network") /\ netband > 0
    /\ BuildTable
    /\ band' = 0
    /\ IF vm = "running" THEN NotApplied(t) ELSE Return(t) /\ UNCHANGED history
    /\ UNCHANGED <<file, config, netband, firewall, metadata, vm, disksize,
                   routes, up>>

\* The first start makes the rootfs, at the size in memory; Firecracker boots.
Boot(t) ==
    /\ At(t, "boot")
    /\ vm' = "running"
    /\ disksize' = IF disksize = 0 THEN config.size ELSE disksize
    /\ Return(t)
    /\ UNCHANGED <<file, memory, metadata, rules, routes, up, history>>

BootFails(t) ==
    /\ "api" \in Fault
    /\ At(t, "boot") /\ vm = "stopped"
    /\ disksize' = IF disksize = 0 THEN config.size ELSE disksize
    /\ Return(t)
    /\ UNCHANGED <<file, memory, metadata, vm, rules, routes, up, history>>

\* Stop: the desired state, the halt, ...
Unwant(t) ==
    /\ At(t, "unwant")
    /\ desired' = "stopped" /\ UNCHANGED metaip
    /\ saved' = InStep
    /\ Goto(t, "halt")
    /\ UNCHANGED <<file, memory, vm, disksize, rules, routes, up, history>>

Halt(t) ==
    /\ At(t, "halt")
    /\ vm' = "stopped"
    /\ Goto(t, "end")
    /\ UNCHANGED <<file, memory, metadata, disksize, rules, routes, up, history>>

\* ... the public addresses in metadata.json, whose routes stay, ...
ClearIPs(t) ==
    /\ At(t, "end")
    /\ metaip' = None /\ UNCHANGED desired
    /\ saved' = InStep
    /\ Goto(t, "delete")
    /\ UNCHANGED <<file, memory, vm, disksize, rules, routes, up, history>>

\* ... and network.Delete. A runtime that has not created the network knows
\* neither TAP nor namespace, and finds nothing to remove. The namespace, with
\* all that is in it, and the veth go with the last VM of the VPC, and the
\* routes with the veth.
DeleteNetwork(t) ==
    /\ At(t, "delete")
    /\ IF created \/ ~Shared
       THEN /\ network' = FALSE
            /\ dnat' = {} /\ snat' = None /\ band' = 0 /\ fw' = None
       ELSE UNCHANGED <<network, dnat, snat, band, fw>>
    /\ routes' = IF Shared THEN routes ELSE {}
    /\ Return(t)
    /\ UNCHANGED <<file, memory, metadata, vm, disksize, up, history>>

\* The runtime dies, and Firecracker with it; systemd starts it again. main
\* exits on a config.toml that Validate refuses, and otherwise every copy of
\* the configuration is the saved one. A VM that is wanted is started.
Restart ==
    /\ "kill" \in Fault
    /\ up' = Valid(file)
    /\ LET recover == up' /\ saved.desired = "running"
       IN  /\ pc' = [t \in Thread |-> IF t = Main /\ recover THEN "want" ELSE "idle"]
           /\ op' = [t \in Thread |-> IF t = Main /\ recover THEN "recover" ELSE "none"]
    /\ arg' = [t \in Thread |-> None]
    /\ local' = [t \in Thread |-> None]
    /\ vm' = "stopped"
    /\ metaip' = saved.ip /\ desired' = saved.desired /\ UNCHANGED saved
    /\ created' = FALSE
    /\ IF up'
       THEN config' = Held(file) /\ netband' = file.band /\ firewall' = file.fw /\ dirty' = FALSE
       ELSE UNCHANGED <<config, netband, firewall, dirty>>
    /\ UNCHANGED <<file, disksize, rules, routes, unvalidated>>

\* config.toml is edited by hand, between two requests: a live setting, or a
\* mistake that Validate finds. The size is no live setting.
Edit ==
    /\ "edit" \in Fault
    /\ \A t \in Thread : At(t, "idle")
    /\ \E c \in Config :
           /\ c # file
           /\ \A setting \in DOMAIN c \ Editable : c[setting] = file[setting]
           /\ file' = c
    /\ dirty' = TRUE /\ unvalidated' = TRUE
    /\ UNCHANGED <<threads, memory, metadata, vm, disksize, rules, routes, up>>

-----------------------------------------------------------------------------
Step(t) ==
    \/ Mutate(t) \/ Reload(t) \/ Resize(t) \/ ResizeRootfs(t)
    \/ Stat(t) \/ Truncate(t) \/ TruncateFails(t)
    \/ Resize2fs(t) \/ Resize2fsFails(t)
    \/ SetRootfsSize(t) \/ SetRootfsSizeFails(t)
    \/ Save(t) \/ SaveFails(t) \/ Keep(t) \/ Apply(t)
    \/ SyncNAT(t) \/ SyncRoute(t) \/ SaveIPs(t) \/ SaveIPsFails(t)
    \/ SetBandwidth(t) \/ SetBandwidthFails(t) \/ SetFirewall(t)
    \/ Want(t) \/ CreateNetwork(t) \/ CreateNetworkFails(t)
    \/ Boot(t) \/ BootFails(t)
    \/ Unwant(t) \/ Halt(t) \/ ClearIPs(t) \/ DeleteNetwork(t)

Next ==
    \/ \E h \in Handler : Request(h)
    \/ \E t \in Thread : Step(t)
    \/ Restart
    \/ Edit

Spec == Init /\ [][Next]_vars

-----------------------------------------------------------------------------
(* Properties.                                                             *)

Quiet == up /\ \A t \in Thread : At(t, "idle")

\* While no request has failed to apply and no edit waits for a reload, the
\* network of a VM that runs is the one config.toml asks for: its public
\* address and no other is translated, in both directions, and routed, its
\* limit and its firewall are in force. Whatever requests, stops, failed
\* starts and restarts came before.
AppliedIsSaved ==
    Quiet /\ vm = "running" /\ ~dirty =>
        /\ dnat = {file.ip} \ {None}
        /\ snat = file.ip
        /\ dnat \subseteq routes
        /\ band = file.band
        /\ fw = file.fw

\* The rootfs file of the VM never gets shorter ("You cannot make it smaller",
\* docs/disk.md), also when a resize that failed halfway is tried again with
\* another size.
DiskNeverShrinks == [][disksize' >= disksize]_disksize

\* config.toml never names a size that the rootfs file does not have: the disk
\* grows before the size is saved, and a kill or a failure comes in between.
DiskCoversConfig == disksize # 0 => disksize >= file.size

\* A runtime that refuses to start was left so by a hand edit, or by one of
\* the two requests that skip Validate; never by a request of mutateConfig.
RefusedOnlyUnvalidated == ~up => unvalidated
=============================================================================
