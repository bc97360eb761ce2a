---------------------------- MODULE PacketFilter ----------------------------
(***************************************************************************)
(* What the nftables chains of network.go do with a packet that one        *)
(* namespace forwards. Every VM in it has a table with a forward chain;    *)
(* an accept ends one chain, a drop ends the packet, so a packet passes if *)
(* the chain of every table lets it.                                       *)
(*                                                                         *)
(* The TAP of a VM stands for its VM. An address match is the set of       *)
(* addresses that it matches, and one that is not given matches Address.   *)
(* A rule group is the set of statements that are rendered from one item   *)
(* of the configuration: all of them accept, so their order is immaterial. *)
(***************************************************************************)
EXTENDS Integers, Sequences

CONSTANTS
    Interface,  \* the TAPs and the uplink of the namespace
    Address,    \* IPv4 and IPv6 addresses
    Blank       \* an empty entry of network.nameservers

MaxPort  == 65535
Port     == 0 .. MaxPort
Protocol == {"tcp", "udp", "icmp echo", "icmpv6 echo", "other"}

Packet == [iif : Interface, oif : Interface, source : Address, destination : Address,
           protocol : Protocol, port : Port, established : BOOLEAN]

\* FirewallRule, as Validate accepts it.
Fields == [protocol : {"tcp", "udp", "icmp", "all"}, port : Port, portEnd : Port,
           source : SUBSET Address, destination : SUBSET Address]

Rule == {r \in Fields :
            IF r.protocol \in {"tcp", "udp"}
            THEN r.port > 0 /\ (r.portEnd = 0 \/ r.portEnd >= r.port)
            ELSE r.port = 0 /\ r.portEnd = 0}

\* What of a Network the chains are built from.
Network == [tap : Interface, nameservers : Seq(Address \cup {Blank}),
            ingress : Seq(Rule), egress : Seq(Rule)]

-----------------------------------------------------------------------------
(* The chains.                                                             *)

Accept(network, direction, source, destination, protocols, ports) ==
    [verdict |-> "accept", direction |-> direction, tap |-> network.tap,
     source |-> source, destination |-> destination,
     protocols |-> protocols, ports |-> ports]

Drop == [verdict |-> "drop"]

Matches(line, packet) ==
    \/ line.verdict = "drop"
    \/ /\ \/ line.direction = "iif" /\ packet.iif = line.tap
          \/ line.direction = "oif" /\ packet.oif = line.tap
       /\ packet.source \in line.source
       /\ packet.destination \in line.destination
       /\ packet.protocol \in line.protocols
       /\ packet.port \in line.ports

PortRange(rule) == IF rule.portEnd # 0 /\ rule.portEnd # rule.port
                   THEN rule.port .. rule.portEnd
                   ELSE {rule.port}

RuleLines(network, direction, rule) ==
    LET line(protocols, ports) ==
            Accept(network, direction, rule.source, rule.destination, protocols, ports)
    IN  IF rule.protocol \in {"tcp", "udp"} THEN {line({rule.protocol}, PortRange(rule))}
        ELSE IF rule.protocol = "icmp"
             THEN {line({"icmp echo"}, Port), line({"icmpv6 echo"}, Port)}
             ELSE {line(Protocol, Port)}

DnsRules(network) ==
    [i \in DOMAIN network.nameservers |->
        IF network.nameservers[i] = Blank THEN {}
        ELSE {Accept(network, "iif", Address, {network.nameservers[i]}, {"udp"}, {53})}]

UserRules(network, direction, rules) ==
    [i \in DOMAIN rules |-> RuleLines(network, direction, rules[i])]

AcceptRules(network) ==
    DnsRules(network) \o (UserRules(network, "oif", network.ingress)
                          \o UserRules(network, "iif", network.egress))

FwRules(network) == AcceptRules(network) \o <<{Drop}>>

\* First match: some line accepts, and no line before it drops.
Accepts(chain, packet) == \E i \in DOMAIN chain :
    /\ \E line \in chain[i] : line.verdict = "accept" /\ Matches(line, packet)
    /\ \A j \in 1 .. i - 1 : \A line \in chain[j] :
          Matches(line, packet) => line.verdict # "drop"

\* The forward chain of one table, whose policy is to accept: replies, then a
\* jump for what comes from the TAP or goes to it. fw always ends the packet.
Forward(network, packet) ==
    \/ packet.established
    \/ network.tap \notin {packet.iif, packet.oif}
    \/ Accepts(FwRules(network), packet)

\* The tables of the VMs in the namespace, one after another.
Passes(networks, packet) == \A network \in networks : Forward(network, packet)

-----------------------------------------------------------------------------
(* The policy, as docs/network.md and config.go state it.                  *)

\* "FirewallRule allows one protocol between the VM and an optional peer."
Permits(rule, packet) ==
    /\ packet.source \in rule.source
    /\ packet.destination \in rule.destination
    /\ \/ rule.protocol = "all"
       \/ rule.protocol = "icmp" /\ packet.protocol \in {"icmp echo", "icmpv6 echo"}
       \/ /\ rule.protocol \in {"tcp", "udp"} /\ packet.protocol = rule.protocol
          /\ rule.port <= packet.port
          /\ packet.port = rule.port \/ packet.port <= rule.portEnd

PermitsAny(rules, packet) == \E i \in DOMAIN rules : Permits(rules[i], packet)

\* "The guest may send udp/53 to the nameservers."
DnsQuery(network, packet) ==
    /\ packet.protocol = "udp" /\ packet.port = 53
    /\ \E i \in DOMAIN network.nameservers :
          network.nameservers[i] # Blank /\ packet.destination = network.nameservers[i]

MaySend(network, packet) ==
    DnsQuery(network, packet) \/ PermitsAny(network.egress, packet)

MayReceive(network, packet) == PermitsAny(network.ingress, packet)
=============================================================================
