------------------------- MODULE PacketFilterProofs -------------------------
(***************************************************************************)
(* The chains of PacketFilter implement the policy. A chain is the items   *)
(* that accept with one drop behind them, so it lets a packet through if   *)
(* some line of it matches (FinalDrop), whatever the order of the lines;   *)
(* what a line matches is what its rule permits (RuleMeaning); and a table *)
(* whose TAP the packet does not touch lets it pass.                       *)
(***************************************************************************)
EXTENDS PacketFilter, TLAPS

AcceptLine == [verdict : {"accept"}, direction : {"iif", "oif"}, tap : Interface,
               source : SUBSET Address, destination : SUBSET Address,
               protocols : SUBSET Protocol, ports : SUBSET Port]

Chain == Seq(SUBSET AcceptLine)

Hit(group, packet) == \E line \in group : Matches(line, packet)

HitAny(chain, packet) == \E i \in DOMAIN chain : Hit(chain[i], packet)

LEMMA RuleFields ==
    ASSUME NEW rule \in Rule
    PROVE  /\ rule.protocol \in {"tcp", "udp", "icmp", "all"}
           /\ rule.port \in Port /\ rule.portEnd \in Port
           /\ rule.source \in SUBSET Address /\ rule.destination \in SUBSET Address
           /\ rule.protocol \in {"tcp", "udp"} => rule.portEnd = 0 \/ rule.portEnd >= rule.port
<1>1. rule \in Fields
  BY DEF Rule
<1>2. rule.protocol \in {"tcp", "udp"} => rule.portEnd = 0 \/ rule.portEnd >= rule.port
  BY DEF Rule
<1> QED
  BY <1>1, <1>2 DEF Fields

LEMMA PortBounds ==
    /\ MaxPort \in Int /\ 53 <= MaxPort
    /\ \A port : port \in Port <=> port \in Int /\ 0 <= port /\ port <= MaxPort
<1>1. MaxPort \in Int /\ 53 <= MaxPort
  BY DEF MaxPort
<1> QED
  BY <1>1 DEF Port

LEMMA PortRangeType ==
    ASSUME NEW rule \in Rule
    PROVE  PortRange(rule) \in SUBSET Port
<1>1. rule.port \in Port /\ rule.portEnd \in Port
  BY RuleFields
<1>2. \A low, high \in Port : low .. high \in SUBSET Port
  <2> SUFFICES ASSUME NEW low \in Port, NEW high \in Port, NEW port \in low .. high
               PROVE  port \in Port
    OBVIOUS
  <2>1. /\ low \in Int /\ 0 <= low /\ high \in Int /\ high <= MaxPort
    BY PortBounds
  <2>2. port \in Int /\ 0 <= port /\ port <= MaxPort
    BY <2>1, PortBounds
  <2> QED
    BY <2>2, PortBounds
<1> QED
  BY <1>1, <1>2 DEF PortRange

LEMMA RuleLinesType ==
    ASSUME NEW network \in Network, NEW direction \in {"iif", "oif"}, NEW rule \in Rule
    PROVE  RuleLines(network, direction, rule) \in SUBSET AcceptLine
<1> DEFINE line(protocols, ports) ==
               Accept(network, direction, rule.source, rule.destination, protocols, ports)
<1>1. ASSUME NEW protocols \in SUBSET Protocol, NEW ports \in SUBSET Port
      PROVE  line(protocols, ports) \in AcceptLine
  <2>1. network.tap \in Interface
    BY DEF Network
  <2> QED
    BY <2>1, RuleFields DEF Accept, AcceptLine
<1>2. CASE rule.protocol \in {"tcp", "udp"}
  <2>1. {rule.protocol} \in SUBSET Protocol
    BY <1>2 DEF Protocol
  <2>2. line({rule.protocol}, PortRange(rule)) \in AcceptLine
    BY <1>1, <2>1, PortRangeType
  <2>3. RuleLines(network, direction, rule) = {line({rule.protocol}, PortRange(rule))}
    BY <1>2 DEF RuleLines
  <2> QED
    BY <2>2, <2>3
<1>3. CASE rule.protocol = "icmp"
  <2>1. {"icmp echo"} \in SUBSET Protocol /\ {"icmpv6 echo"} \in SUBSET Protocol
    BY DEF Protocol
  <2>2. line({"icmp echo"}, Port) \in AcceptLine /\ line({"icmpv6 echo"}, Port) \in AcceptLine
    BY <1>1, <2>1
  <2>3. RuleLines(network, direction, rule)
        = {line({"icmp echo"}, Port), line({"icmpv6 echo"}, Port)}
    BY <1>3 DEF RuleLines
  <2> QED
    BY <2>2, <2>3
<1>4. CASE rule.protocol = "all"
  <2>1. line(Protocol, Port) \in AcceptLine
    BY <1>1
  <2>2. RuleLines(network, direction, rule) = {line(Protocol, Port)}
    BY <1>4 DEF RuleLines
  <2> QED
    BY <2>1, <2>2
<1> QED
  BY <1>2, <1>3, <1>4, RuleFields

\* The ports of a rule: both ends of the range belong to it.
LEMMA PortRangeMeaning ==
    ASSUME NEW rule \in Rule, rule.protocol \in {"tcp", "udp"}, NEW port \in Port
    PROVE  port \in PortRange(rule)
           <=> rule.port <= port /\ (port = rule.port \/ port <= rule.portEnd)
<1> DEFINE low == rule.port
           high == rule.portEnd
<1>1. /\ low \in Int /\ high \in Int /\ low >= 0 /\ high >= 0
      /\ high = 0 \/ high >= low
  <2>1. low \in Port /\ high \in Port /\ (high = 0 \/ high >= low)
    BY RuleFields
  <2> HIDE DEF low, high
  <2> QED
    BY <2>1, PortBounds
<1>2. port \in Int /\ port >= 0
  BY DEF Port
<1>3. low > 0
  BY DEF Rule
<1>4. PortRange(rule) = IF high # 0 /\ high # low THEN low .. high ELSE {low}
  BY DEF PortRange
<1> HIDE DEF low, high
<1>5. port \in (IF high # 0 /\ high # low THEN low .. high ELSE {low})
      <=> low <= port /\ (port = low \/ port <= high)
  BY <1>1, <1>2, <1>3
<1> QED
  BY <1>4, <1>5 DEF low, high

\* The interface that a packet of a direction is matched by.
At(packet, direction) == IF direction = "iif" THEN packet.iif ELSE packet.oif

LEMMA LineMeaning ==
    ASSUME NEW network, NEW direction \in {"iif", "oif"}, NEW source, NEW destination,
           NEW protocols, NEW ports, NEW packet
    PROVE  Matches(Accept(network, direction, source, destination, protocols, ports), packet)
           <=> /\ At(packet, direction) = network.tap
               /\ packet.source \in source /\ packet.destination \in destination
               /\ packet.protocol \in protocols /\ packet.port \in ports
BY DEF Matches, Accept, At

\* A rule of the configuration matches a packet of its direction exactly if it
\* permits it: the two lines of icmp, the port ranges and the optional
\* addresses say what the rule says (ruleLines).
LEMMA RuleMeaning ==
    ASSUME NEW network \in Network, NEW direction \in {"iif", "oif"},
           NEW rule \in Rule, NEW packet \in Packet
    PROVE  Hit(RuleLines(network, direction, rule), packet)
           <=> At(packet, direction) = network.tap /\ Permits(rule, packet)
<1> DEFINE line(protocols, ports) ==
               Accept(network, direction, rule.source, rule.destination, protocols, ports)
           here == /\ At(packet, direction) = network.tap
                   /\ packet.source \in rule.source /\ packet.destination \in rule.destination
<1>1. packet.protocol \in Protocol /\ packet.port \in Port
  BY DEF Packet
<1>2. \A protocols, ports : Matches(line(protocols, ports), packet)
          <=> here /\ packet.protocol \in protocols /\ packet.port \in ports
  BY LineMeaning
<1>3. CASE rule.protocol \in {"tcp", "udp"}
  <2>1. RuleLines(network, direction, rule) = {line({rule.protocol}, PortRange(rule))}
    BY <1>3 DEF RuleLines
  <2>2. Hit(RuleLines(network, direction, rule), packet)
        <=> here /\ packet.protocol = rule.protocol /\ packet.port \in PortRange(rule)
    <3> HIDE DEF here, line
    <3> QED
      BY <1>2, <2>1 DEF Hit
  <2>3. packet.port \in PortRange(rule)
        <=> rule.port <= packet.port /\ (packet.port = rule.port \/ packet.port <= rule.portEnd)
    BY <1>1, <1>3, PortRangeMeaning
  <2> QED
    BY <1>3, <2>2, <2>3 DEF Permits
<1>4. CASE rule.protocol = "icmp"
  <2>1. RuleLines(network, direction, rule)
        = {line({"icmp echo"}, Port), line({"icmpv6 echo"}, Port)}
    BY <1>4 DEF RuleLines
  <2>2. Hit(RuleLines(network, direction, rule), packet)
        <=> here /\ packet.protocol \in {"icmp echo", "icmpv6 echo"}
    <3> HIDE DEF here, line
    <3> QED
      BY <1>1, <1>2, <2>1 DEF Hit
  <2> QED
    BY <1>4, <2>2 DEF Permits
<1>5. CASE rule.protocol = "all"
  <2>1. RuleLines(network, direction, rule) = {line(Protocol, Port)}
    BY <1>5 DEF RuleLines
  <2>2. Hit(RuleLines(network, direction, rule), packet) <=> here
    <3> HIDE DEF here, line
    <3> QED
      BY <1>1, <1>2, <2>1 DEF Hit
  <2> QED
    BY <1>5, <2>2 DEF Permits
<1> QED
  BY <1>3, <1>4, <1>5, RuleFields

LEMMA Concatenation ==
    ASSUME NEW s \in Chain, NEW t \in Chain, NEW packet
    PROVE  /\ s \o t \in Chain
           /\ HitAny(s \o t, packet) <=> HitAny(s, packet) \/ HitAny(t, packet)
<1>1. s \o t \in Chain
  BY DEF Chain
<1>2. /\ Len(s) \in Nat /\ DOMAIN s = 1 .. Len(s)
      /\ Len(t) \in Nat /\ DOMAIN t = 1 .. Len(t)
      /\ DOMAIN (s \o t) = 1 .. Len(s) + Len(t)
      /\ \A i \in 1 .. Len(s) : (s \o t)[i] = s[i]
      /\ \A i \in 1 .. Len(t) : (s \o t)[Len(s) + i] = t[i]
  BY DEF Chain
<1>3. ASSUME HitAny(s \o t, packet)
      PROVE  HitAny(s, packet) \/ HitAny(t, packet)
  <2>1. PICK i \in 1 .. Len(s) + Len(t) : Hit((s \o t)[i], packet)
    BY <1>2, <1>3 DEF HitAny
  <2>2. CASE i <= Len(s)
    BY <1>2, <2>1, <2>2 DEF HitAny
  <2>3. CASE i > Len(s)
    <3>1. i - Len(s) \in 1 .. Len(t) /\ Len(s) + (i - Len(s)) = i
      BY <1>2, <2>3
    <3> QED
      BY <1>2, <2>1, <3>1 DEF HitAny
  <2> QED
    BY <1>2, <2>2, <2>3
<1>4. ASSUME HitAny(s, packet) \/ HitAny(t, packet)
      PROVE  HitAny(s \o t, packet)
  <2>1. CASE HitAny(s, packet)
    BY <1>2, <2>1 DEF HitAny
  <2>2. CASE HitAny(t, packet)
    <3>1. PICK i \in 1 .. Len(t) : Hit(t[i], packet)
      BY <1>2, <2>2 DEF HitAny
    <3>2. Len(s) + i \in DOMAIN (s \o t)
      BY <1>2
    <3> QED
      BY <1>2, <3>1, <3>2 DEF HitAny
  <2> QED
    BY <1>4, <2>1, <2>2
<1> QED
  BY <1>1, <1>3, <1>4

\* The drop at the end of fw decides what nothing before it has accepted.
LEMMA FinalDrop ==
    ASSUME NEW s \in Chain, NEW packet
    PROVE  Accepts(s \o <<{Drop}>>, packet) <=> HitAny(s, packet)
<1> DEFINE chain == s \o <<{Drop}>>
<1>1. /\ Len(s) \in Nat /\ DOMAIN s = 1 .. Len(s)
      /\ DOMAIN chain = 1 .. Len(s) + 1
      /\ \A i \in 1 .. Len(s) : chain[i] = s[i]
      /\ chain[Len(s) + 1] = {Drop}
  BY DEF Chain
<1>2. \A i \in 1 .. Len(s) : \A line \in s[i] : line.verdict = "accept"
  BY DEF Chain, AcceptLine
<1>3. \A line \in {Drop} : line.verdict # "accept"
  BY DEF Drop
<1>4. ASSUME Accepts(chain, packet)
      PROVE  HitAny(s, packet)
  <2>1. PICK i \in 1 .. Len(s) + 1 :
            \E line \in chain[i] : line.verdict = "accept" /\ Matches(line, packet)
    BY <1>1, <1>4 DEF Accepts
  <2>2. i \in 1 .. Len(s)
    BY <1>1, <1>3, <2>1
  <2> QED
    BY <1>1, <2>1, <2>2 DEF HitAny, Hit
<1>5. ASSUME HitAny(s, packet)
      PROVE  Accepts(chain, packet)
  <2>1. PICK i \in 1 .. Len(s) : \E line \in s[i] : Matches(line, packet)
    BY <1>1, <1>5 DEF HitAny, Hit
  <2>2. i \in DOMAIN chain /\ \A j \in 1 .. i - 1 : j \in 1 .. Len(s)
    BY <1>1
  <2>3. \A j \in 1 .. i - 1 : \A line \in chain[j] : line.verdict = "accept"
    BY <1>1, <1>2, <2>2
  <2>4. \E line \in chain[i] : line.verdict = "accept" /\ Matches(line, packet)
    BY <1>1, <1>2, <2>1
  <2> QED
    BY <2>2, <2>3, <2>4 DEF Accepts
<1> QED
  BY <1>4, <1>5

LEMMA UserRulesMeaning ==
    ASSUME NEW network \in Network, NEW direction \in {"iif", "oif"},
           NEW rules \in Seq(Rule), NEW packet \in Packet
    PROVE  /\ UserRules(network, direction, rules) \in Chain
           /\ HitAny(UserRules(network, direction, rules), packet)
              <=> At(packet, direction) = network.tap /\ PermitsAny(rules, packet)
<1> DEFINE chain == UserRules(network, direction, rules)
<1>1. /\ Len(rules) \in Nat /\ DOMAIN rules = 1 .. Len(rules)
      /\ \A i \in DOMAIN rules : rules[i] \in Rule
  OBVIOUS
<1>2. /\ DOMAIN chain = DOMAIN rules
      /\ \A i \in DOMAIN rules : chain[i] = RuleLines(network, direction, rules[i])
      /\ chain = [i \in DOMAIN rules |-> chain[i]]
  BY DEF UserRules
<1>3. \A i \in DOMAIN rules : chain[i] \in SUBSET AcceptLine
  BY <1>1, <1>2, RuleLinesType
<1>4. \A i \in DOMAIN rules :
          Hit(chain[i], packet) <=> At(packet, direction) = network.tap /\ Permits(rules[i], packet)
  BY <1>1, <1>2, RuleMeaning
<1> HIDE DEF chain
<1>5. chain \in Chain
  BY <1>1, <1>2, <1>3 DEF Chain
<1>6. HitAny(chain, packet) <=> At(packet, direction) = network.tap /\ PermitsAny(rules, packet)
  BY <1>2, <1>4 DEF HitAny, PermitsAny
<1> QED
  BY <1>5, <1>6 DEF chain

LEMMA DnsRulesMeaning ==
    ASSUME NEW network \in Network, NEW packet \in Packet
    PROVE  /\ DnsRules(network) \in Chain
           /\ HitAny(DnsRules(network), packet)
              <=> packet.iif = network.tap /\ DnsQuery(network, packet)
<1> DEFINE chain == DnsRules(network)
           servers == network.nameservers
           line(address) == Accept(network, "iif", Address, {address}, {"udp"}, {53})
<1>1. servers \in Seq(Address \cup {Blank}) /\ network.tap \in Interface
  BY DEF Network
<1>2. packet.source \in Address
  BY DEF Packet
<1>3. /\ DOMAIN chain = DOMAIN servers
      /\ \A i \in DOMAIN servers :
            chain[i] = IF servers[i] = Blank THEN {} ELSE {line(servers[i])}
      /\ chain = [i \in DOMAIN servers |-> chain[i]]
  BY DEF DnsRules
<1>4. ASSUME NEW address \in Address
      PROVE  line(address) \in AcceptLine
  <2>1. {53} \in SUBSET Port /\ {"udp"} \in SUBSET Protocol
    BY PortBounds DEF Protocol
  <2> QED
    BY <1>1, <2>1 DEF Accept, AcceptLine
<1>5. \A address : Matches(line(address), packet)
          <=> /\ packet.iif = network.tap /\ packet.destination = address
              /\ packet.protocol = "udp" /\ packet.port = 53
  BY <1>2, LineMeaning DEF At
<1> HIDE DEF chain, servers, line
<1>6. /\ Len(servers) \in Nat /\ DOMAIN servers = 1 .. Len(servers)
      /\ \A i \in DOMAIN servers : servers[i] \in Address \cup {Blank}
  BY <1>1
<1>7. \A i \in DOMAIN servers : chain[i] \in SUBSET AcceptLine
  BY <1>3, <1>4, <1>6
<1>8. chain \in Chain
  BY <1>3, <1>6, <1>7 DEF Chain
<1>9. \A i \in DOMAIN servers : Hit(chain[i], packet)
          <=> /\ servers[i] # Blank /\ packet.destination = servers[i]
              /\ packet.iif = network.tap /\ packet.protocol = "udp" /\ packet.port = 53
  BY <1>3, <1>5 DEF Hit
<1>10. HitAny(chain, packet) <=> packet.iif = network.tap /\ DnsQuery(network, packet)
  BY <1>3, <1>9 DEF HitAny, DnsQuery, servers
<1> QED
  BY <1>8, <1>10 DEF chain

\* The fw chain of a VM lets exactly the packets of its policy through: what its
\* guest sends by an egress rule or to a nameserver, and what an ingress rule
\* lets it receive (fwRules, dnsRules, ruleLines).
THEOREM FirewallIsPolicy ==
    ASSUME NEW network \in Network, NEW packet \in Packet
    PROVE  Accepts(FwRules(network), packet)
           <=> \/ packet.iif = network.tap /\ MaySend(network, packet)
               \/ packet.oif = network.tap /\ MayReceive(network, packet)
<1> DEFINE dns == DnsRules(network)
           in  == UserRules(network, "oif", network.ingress)
           out == UserRules(network, "iif", network.egress)
<1>1. network.ingress \in Seq(Rule) /\ network.egress \in Seq(Rule)
  BY DEF Network
<1>2. /\ dns \in Chain
      /\ HitAny(dns, packet) <=> packet.iif = network.tap /\ DnsQuery(network, packet)
  BY DnsRulesMeaning
<1>3. /\ in \in Chain
      /\ HitAny(in, packet)
         <=> packet.oif = network.tap /\ PermitsAny(network.ingress, packet)
  BY <1>1, UserRulesMeaning DEF At
<1>4. /\ out \in Chain
      /\ HitAny(out, packet)
         <=> packet.iif = network.tap /\ PermitsAny(network.egress, packet)
  BY <1>1, UserRulesMeaning DEF At
<1> HIDE DEF dns, in, out
<1>5. /\ in \o out \in Chain
      /\ HitAny(in \o out, packet) <=> HitAny(in, packet) \/ HitAny(out, packet)
  BY <1>3, <1>4, Concatenation
<1>6. /\ dns \o (in \o out) \in Chain
      /\ HitAny(dns \o (in \o out), packet)
         <=> HitAny(dns, packet) \/ HitAny(in \o out, packet)
  BY <1>2, <1>5, Concatenation
<1>7. FwRules(network) = (dns \o (in \o out)) \o <<{Drop}>>
  BY DEF FwRules, AcceptRules, dns, in, out
<1>8. Accepts(FwRules(network), packet) <=> HitAny(dns \o (in \o out), packet)
  BY <1>6, <1>7, FinalDrop
<1> QED
  BY <1>2, <1>3, <1>4, <1>5, <1>6, <1>8 DEF MaySend, MayReceive

\* With no rules configured a VM receives nothing and asks nobody but its
\* nameservers (the drop that fwRules ends with, the rules of dnsRules).
THEOREM DenyByDefault ==
    ASSUME NEW network \in Network, NEW packet \in Packet,
           network.ingress = <<>>, network.egress = <<>>
    PROVE  Accepts(FwRules(network), packet)
           <=> packet.iif = network.tap /\ DnsQuery(network, packet)
BY FirewallIsPolicy DEF MaySend, MayReceive, PermitsAny

\* In a namespace with several VMs, each with a drop of its own, what reaches
\* the uplink from a TAP is decided by the sender alone: the drops of the
\* other VMs do not take it (the jumps of setupNftables).
THEOREM SenderDecides ==
    ASSUME NEW networks \in SUBSET Network, NEW sender \in networks, NEW packet \in Packet,
           \A first, second \in networks : first.tap = second.tap => first = second,
           ~packet.established, packet.iif = sender.tap,
           \A network \in networks : packet.oif # network.tap
    PROVE  Passes(networks, packet) <=> MaySend(sender, packet)
<1>1. Forward(sender, packet) <=> MaySend(sender, packet)
  BY FirewallIsPolicy DEF Forward
<1>2. \A network \in networks \ {sender} : Forward(network, packet)
  BY DEF Forward
<1> QED
  BY <1>1, <1>2 DEF Passes

\* Between two VMs of one VPC both have a say: an accept in the table of the
\* sender does not skip the table of the receiver (docs/network.md, the two
\* forward chains at one hook).
THEOREM BothVmsDecide ==
    ASSUME NEW networks \in SUBSET Network, NEW sender \in networks,
           NEW receiver \in networks, NEW packet \in Packet,
           \A first, second \in networks : first.tap = second.tap => first = second,
           sender # receiver, ~packet.established,
           packet.iif = sender.tap, packet.oif = receiver.tap
    PROVE  Passes(networks, packet) <=> MaySend(sender, packet) /\ MayReceive(receiver, packet)
<1>1. sender.tap # receiver.tap
  OBVIOUS
<1>2. Forward(sender, packet) <=> MaySend(sender, packet)
  BY <1>1, FirewallIsPolicy DEF Forward
<1>3. Forward(receiver, packet) <=> MayReceive(receiver, packet)
  BY <1>1, FirewallIsPolicy DEF Forward
<1>4. \A network \in networks \ {sender, receiver} : Forward(network, packet)
  <2> SUFFICES ASSUME NEW other \in networks, other # sender, other # receiver
               PROVE  Forward(other, packet)
    OBVIOUS
  <2>1. other.tap # sender.tap /\ other.tap # receiver.tap
    OBVIOUS
  <2> QED
    BY <2>1 DEF Forward
<1> QED
  BY <1>2, <1>3, <1>4 DEF Passes
=============================================================================
