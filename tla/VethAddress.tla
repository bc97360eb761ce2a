---------------------------- MODULE VethAddress ----------------------------
(***************************************************************************)
(* The addresses of the veth pair that links the namespace of a VPC to     *)
(* root (vpcVethAddress4 and vpcVethAddress6 of vpc.go). Root has one      *)
(* routing table for all the VPCs of a node, so no two of them may share   *)
(* an address.                                                             *)
(*                                                                         *)
(* An IPv4 address of 169.254.0.0/16 and an IPv6 address of fd01::/112 are *)
(* given by their last 16 bits, a bit mask by the remainder it computes.   *)
(***************************************************************************)
EXTENDS Integers, TLAPS

\* The ids that Config.Validate accepts.
VpcId == 1..16384

\* 0x8000 | ((2 * id) & 0x7FFE): the mask drops bit 15, which the or sets.
Base4(id) == 32768 + ((2 * id) % 32768)

\* (2 * id) & 0xFFFE.
Base6(id) == (2 * id) % 65536

\* The root end and the namespace end of the pair: two numbers of a /31.
Root4(id)      == Base4(id)
Namespace4(id) == Base4(id) + 1
Root6(id)      == Base6(id)
Namespace6(id) == Base6(id) + 1

Pair4(id) == {Root4(id), Namespace4(id)}
Pair6(id) == {Root6(id), Namespace6(id)}

\* A /31 holds the two numbers that differ in their last bit.
SameSlash31(a, b) == a \div 2 = b \div 2

\* 169.254.1.1, the host side of every TAP.
TapHost4 == 257

-----------------------------------------------------------------------------

LEMMA IdRange ==
    ASSUME NEW id \in VpcId
    PROVE  id \in Int /\ 1 <= id /\ id <= 16384
BY DEF VpcId

LEMMA SmallRemainder ==
    ASSUME NEW a \in Int, 0 <= a
    PROVE  /\ a < 32768 => a % 32768 = a
           /\ a < 65536 => a % 65536 = a
OBVIOUS

\* The even numbers of the two ranges: what the masks keep of 2 * id.
LEMMA Bases ==
    ASSUME NEW id \in VpcId
    PROVE  /\ Base4(id) = IF id = 16384 THEN 32768 ELSE 32768 + 2 * id
           /\ Base6(id) = 2 * id
<1>1. CASE id = 16384
  BY <1>1 DEF Base4, Base6, VpcId
<1>2. CASE id # 16384
  <2>1. 2 * id \in Int /\ 0 <= 2 * id /\ 2 * id < 32768
    BY <1>2 DEF VpcId
  <2>2. (2 * id) % 32768 = 2 * id /\ (2 * id) % 65536 = 2 * id
    BY <2>1, SmallRemainder
  <2> QED
    BY <1>2, <2>2 DEF Base4, Base6
<1> QED
  BY <1>1, <1>2

\* Two VPCs never share an IPv4 address in root or in their namespaces, for
\* every id that the configuration accepts: the mask wraps the last id to the
\* free number 0 and not onto another VPC.
THEOREM Addresses4Distinct ==
    \A v, w \in VpcId : v # w => Pair4(v) \cap Pair4(w) = {}
<1> SUFFICES ASSUME NEW v \in VpcId, NEW w \in VpcId, v # w
             PROVE  Pair4(v) \cap Pair4(w) = {}
  OBVIOUS
<1>0. v \in Int /\ w \in Int /\ 1 <= v /\ v <= 16384 /\ 1 <= w /\ w <= 16384
  BY IdRange
<1>1. Base4(v) = (IF v = 16384 THEN 32768 ELSE 32768 + 2 * v)
  BY Bases
<1>2. Base4(w) = (IF w = 16384 THEN 32768 ELSE 32768 + 2 * w)
  BY Bases
<1>3. Base4(v) # Base4(w) /\ Base4(v) # Base4(w) + 1 /\ Base4(w) # Base4(v) + 1
  BY <1>0, <1>1, <1>2
<1>4. Base4(v) \in Int /\ Base4(w) \in Int
  BY <1>0, <1>1, <1>2
<1> QED
  BY <1>3, <1>4 DEF Pair4, Root4, Namespace4

\* The same holds of the IPv6 addresses.
THEOREM Addresses6Distinct ==
    \A v, w \in VpcId : v # w => Pair6(v) \cap Pair6(w) = {}
<1> SUFFICES ASSUME NEW v \in VpcId, NEW w \in VpcId, v # w
             PROVE  Pair6(v) \cap Pair6(w) = {}
  OBVIOUS
<1>0. v \in Int /\ w \in Int /\ 1 <= v /\ v <= 16384 /\ 1 <= w /\ w <= 16384
  BY IdRange
<1>1. Base6(v) = 2 * v
  BY Bases
<1>2. Base6(w) = 2 * w
  BY Bases
<1>3. Base6(v) # Base6(w) /\ Base6(v) # Base6(w) + 1 /\ Base6(w) # Base6(v) + 1
  BY <1>0, <1>1, <1>2
<1>4. Base6(v) \in Int /\ Base6(w) \in Int
  BY <1>0, <1>1, <1>2
<1> QED
  BY <1>3, <1>4 DEF Pair6, Root6, Namespace6

\* Both ends lie in the masqueraded ranges (vethRange4 169.254.128.0/17 and
\* vethRange6 fd01::/112), in one /31 or /127, and away from the address of the
\* TAPs, which every namespace has.
THEOREM AddressesInRange ==
    ASSUME NEW id \in VpcId
    PROVE  /\ 32768 <= Root4(id) /\ Namespace4(id) <= 65535
           /\ 0 <= Root6(id) /\ Namespace6(id) <= 65535
           /\ SameSlash31(Root4(id), Namespace4(id))
           /\ SameSlash31(Root6(id), Namespace6(id))
           /\ TapHost4 < Root4(id)
<1>1. id \in Int /\ 1 <= id /\ id <= 16384
  BY IdRange
<1>2. Base4(id) = IF id = 16384 THEN 32768 ELSE 32768 + 2 * id
  BY Bases
<1>3. Base6(id) = 2 * id
  BY Bases
<1>4. 32768 <= Root4(id) /\ Namespace4(id) <= 65535 /\ TapHost4 < Root4(id)
  BY <1>1, <1>2 DEF Root4, Namespace4, TapHost4
<1>5. 0 <= Root6(id) /\ Namespace6(id) <= 65535
  BY <1>1, <1>3 DEF Root6, Namespace6
<1>6. SameSlash31(Root4(id), Namespace4(id))
  BY <1>1, <1>2 DEF SameSlash31, Root4, Namespace4
<1>7. SameSlash31(Root6(id), Namespace6(id))
  BY <1>1, <1>3 DEF SameSlash31, Root6, Namespace6
<1> QED
  BY <1>4, <1>5, <1>6, <1>7
=============================================================================
