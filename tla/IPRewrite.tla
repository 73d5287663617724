----------------------------- MODULE IPRewrite -----------------------------
(***************************************************************************)
(* The rules that rewrite node addresses for a load balancer               *)
(* (ApplyIPReplacement, internal/util/ip_replacement.go) and the validator *)
(* that refuses ambiguous ones (internal/util/validation.go,               *)
(* internal/adapters/validator).                                           *)
(*                                                                         *)
(* An address has Width bits, the first of them the most significant.  A   *)
(* load balancer has four lists of rules: its own for single addresses     *)
(* (ips) and networks (nets), and those of the global groups it refers to  *)
(* (gips, gnets), one rule to a group.                                     *)
(***************************************************************************)
EXTENDS Naturals, SequencesExt

CONSTANTS
    Width,          \* bits of an address: 32 or 128
    TargetIPs       \* addresses that rules rewrite to

ASSUME WidthAssumption == Width \in Nat \ {0}

Bits == 1..Width
Addresses == [Bits -> {0, 1}]

ASSUME TargetsAssumption == TargetIPs \subseteq Addresses

IPRules == [src : Addresses, dst : TargetIPs]
\* A mask may be too long: that is for the validator to find.
NetRules == [src : Addresses, dst : TargetIPs, mask : 0..(Width + 1)]

-----------------------------------------------------------------------------
\* Two addresses have the same network part, or the same host part.
SameNet(a, b, mask) == \A i \in Bits : i <= mask => a[i] = b[i]
SameHost(a, b, mask) == \A i \in Bits : i > mask => a[i] = b[i]

\* ParseCIDR accepts the network.
Parses(n) == n.mask <= Width

isIPInNet(a, n) == Parses(n) /\ SameNet(a, n.src, n.mask)

\* The network of the target with the host bits of the address.
replaceInNet(a, n) == IF ~Parses(n) THEN a
                      ELSE [i \in Bits |-> IF i <= n.mask THEN n.dst[i] ELSE a[i]]

\* Single addresses first, then networks; in both, own rules before global ones.
ApplyIPReplacement(a, c) ==
    LET ips == c.ips \o c.gips
        nets == c.nets \o c.gnets
        i == SelectInSeq(ips, LAMBDA r : r.src = a)
        n == SelectInSeq(nets, LAMBDA r : isIPInNet(a, r))
    IN  IF i # 0 THEN ips[i].dst
        ELSE IF n # 0 THEN replaceInNet(a, nets[n])
        ELSE a

-----------------------------------------------------------------------------
(* The validator.                                                          *)

\* The first address of a network.
Base(n) == [i \in Bits |-> IF i <= n.mask THEN n.src[i] ELSE 0]

\* Mutant of IsNetworkOverlap: only one of the two directions is tested.
OverlapOneWay(n1, n2) == Parses(n1) /\ Parses(n2) /\ isIPInNet(Base(n2), n1)

IsNetworkOverlap(n1, n2) == /\ Parses(n1) /\ Parses(n2)
                            /\ isIPInNet(Base(n2), n1) \/ isIPInNet(Base(n1), n2)

\* Own rules: masks in range, no two networks that overlap, no source twice.
ValidateIPReplacementList(c) ==
    /\ \A i \in DOMAIN c.nets :
         /\ Parses(c.nets[i])
         /\ \A j \in DOMAIN c.nets \ {i} : ~IsNetworkOverlap(c.nets[i], c.nets[j])
    /\ \A i, j \in DOMAIN c.ips : c.ips[i].src = c.ips[j].src => i = j

\* Each global group by itself: with one rule to a group only the masks count.
ValidateGlobal(c) == \A i \in DOMAIN c.gnets : Parses(c.gnets[i])

\* The rules of the groups against each other and against the own ones.
ValidateReferenced(c) ==
    /\ \A i \in DOMAIN c.gnets :
         /\ \A j \in i + 1..Len(c.gnets) : ~IsNetworkOverlap(c.gnets[i], c.gnets[j])
         /\ \A j \in DOMAIN c.nets : ~IsNetworkOverlap(c.gnets[i], c.nets[j])
    /\ \A i, j \in DOMAIN c.gips : c.gips[i].src = c.gips[j].src => i = j
    /\ \A i \in DOMAIN c.gips, j \in DOMAIN c.ips : c.gips[i].src # c.ips[j].src

Rules(c) == Len(c.ips) + Len(c.gips) + Len(c.nets) + Len(c.gnets)
RuleLists == [ips : Seq(IPRules), gips : Seq(IPRules), nets : Seq(NetRules), gnets : Seq(NetRules)]
NoRules == [ips |-> << >>, gips |-> << >>, nets |-> << >>, gnets |-> << >>]
=============================================================================
