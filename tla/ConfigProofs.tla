--------------------------- MODULE ConfigProofs ---------------------------
(* Safety of Config for any files, edits and certificates, and addresses   *)
(* of any width.                                                           *)
EXTENDS Config, WellFoundedInduction, NaturalsInduction, TLAPS

-----------------------------------------------------------------------------
(* The rules of a load balancer.                                           *)

\* The first index that SelectInSeq looks for is one of those it looks among.
LEMMA MinIsElement ==
    ASSUME NEW S \in SUBSET Nat, S # {}
    PROVE  Min(S) \in S
<1> DEFINE R == {p \in Nat \X Nat : p[1] < p[2]}
<1>1. IsWellFoundedOn(R, Nat)
  BY NatLessThanWellFounded DEF OpToRel
<1>2. PICK x \in S : \A y \in S : ~(<<y, x>> \in R)
  <2> HIDE DEF R
  <2> QED BY <1>1, WFMin
<1>3. ASSUME NEW y \in S PROVE x <= y
  <2>1. x \in Nat /\ y \in Nat /\ <<y, x>> \in Nat \X Nat
    OBVIOUS
  <2>2. ~(<<y, x>>[1] < <<y, x>>[2])
    BY <1>2, <2>1, Zenon
  <2> QED BY <2>1, <2>2
<1> QED BY <1>3 DEF Min

\* Two networks that hold the same address overlap: the test for the base
\* address of each in the other misses no pair.
LEMMA OverlapComplete ==
    ASSUME NEW n1 \in NetRules, NEW n2 \in NetRules, NEW a \in Addresses,
           isIPInNet(a, n1), isIPInNet(a, n2)
    PROVE  IsNetworkOverlap(n1, n2) /\ IsNetworkOverlap(n2, n1)
<1>1. n1.mask \in Nat /\ n2.mask \in Nat
  BY DEF NetRules
<1>2. n1.mask <= n2.mask => isIPInNet(Base(n2), n1)
  BY <1>1 DEF isIPInNet, SameNet, Base, Bits
<1>3. n2.mask <= n1.mask => isIPInNet(Base(n1), n2)
  BY <1>1 DEF isIPInNet, SameNet, Base, Bits
<1> QED BY <1>1, <1>2, <1>3 DEF IsNetworkOverlap, isIPInNet

\* The rules of a load balancer that the validators let through.
Validated(c) == ValidateIPReplacementList(c) /\ ValidateGlobal(c) /\ ValidateReferenced(c)

\* No address is in two networks of a validated configuration, whichever of
\* the two lists they are from.
LEMMA OneNetwork ==
    ASSUME NEW c \in RuleLists, Validated(c), NEW a \in Addresses,
           NEW i \in DOMAIN (c.nets \o c.gnets), NEW j \in DOMAIN (c.nets \o c.gnets),
           isIPInNet(a, (c.nets \o c.gnets)[i]), isIPInNet(a, (c.nets \o c.gnets)[j])
    PROVE  i = j
<1> DEFINE own == c.nets  global == c.gnets
<1>1. own \in Seq(NetRules) /\ global \in Seq(NetRules)
  BY DEF RuleLists
<1>2. /\ \A p, q \in DOMAIN own : isIPInNet(a, own[p]) /\ isIPInNet(a, own[q]) => p = q
  BY <1>1, OverlapComplete DEF Validated, ValidateIPReplacementList
<1>3. \A p, q \in DOMAIN global : isIPInNet(a, global[p]) /\ isIPInNet(a, global[q]) => p = q
  <2> SUFFICES ASSUME NEW p \in DOMAIN global, NEW q \in DOMAIN global, p < q,
                      isIPInNet(a, global[p]), isIPInNet(a, global[q])
               PROVE  FALSE
    BY <1>1
  <2>1. q \in p + 1..Len(global)
    BY <1>1
  <2>2. ~IsNetworkOverlap(global[p], global[q])
    BY <2>1 DEF Validated, ValidateReferenced
  <2> QED BY <1>1, <2>2, OverlapComplete
<1>4. \A p \in DOMAIN global, q \in DOMAIN own : ~(isIPInNet(a, global[p]) /\ isIPInNet(a, own[q]))
  BY <1>1, OverlapComplete DEF Validated, ValidateReferenced
<1> HIDE DEF own, global
<1>5. \A k \in DOMAIN (own \o global) :
        \/ k \in DOMAIN own /\ (own \o global)[k] = own[k]
        \/ k - Len(own) \in DOMAIN global /\ (own \o global)[k] = global[k - Len(own)]
  BY <1>1
<1>6. i \in DOMAIN (own \o global) /\ j \in DOMAIN (own \o global)
      /\ isIPInNet(a, (own \o global)[i]) /\ isIPInNet(a, (own \o global)[j])
  BY DEF own, global
<1>7. i \in Int /\ j \in Int /\ Len(own) \in Int
  BY <1>1, <1>6
<1> QED BY <1>2, <1>3, <1>4, <1>5, <1>6, <1>7

\* No two rules for single addresses have the same source.
LEMMA OneAddress ==
    ASSUME NEW c \in RuleLists, Validated(c),
           NEW i \in DOMAIN (c.ips \o c.gips), NEW j \in DOMAIN (c.ips \o c.gips),
           (c.ips \o c.gips)[i].src = (c.ips \o c.gips)[j].src
    PROVE  i = j
<1> DEFINE own == c.ips  global == c.gips
<1>1. own \in Seq(IPRules) /\ global \in Seq(IPRules)
  BY DEF RuleLists
<1>2. \A p, q \in DOMAIN own : own[p].src = own[q].src => p = q
  BY DEF Validated, ValidateIPReplacementList
<1>3. \A p, q \in DOMAIN global : global[p].src = global[q].src => p = q
  BY DEF Validated, ValidateReferenced
<1>4. \A p \in DOMAIN global, q \in DOMAIN own : global[p].src # own[q].src
  BY DEF Validated, ValidateReferenced
<1> HIDE DEF own, global
<1>5. \A k \in DOMAIN (own \o global) :
        \/ k \in DOMAIN own /\ (own \o global)[k] = own[k]
        \/ k - Len(own) \in DOMAIN global /\ (own \o global)[k] = global[k - Len(own)]
  BY <1>1
<1>6. i \in DOMAIN (own \o global) /\ j \in DOMAIN (own \o global)
      /\ (own \o global)[i].src = (own \o global)[j].src
  BY DEF own, global
<1>7. i \in Int /\ j \in Int /\ Len(own) \in Int
  BY <1>1, <1>6
<1> QED BY <1>2, <1>3, <1>4, <1>5, <1>6, <1>7

\* How RulesUnambiguous reads for the rules c and the address a.
Unambiguous(c, a) ==
    LET b == ApplyIPReplacement(a, c)
        ips == ToSet(c.ips \o c.gips)
        nets == ToSet(c.nets \o c.gnets)
    IN  /\ \A r \in ips : r.src = a => b = r.dst
        /\ (\A r \in ips : r.src # a) =>
             \A n \in nets : isIPInNet(a, n) =>
                /\ isIPInNet(b, [n EXCEPT !.src = n.dst])
                /\ SameHost(a, b, n.mask)

\* Validated rules rewrite an address in one way, whatever their order.
LEMMA ValidatedUnambiguous ==
    ASSUME NEW c \in RuleLists, Validated(c), NEW a \in Addresses
    PROVE  Unambiguous(c, a)
<1> DEFINE ips == c.ips \o c.gips
           nets == c.nets \o c.gnets
           I == {k \in 1..Len(ips) : ips[k].src = a}
           N == {k \in 1..Len(nets) : isIPInNet(a, nets[k])}
           b == ApplyIPReplacement(a, c)
<1>1. ips \in Seq(IPRules) /\ nets \in Seq(NetRules)
  BY DEF RuleLists
<1>i. /\ \A i, j \in DOMAIN ips : ips[i].src = ips[j].src => i = j
      /\ \A i, j \in DOMAIN nets : isIPInNet(a, nets[i]) /\ isIPInNet(a, nets[j]) => i = j
  BY OneAddress, OneNetwork
<1>f. SelectInSeq(ips, LAMBDA r : r.src = a) = IF I # {} THEN Min(I) ELSE 0
  BY DEF SelectInSeq
<1>g. SelectInSeq(nets, LAMBDA r : isIPInNet(a, r)) = IF N # {} THEN Min(N) ELSE 0
  BY DEF SelectInSeq
<1>b. b = LET i == IF I # {} THEN Min(I) ELSE 0
              n == IF N # {} THEN Min(N) ELSE 0
          IN  IF i # 0 THEN ips[i].dst ELSE IF n # 0 THEN replaceInNet(a, nets[n]) ELSE a
  BY <1>f, <1>g DEF ApplyIPReplacement
<1>u. Unambiguous(c, a) <=>
        /\ \A r \in ToSet(ips) : r.src = a => b = r.dst
        /\ (\A r \in ToSet(ips) : r.src # a) =>
             \A n \in ToSet(nets) : isIPInNet(a, n) =>
                isIPInNet(b, [n EXCEPT !.src = n.dst]) /\ SameHost(a, b, n.mask)
  BY DEF Unambiguous
<1> HIDE DEF ips, nets, b
<1>3. ToSet(ips) = {ips[k] : k \in 1..Len(ips)} /\ ToSet(nets) = {nets[k] : k \in 1..Len(nets)}
  BY <1>1 DEF ToSet
<1>s. I \in SUBSET Nat /\ N \in SUBSET Nat /\ 0 \notin I /\ 0 \notin N
  BY <1>1
<1>m. (I # {} => Min(I) \in I) /\ (N # {} => Min(N) \in N)
  <2> HIDE DEF I, N
  <2> QED BY <1>s, MinIsElement
<1>2. b = IF I # {} THEN ips[Min(I)].dst
          ELSE IF N # {} THEN replaceInNet(a, nets[Min(N)])
          ELSE a
  <2> HIDE DEF I, N
  <2> QED BY <1>b, <1>s, <1>m
<1>4. ASSUME NEW r \in ToSet(ips), r.src = a PROVE b = r.dst
  <2>1. PICK k \in 1..Len(ips) : r = ips[k]
    BY <1>3
  <2>2. k \in I
    BY <1>4, <2>1
  <2>3. Min(I) \in 1..Len(ips) /\ ips[Min(I)].src = a
    BY <1>m, <2>2
  <2>4. Min(I) = k
    BY <1>1, <1>i, <1>4, <2>1, <2>3
  <2> QED BY <1>2, <2>1, <2>2, <2>4
<1>5. ASSUME \A r \in ToSet(ips) : r.src # a, NEW n \in ToSet(nets), isIPInNet(a, n)
      PROVE  isIPInNet(b, [n EXCEPT !.src = n.dst]) /\ SameHost(a, b, n.mask)
  <2>1. PICK k \in 1..Len(nets) : n = nets[k]
    BY <1>3
  <2>2. I = {}
    BY <1>3, <1>5
  <2>3. k \in N
    BY <1>5, <2>1
  <2>4. Min(N) \in 1..Len(nets) /\ isIPInNet(a, nets[Min(N)])
    BY <1>m, <2>3
  <2>5. Min(N) = k
    BY <1>1, <1>i, <1>5, <2>1, <2>4
  <2>6. b = replaceInNet(a, n)
    <3> HIDE DEF I, N
    <3> QED BY <1>2, <2>1, <2>2, <2>3, <2>5
  <2>7. n \in NetRules
    BY <1>1, <2>1
  <2>8. b = [i \in Bits |-> IF i <= n.mask THEN n.dst[i] ELSE a[i]]
    BY <1>5, <2>6 DEF isIPInNet, replaceInNet
  <2>9. SameHost(a, b, n.mask)
    BY <2>7, <2>8 DEF SameHost, Bits, NetRules
  <2>10. isIPInNet(b, [n EXCEPT !.src = n.dst])
    BY <1>5, <2>7, <2>8 DEF isIPInNet, Parses, SameNet, NetRules
  <2> QED BY <2>9, <2>10
<1> QED BY <1>4, <1>5, <1>u

-----------------------------------------------------------------------------
(* How the process comes up.                                               *)

\* What a read of a certificate file may give.
Content == {c \in [state : CertStates \cup {"none"}, pair : Nat] : Empty(c) => c.pair = 0}
Pems == [cert : Content, key : Content, ca : Content]

\* What NewContainer has in hand: the file as it is until Validate, and from
\* then on the file with its defaults, which the validators let through, and
\* what was read for each of its load balancers.
BootOK(p, f) ==
    /\ DOMAIN p = {"at", "conf", "pem", "cert", "adapters"}
    /\ p.pem \in Seq(Pems) /\ p.cert \in Content
    /\ p.at \in {"load", "validate", "cert", "key"} => p.conf = f
    /\ p.at \in {"wire", "running"} =>
         /\ p.conf = ApplyDefaultValues(f) /\ CompositeValidator(p.conf)
         /\ Len(f.lbs) <= Len(p.pem)
    /\ p.at = "running" =>
         /\ \A i \in DOMAIN p.conf.lbs : CreateLoadBalancerAdapter(p.conf.lbs[i], p.pem[i])
         /\ p.adapters = Adapters(p.conf.lbs)
    /\ p.at \in {"down", "load", "validate", "cert", "key", "wire", "running"}

BootInv == /\ IsFile(file)
           /\ disk \in [CertFiles -> Content]
           /\ BootOK(proc, file)

\* The placeholders for a file never read are of the right kind.
LEMMA NoContentType == NoContent \in Content /\ NoPem \in Pems
BY DEF NoContent, NoPem, Content, Pems, Empty, CertStates

\* A process that is not running satisfies everything that is said of one that is.
LEMMA DownOK == ASSUME NEW f PROVE BootOK(Down, f)
<1>1. << >> \in Seq(Pems) /\ NoContent \in Content
  BY NoContentType
<1> QED BY <1>1 DEF Down, BootOK

\* The inductive invariant holds before anything was booted.
LEMMA InitBoot == Init => BootInv
<1> SUFFICES ASSUME Init PROVE BootInv
  OBVIOUS
<1>1. IsFile(file)
  BY FilesAssumption DEF Init
<1>2. disk \in [CertFiles -> Content]
  <2>1. [state |-> "good", pair |-> 1] \in Content
    BY DEF Content, Empty, CertStates
  <2> QED BY <2>1 DEF Init
<1>3. BootOK(proc, file)
  BY DownOK DEF Init
<1> QED BY <1>1, <1>2, <1>3 DEF BootInv

\* An edit of one field leaves a file a file.
LEMMA FieldEdit ==
    ASSUME NEW r, NEW fields, Conforms(r, fields), NEW f \in DOMAIN fields, NEW v \in fields[f]
    PROVE  Conforms([r EXCEPT ![f] = v], fields)
BY DEF Conforms

\* A load balancer entry replaced by one of the right shape leaves a file of the right
\* shape.
LEMMA LBEdit ==
    ASSUME NEW c, IsFile(c), NEW i \in DOMAIN c.lbs, NEW lb, Conforms(lb, LBFields)
    PROVE  IsFile([c EXCEPT !.lbs[i] = lb])
<1> DEFINE d == [c EXCEPT !.lbs[i] = lb]
<1>1. DOMAIN d = {"g", "lbs"} /\ d.g = c.g /\ d.lbs = [c.lbs EXCEPT ![i] = lb]
  BY DEF IsFile
<1> HIDE DEF d
<1>2. Len(d.lbs) \in Nat /\ DOMAIN d.lbs = 1..Len(d.lbs)
  BY <1>1 DEF IsFile
<1>3. \A j \in DOMAIN d.lbs : Conforms(d.lbs[j], LBFields)
  <2>1. \A j \in DOMAIN d.lbs : j \in DOMAIN c.lbs /\ d.lbs[j] = IF j = i THEN lb ELSE c.lbs[j]
    BY <1>1
  <2>2. \A j \in DOMAIN c.lbs : Conforms(c.lbs[j], LBFields)
    BY DEF IsFile
  <2> QED BY <2>1, <2>2
<1>4. IsFile(d)
  BY <1>1, <1>2, <1>3 DEF IsFile
<1> QED BY <1>4 DEF d

\* A step of NewContainer changes proc alone.
LEMMA BootStepKeeps ==
    ASSUME BootInv, NEW p, Boot(p), BootOK(p, file)
    PROVE  BootInv'
BY DEF BootInv, Boot

\* What is read of a certificate file, in any state of the process.
LEMMA ReadType ==
    ASSUME BootInv, NEW f \in CertFiles
    PROVE  Read(f) \in Content
BY NoContentType DEF BootInv, Read

\* The steps of Load and of the certificate loader, up to validation, keep the
\* invariant.
LEMMA LoadSteps ==
    ASSUME BootInv, ReadInConfig \/ NoCertificates \/ UnsupportedType \/ ValidateCert
                    \/ ValidateCertKey \/ LoadCert \/ LoadKey
    PROVE  BootInv'
<1>r. Read("cert") \in Content /\ Read("key") \in Content /\ Read("ca") \in Content
  BY ReadType DEF CertFiles
<1>p. BootOK(proc, file)
  BY DEF BootInv
<1>d. BootOK(Down, file)
  BY DownOK
<1>1. CASE ReadInConfig
  <2> DEFINE p == [Down EXCEPT !.at = "load", !.conf = file]
  <2>1. BootOK(p, file)
    BY <1>d DEF BootOK, Down
  <2> QED BY <1>1, <2>1, BootStepKeeps DEF ReadInConfig
<1>2. CASE NoCertificates
  <2> DEFINE p == [proc EXCEPT !.pem = Append(@, NoPem)]
  <2>1. p.pem \in Seq(Pems)
    BY <1>p, NoContentType DEF BootOK
  <2>2. BootOK(p, file)
    BY <1>2, <1>p, <2>1 DEF BootOK, NoCertificates
  <2> QED BY <1>2, <2>2, BootStepKeeps DEF NoCertificates
<1>3. CASE UnsupportedType
  BY <1>3, <1>d, BootStepKeeps DEF UnsupportedType
<1>4. CASE ValidateCert
  <2> DEFINE p == [proc EXCEPT !.at = "validate", !.cert = Read("cert")]
  <2>1. BootOK(p, file)
    BY <1>4, <1>p, <1>r DEF BootOK, ValidateCert
  <2>2. Boot(p) \/ Boot(Down)
    BY <1>4 DEF ValidateCert
  <2> HIDE DEF p
  <2> QED BY <1>d, <2>1, <2>2, BootStepKeeps
<1>5. CASE ValidateCertKey
  <2> DEFINE p == [proc EXCEPT !.at = "cert", !.cert = NoContent]
  <2>1. BootOK(p, file)
    BY <1>5, <1>p, NoContentType DEF BootOK, ValidateCertKey
  <2>2. Boot(p) \/ Boot(Down)
    BY <1>5 DEF ValidateCertKey
  <2> HIDE DEF p
  <2> QED BY <1>d, <2>1, <2>2, BootStepKeeps
<1>6. CASE LoadCert
  <2> DEFINE p == [proc EXCEPT !.at = "key", !.cert = Read("cert")]
  <2>1. BootOK(p, file)
    BY <1>6, <1>p, <1>r DEF BootOK, LoadCert
  <2>2. Boot(p) \/ Boot(Down)
    BY <1>6 DEF LoadCert
  <2> HIDE DEF p
  <2> QED BY <1>d, <2>1, <2>2, BootStepKeeps
<1>7. CASE LoadKey
  <2> DEFINE pem == [cert |-> proc.cert, key |-> Read("key"), ca |-> Read("ca")]
             p == [proc EXCEPT !.at = "load", !.cert = NoContent, !.pem = Append(@, pem)]
  <2>1. pem \in Pems
    BY <1>p, <1>r DEF BootOK, Pems
  <2>2. p.pem \in Seq(Pems)
    <3> HIDE DEF pem
    <3> QED BY <1>p, <2>1 DEF BootOK
  <2>3. BootOK(p, file)
    <3> HIDE DEF pem
    <3> QED BY <1>7, <1>p, <2>2, NoContentType DEF BootOK, LoadKey
  <2>4. Boot(p) \/ Boot(Down)
    BY <1>7 DEF LoadKey
  <2> HIDE DEF p
  <2> QED BY <1>d, <2>3, <2>4, BootStepKeeps
<1> QED BY <1>1, <1>2, <1>3, <1>4, <1>5, <1>6, <1>7

\* Validation and the wiring of the container keep the invariant: what they let through
\* is what the rules of the validators say.
LEMMA WireSteps ==
    ASSUME BootInv, Validate \/ NewContainer
    PROVE  BootInv'
<1>p. BootOK(proc, file)
  BY DEF BootInv
<1>d. BootOK(Down, file)
  BY DownOK
<1>1. CASE Validate
  <2> DEFINE c == ApplyDefaultValues(proc.conf)
             p == [proc EXCEPT !.at = "wire", !.conf = c]
  <2>1. CASE CompositeValidator(c)
    <3>1. Len(file.lbs) <= Len(proc.pem)
      <4>1. proc.conf = file /\ ~(Len(proc.pem) < Len(file.lbs))
        BY <1>1, <1>p DEF Validate, BootOK, Pending
      <4>2. Len(proc.pem) \in Nat /\ Len(file.lbs) \in Nat
        BY <1>p DEF BootOK, BootInv, IsFile
      <4> QED BY <4>1, <4>2
    <3>2. c = ApplyDefaultValues(file)
      BY <1>1, <1>p DEF Validate, BootOK
    <3> HIDE DEF c
    <3>3. BootOK(p, file)
      BY <1>1, <1>p, <2>1, <3>1, <3>2 DEF BootOK, Validate
    <3>4. Boot(p)
      BY <1>1, <2>1 DEF Validate, c
    <3> QED BY <3>3, <3>4, BootStepKeeps
  <2>2. CASE ~CompositeValidator(c)
    BY <1>1, <1>d, <2>2, BootStepKeeps DEF Validate
  <2> QED BY <2>1, <2>2
<1>2. CASE NewContainer
  <2> DEFINE lbs == proc.conf.lbs
             p == [proc EXCEPT !.at = "running", !.adapters = Adapters(lbs)]
  <2>1. CASE \A i \in DOMAIN lbs : CreateLoadBalancerAdapter(lbs[i], proc.pem[i])
    <3>1. BootOK(p, file)
      BY <1>2, <1>p, <2>1 DEF BootOK, NewContainer
    <3>2. Boot(p)
      BY <1>2, <2>1 DEF NewContainer
    <3> QED BY <3>1, <3>2, BootStepKeeps
  <2>2. CASE ~\A i \in DOMAIN lbs : CreateLoadBalancerAdapter(lbs[i], proc.pem[i])
    BY <1>2, <1>d, <2>2, BootStepKeeps DEF NewContainer
  <2> QED BY <2>1, <2>2
<1> QED BY <1>1, <1>2

\* A file is edited while the process is down, and stays a file.
LEMMA EditKeeps ==
    ASSUME BootInv, NEW f, IsFile(f), Edit(f)
    PROVE  BootInv'
<1>1. BootOK(proc, f)
  BY DEF BootInv, BootOK, Edit
<1> QED BY <1>1 DEF BootInv, Edit

\* One more replacement rule leaves four lists of rules.
LEMMA RuleAdded ==
    ASSUME NEW c \in RuleLists
    PROVE  /\ \A r \in IPRules, l \in {"ips", "gips"} : [c EXCEPT ![l] = Append(@, r)] \in RuleLists
           /\ \A n \in NetRules, l \in {"nets", "gnets"} : [c EXCEPT ![l] = Append(@, n)] \in RuleLists
<1>1. ASSUME NEW S, NEW s \in Seq(S), NEW x \in S PROVE Append(s, x) \in Seq(S)
  OBVIOUS
<1>2. /\ c.ips \in Seq(IPRules) /\ c.gips \in Seq(IPRules)
      /\ c.nets \in Seq(NetRules) /\ c.gnets \in Seq(NetRules)
  BY DEF RuleLists
<1>3. ASSUME NEW r \in IPRules
      PROVE  [c EXCEPT !.ips = Append(@, r)] \in RuleLists /\ [c EXCEPT !.gips = Append(@, r)] \in RuleLists
  <2>1. Append(c.ips, r) \in Seq(IPRules) /\ Append(c.gips, r) \in Seq(IPRules)
    BY <1>1, <1>2
  <2> QED BY <2>1 DEF RuleLists
<1>4. ASSUME NEW n \in NetRules
      PROVE  [c EXCEPT !.nets = Append(@, n)] \in RuleLists /\ [c EXCEPT !.gnets = Append(@, n)] \in RuleLists
  <2>1. Append(c.nets, n) \in Seq(NetRules) /\ Append(c.gnets, n) \in Seq(NetRules)
    BY <1>1, <1>2
  <2> QED BY <2>1 DEF RuleLists
<1> QED BY <1>3, <1>4

\* An operator's edit of the file keeps the invariant: the running process holds what it
\* read, not the file.
LEMMA Edits ==
    ASSUME BootInv, EditGlobal \/ EditLB \/ AddRule
    PROVE  BootInv'
<1>f. IsFile(file)
  BY DEF BootInv
<1>l. \A i \in DOMAIN file.lbs : Conforms(file.lbs[i], LBFields)
  BY <1>f DEF IsFile
<1>1. CASE EditGlobal
  <2>1. PICK f \in DOMAIN GlobalValues : \E v \in GlobalValues[f] : Edit([file EXCEPT !.g[f] = v])
    BY <1>1 DEF EditGlobal
  <2>2. PICK v \in GlobalValues[f] : Edit([file EXCEPT !.g[f] = v])
    BY <2>1
  <2>3. f \in DOMAIN GlobalFields /\ v \in GlobalFields[f]
    BY EditsAssumption
  <2> DEFINE d == [file EXCEPT !.g[f] = v]
  <2>4. DOMAIN d = {"g", "lbs"} /\ d.g = [file.g EXCEPT ![f] = v] /\ d.lbs = file.lbs
    BY <1>f DEF IsFile
  <2>5. Conforms([file.g EXCEPT ![f] = v], GlobalFields)
    BY <1>f, <2>3, FieldEdit DEF IsFile
  <2> HIDE DEF d
  <2>6. IsFile(d)
    BY <1>f, <2>4, <2>5 DEF IsFile
  <2> QED BY <2>2, <2>6, EditKeeps DEF d
<1>2. CASE EditLB
  <2>1. PICK i \in DOMAIN file.lbs, f \in DOMAIN LBValues :
          \E v \in LBValues[f] : Edit([file EXCEPT !.lbs[i][f] = v])
    BY <1>2 DEF EditLB
  <2>2. PICK v \in LBValues[f] : Edit([file EXCEPT !.lbs[i][f] = v])
    BY <2>1
  <2>3. f \in DOMAIN LBFields /\ v \in LBFields[f]
    BY EditsAssumption
  <2>4. Conforms([file.lbs[i] EXCEPT ![f] = v], LBFields)
    BY <1>l, <2>3, FieldEdit
  <2>5. [file EXCEPT !.lbs[i][f] = v] = [file EXCEPT !.lbs[i] = [file.lbs[i] EXCEPT ![f] = v]]
    BY <1>f DEF IsFile
  <2>6. IsFile([file EXCEPT !.lbs[i] = [file.lbs[i] EXCEPT ![f] = v]])
    BY <1>f, <2>4, LBEdit
  <2> QED BY <2>2, <2>5, <2>6, EditKeeps
<1>3. CASE AddRule
  <2>1. PICK i \in DOMAIN file.lbs :
          \/ \E r \in IPRules, l \in {"ips", "gips"} :
               Edit([file EXCEPT !.lbs[i].rules[l] = Append(@, r)])
          \/ \E n \in NetRules, l \in {"nets", "gnets"} :
               Edit([file EXCEPT !.lbs[i].rules[l] = Append(@, n)])
    BY <1>3 DEF AddRule
  <2>2. file.lbs[i].rules \in RuleLists /\ "rules" \in DOMAIN file.lbs[i]
    BY <1>l DEF Conforms, LBFields
  <2>3. PICK x \in IPRules \cup NetRules, l \in {"ips", "gips"} \cup {"nets", "gnets"} :
          /\ [file.lbs[i].rules EXCEPT ![l] = Append(@, x)] \in RuleLists
          /\ Edit([file EXCEPT !.lbs[i].rules[l] = Append(@, x)])
    <3>1. ASSUME NEW r \in IPRules, NEW l \in {"ips", "gips"}
          PROVE  [file.lbs[i].rules EXCEPT ![l] = Append(@, r)] \in RuleLists
      BY <2>2, RuleAdded
    <3>2. ASSUME NEW n \in NetRules, NEW l \in {"nets", "gnets"}
          PROVE  [file.lbs[i].rules EXCEPT ![l] = Append(@, n)] \in RuleLists
      BY <2>2, RuleAdded
    <3>3. CASE \E r \in IPRules, l \in {"ips", "gips"} :
                 Edit([file EXCEPT !.lbs[i].rules[l] = Append(@, r)])
      BY <3>1, <3>3, Zenon
    <3>4. CASE \E n \in NetRules, l \in {"nets", "gnets"} :
                 Edit([file EXCEPT !.lbs[i].rules[l] = Append(@, n)])
      BY <3>2, <3>4, Zenon
    <3> QED BY <2>1, <3>3, <3>4
  <2> DEFINE new == [file.lbs[i].rules EXCEPT ![l] = Append(@, x)]
  <2>4. [file EXCEPT !.lbs[i].rules[l] = Append(@, x)]
          = [file EXCEPT !.lbs[i] = [file.lbs[i] EXCEPT !.rules = new]]
    BY <1>f, <2>2 DEF IsFile
  <2>5. Conforms([file.lbs[i] EXCEPT !.rules = new], LBFields)
    <3>1. "rules" \in DOMAIN LBFields /\ LBFields["rules"] = RuleLists
      BY DEF LBFields
    <3>2. new \in RuleLists
      BY <2>3
    <3> HIDE DEF new
    <3> QED BY <1>l, <3>1, <3>2, FieldEdit
  <2> HIDE DEF new
  <2>6. IsFile([file EXCEPT !.lbs[i] = [file.lbs[i] EXCEPT !.rules = new]])
    BY <1>f, <2>5, LBEdit
  <2> QED BY <2>3, <2>4, <2>6, EditKeeps
<1> QED BY <1>1, <1>2, <1>3

\* So do a failed client, a stop, and a certificate file rewritten under the process.
LEMMA Around ==
    ASSUME BootInv, ClientFails \/ Stop \/ WriteFile
    PROVE  BootInv'
<1>1. CASE ClientFails \/ Stop
  <2>1. proc' = Down /\ file' = file /\ disk' = disk
    BY <1>1 DEF ClientFails, Stop
  <2> QED BY <2>1, DownOK DEF BootInv
<1>2. CASE WriteFile
  <2>1. PICK f \in DOMAIN Contents : \E c \in Contents[f] :
          disk' = [disk EXCEPT ![f] = c] /\ file' = file /\ proc' = proc
    BY <1>2 DEF WriteFile
  <2>2. PICK c \in Contents[f] : disk' = [disk EXCEPT ![f] = c] /\ file' = file /\ proc' = proc
    BY <2>1
  <2>3. c \in Content
    BY ContentsAssumption DEF Content, Empty, CertStates
  <2> QED BY <2>2, <2>3 DEF BootInv
<1> QED BY <1>1, <1>2

\* Every step keeps the invariant.
LEMMA NextBoot == BootInv /\ [Next]_vars => BootInv'
<1> SUFFICES ASSUME BootInv, [Next]_vars PROVE BootInv'
  OBVIOUS
<1>1. CASE UNCHANGED vars
  BY <1>1 DEF vars, BootInv
<1>2. CASE BootStep
  BY <1>2, LoadSteps, WireSteps DEF BootStep
<1>3. CASE ClientFails \/ Stop \/ WriteFile
  BY <1>3, Around
<1>4. CASE EditGlobal \/ EditLB \/ AddRule
  BY <1>4, Edits
<1> QED BY <1>1, <1>2, <1>3, <1>4 DEF Next

\* The invariant that is inductive.
THEOREM BootSafe == Spec => []BootInv
BY InitBoot, NextBoot, PTL DEF Spec

-----------------------------------------------------------------------------
(* What it says of a process that runs.                                    *)

\* The fields of a file with its defaults, one by one.
LEMMA DefaultsOf ==
    ASSUME NEW f, IsFile(f)
    PROVE  LET c == ApplyDefaultValues(f)
           IN  /\ c.g.period = Or(f.g.period, GlobalUpstreamSyncPeriod)
               /\ DOMAIN c.lbs = DOMAIN f.lbs /\ DOMAIN f.lbs = 1..Len(f.lbs)
               /\ \A i \in DOMAIN f.lbs :
                    LET lb == c.lbs[i] own == f.lbs[i]
                    IN  /\ lb.period = Or(own.period, Or(f.g.period, GlobalUpstreamSyncPeriod))
                        /\ lb.pool = Or(own.pool, Or(f.g.pool, RequestPoolSize))
                        /\ lb.rules = own.rules /\ lb.replace = own.replace
<1> DEFINE gd == GlobalDefaults(f.g)
<1>1. DOMAIN f = {"g", "lbs"} /\ DOMAIN f.lbs = 1..Len(f.lbs)
  BY DEF IsFile
<1>2. DOMAIN f.g = DOMAIN GlobalFields /\ \A i \in DOMAIN f.lbs : DOMAIN f.lbs[i] = DOMAIN LBFields
  BY DEF IsFile, Conforms
<1>3. /\ gd.period = Or(f.g.period, GlobalUpstreamSyncPeriod)
      /\ gd.pool = Or(f.g.pool, RequestPoolSize)
  BY <1>2 DEF GlobalDefaults, GlobalFields
<1> HIDE DEF gd
<1>4. /\ ApplyDefaultValues(f).g = gd
      /\ ApplyDefaultValues(f).lbs = [i \in DOMAIN f.lbs |-> Inherit(SetDefaults(f.lbs[i], gd), gd)]
  BY <1>1 DEF ApplyDefaultValues, gd
<1>5. ASSUME NEW i \in DOMAIN f.lbs
      PROVE  LET lb == Inherit(SetDefaults(f.lbs[i], gd), gd) own == f.lbs[i]
             IN  /\ lb.period = Or(own.period, gd.period)
                 /\ lb.pool = Or(own.pool, gd.pool)
                 /\ lb.rules = own.rules /\ lb.replace = own.replace
  BY <1>2 DEF Inherit, SetDefaults, LBFields
<1> QED BY <1>1, <1>3, <1>4, <1>5

\* Of a process that runs: BootInv and the defaults, put together.
LEMMA RunningHas ==
    ASSUME BootInv, Running
    PROVE  /\ Conf = ApplyDefaultValues(file) /\ CompositeValidator(Conf)
           /\ DOMAIN Conf.lbs = DOMAIN file.lbs /\ DOMAIN Conf.lbs \subseteq DOMAIN proc.pem
           /\ \A i \in DOMAIN Conf.lbs : CreateLoadBalancerAdapter(Conf.lbs[i], proc.pem[i])
           /\ proc.adapters = Adapters(Conf.lbs)
           /\ proc.pem \in Seq(Pems)
<1>1. /\ proc.at = "running" /\ BootOK(proc, file) /\ IsFile(file)
  BY DEF BootInv, Running
<1>2. Len(file.lbs) \in Nat /\ DOMAIN file.lbs = 1..Len(file.lbs) /\ Len(file.lbs) <= Len(proc.pem)
  BY <1>1 DEF BootOK, IsFile
<1>3. proc.pem \in Seq(Pems) /\ DOMAIN proc.pem = 1..Len(proc.pem) /\ Len(proc.pem) \in Nat
  BY <1>1 DEF BootOK
<1>4. DOMAIN file.lbs \subseteq DOMAIN proc.pem
  BY <1>2, <1>3
<1>5. DOMAIN ApplyDefaultValues(file).lbs = DOMAIN file.lbs
  BY <1>1, DefaultsOf
<1> QED BY <1>1, <1>3, <1>4, <1>5 DEF BootOK, Conf

\* Only pairs that fit are ever used over https, in spite of the two reads and
\* the writes between them.
THEOREM PairSafe == Spec => []PairMatches
<1>1. BootInv => PairMatches
  <2> SUFFICES ASSUME BootInv, Running, NEW i \in DOMAIN Conf.lbs, Conf.lbs[i].protocol = "https"
               PROVE  /\ proc.pem[i].cert.pair = proc.pem[i].key.pair
                      /\ proc.pem[i].cert.state # "expired"
    BY DEF PairMatches
  <2> DEFINE pem == proc.pem[i]
  <2>1. pem \in Pems
    BY RunningHas
  <2>2. CreateLoadBalancerAdapter(Conf.lbs[i], pem)
    BY RunningHas
  <2> HIDE DEF pem
  <2>3. CASE Empty(pem.cert) /\ Empty(pem.key)
    BY <2>1, <2>3 DEF Pems, Content, Empty, pem
  <2>4. CASE ~Empty(pem.cert) \/ ~Empty(pem.key)
    BY <2>2, <2>4 DEF CreateLoadBalancerAdapter, NewNginxClientSet, X509KeyPair, pem
  <2> QED BY <2>3, <2>4
<1> QED BY <1>1, BootSafe, PTL

\* The overlap test is exact and every pair of rules is compared, for addresses
\* of any width and any number of rules.
THEOREM RulesSafe == Spec => []RulesUnambiguous
<1>1. BootInv => RulesUnambiguous
  <2> SUFFICES ASSUME BootInv, Running,
                      NEW i \in {j \in DOMAIN Conf.lbs : Conf.lbs[j].replace}, NEW a \in Addresses
               PROVE  Unambiguous(Conf.lbs[i].rules, a)
    BY DEF RulesUnambiguous, Unambiguous
  <2>1. i \in DOMAIN Conf.lbs /\ i \in DOMAIN file.lbs /\ Conf.lbs[i].replace
    BY RunningHas
  <2>2. IsFile(file) /\ Conf.lbs[i].rules = file.lbs[i].rules
    BY <2>1, RunningHas, DefaultsOf DEF BootInv
  <2>3. Conf.lbs[i].rules \in RuleLists
    BY <2>1, <2>2 DEF IsFile, Conforms, LBFields
  <2>4. Validated(Conf.lbs[i].rules)
    BY <2>1, RunningHas DEF CompositeValidator, GlobalIPReplacementValidator,
       LoadBalancerValidator, Validated
  <2> QED BY <2>3, <2>4, ValidatedUnambiguous
<1> QED BY <1>1, BootSafe, PTL

\* What the rest of the code does not check is in order for any file that gets
\* as far as a process that runs.
THEOREM RunsSafe == Spec => []RunsSafely
<1>1. BootInv => RunsSafely
  <2> SUFFICES ASSUME BootInv, Running PROVE RunsSafely
    BY DEF RunsSafely
  <2>c. Conf = ApplyDefaultValues(file) /\ CompositeValidator(Conf) /\ IsFile(file)
    BY RunningHas DEF BootInv
  <2>l. LoadBalancerValidator(Conf) /\ GlobalConfigValidator(Conf)
    BY <2>c DEF CompositeValidator
  <2>d. DOMAIN Conf.lbs = DOMAIN file.lbs /\ DOMAIN file.lbs = 1..Len(file.lbs)
    BY <2>c, DefaultsOf
  <2>g. Conf.g.period \in Int /\ Conf.g.period > 0
    <3>1. file.g.period \in Int
      BY <2>c DEF IsFile, Conforms, GlobalFields
    <3>2. Conf.g.period = Or(file.g.period, GlobalUpstreamSyncPeriod)
      BY <2>c, DefaultsOf
    <3>3. Conf.g.period >= 0
      BY <2>l DEF GlobalConfigValidator
    <3> QED BY <3>1, <3>2, <3>3 DEF Or, GlobalUpstreamSyncPeriod
  <2>p. \A i \in DOMAIN Conf.lbs : Conf.lbs[i].period \in Int
    <3> SUFFICES ASSUME NEW i \in DOMAIN Conf.lbs PROVE Conf.lbs[i].period \in Int
      OBVIOUS
    <3>1. file.lbs[i].period \in Int /\ file.g.period \in Int
      BY <2>c, <2>d DEF IsFile, Conforms, GlobalFields, LBFields
    <3>2. Conf.lbs[i].period = Or(file.lbs[i].period, Or(file.g.period, GlobalUpstreamSyncPeriod))
      BY <2>c, <2>d, DefaultsOf
    <3> QED BY <3>1, <3>2 DEF Or, GlobalUpstreamSyncPeriod
  <2>1. \A p \in Tickers(Conf) : p > 0
    BY <2>g, <2>p DEF Tickers
  <2>2. ASSUME NEW i \in DOMAIN Conf.lbs
        PROVE  LET lb == Conf.lbs[i]
               IN  /\ lb.pool > 0 /\ lb.timeout > 0 /\ lb.failTimeout >= 0
                   /\ lb.name \in DOMAIN proc.adapters /\ proc.adapters[lb.name] = i
    <3>1. Conf.lbs[i].pool > 0 /\ Conf.lbs[i].timeout > 0
      BY <2>l DEF GlobalConfigValidator
    <3>2. Conf.lbs[i].type = "nginx"
      BY RunningHas DEF CreateLoadBalancerAdapter
    <3>3. Conf.lbs[i].failTimeout >= 0
      BY <2>c, <3>2 DEF CompositeValidator, NginxValidator
    <3> DEFINE n == Conf.lbs[i].name
    <3>4. {j \in DOMAIN Conf.lbs : Conf.lbs[j].name = n} = {i}
      BY <2>l DEF LoadBalancerValidator
    <3>5. proc.adapters = Adapters(Conf.lbs) /\ n \in {Conf.lbs[j].name : j \in DOMAIN Conf.lbs}
      BY RunningHas
    <3>6. i \in Int
      BY <2>c, <2>d DEF IsFile
    <3>7. n \in DOMAIN proc.adapters /\ proc.adapters[n] = i
      <4>1. (CHOOSE j \in {i} : \A k \in {i} : k <= j) = i
        BY <3>6
      <4> HIDE DEF n
      <4>2. proc.adapters[n] = CHOOSE j \in {i} : \A k \in {i} : k <= j
        BY <3>4, <3>5 DEF Adapters
      <4> QED BY <3>5, <4>1, <4>2 DEF Adapters
    <3> QED BY <3>1, <3>3, <3>7
  <2> QED BY <2>1, <2>2 DEF RunsSafely
<1> QED BY <1>1, BootSafe, PTL
=============================================================================
