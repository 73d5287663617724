------------------------------- MODULE Config -------------------------------
(***************************************************************************)
(* How the process comes up: the configuration file is read                *)
(* (adapters/config), the certificates of each load balancer are checked   *)
(* and read (adapters/certificate), values that are not set get their      *)
(* defaults (domain/config), the result is validated                       *)
(* (adapters/validator), and di.NewContainer builds the adapters.  Any     *)
(* error ends the process, and the kubelet starts it again.                *)
(*                                                                         *)
(* A file has global values g and load balancers lbs, in the order of the  *)
(* file; numbers and durations are integers, 0 when they are not set.  The *)
(* file is edited while the process is down (it is read once, so an edit   *)
(* during a run is an edit before the next); the certificate files are     *)
(* written at any time, one at a time.                                     *)
(***************************************************************************)
EXTENDS Integers, IPRewrite

CONSTANTS
    Files,          \* configuration files the deployment starts from
    GlobalValues,   \* the values that an edit may give to each global field
    LBValues,       \* the same for the fields of a load balancer
    Contents,       \* what may be written to each certificate file
    MaxChanges      \* bound on edits, writes, stops and failures of Kubernetes

CertFiles == {"cert", "key", "ca"}
CertStates == {"missing", "empty", "garbage", "good", "expired", "early",
               "weak", "otherhost"}

ASSUME ChangesAssumption == MaxChanges \in Nat

\* The fields of the structs that the file is decoded into, and their types.
Backends == [ip : STRING, port : Int]
GlobalFields ==
    [readable |-> BOOLEAN, period |-> Int, pool |-> Int, resync |-> Int,
     allowEmpty |-> BOOLEAN, backend |-> Backends, election |-> BOOLEAN, lease |-> Int,
     renew |-> Int, retry |-> Int, log |-> BOOLEAN, level |-> STRING, format |-> STRING,
     metrics |-> BOOLEAN, metricsPort |-> Int, groupsNamed |-> BOOLEAN]
LBFields ==
    [type |-> STRING, name |-> STRING, hostname |-> STRING, protocol |-> STRING,
     addresses |-> Seq(Backends), api |-> STRING, period |-> Int, pool |-> Int,
     timeout |-> Int, failTimeout |-> Int, allowEmpty |-> BOOLEAN, backend |-> Backends,
     replace |-> BOOLEAN, rules |-> RuleLists, groupsExist |-> BOOLEAN,
     paths |-> SUBSET CertFiles]

Conforms(r, fields) == /\ DOMAIN r = DOMAIN fields
                       /\ \A f \in DOMAIN fields : r[f] \in fields[f]
IsFile(f) == /\ DOMAIN f = {"g", "lbs"}
             /\ Conforms(f.g, GlobalFields)
             /\ Len(f.lbs) \in Nat /\ DOMAIN f.lbs = 1..Len(f.lbs)
             /\ \A i \in DOMAIN f.lbs : Conforms(f.lbs[i], LBFields)

ASSUME FilesAssumption == \A f \in Files : IsFile(f)
\* An edit gives a field a value of its type.
ASSUME EditsAssumption ==
    /\ \A f \in DOMAIN GlobalValues :
         f \in DOMAIN GlobalFields /\ GlobalValues[f] \subseteq GlobalFields[f]
    /\ \A f \in DOMAIN LBValues :
         f \in DOMAIN LBFields /\ LBValues[f] \subseteq LBFields[f]
\* A certificate and its key have the same pair; a file without either has pair 0.
ASSUME ContentsAssumption ==
    /\ DOMAIN Contents \subseteq CertFiles
    /\ \A f \in DOMAIN Contents : \A c \in Contents[f] :
         c \in [state : CertStates, pair : Nat] /\ (c.state = "empty" => c.pair = 0)

VARIABLES file, disk, proc, changes

vars == <<file, disk, proc, changes>>

\* A backend pointer that is nil, and a path that is "".
NoBackend == [ip |-> "nil", port |-> 0]
NoContent == [state |-> "none", pair |-> 0]
NoPem == [cert |-> NoContent, key |-> NoContent, ca |-> NoContent]

\* at: where NewContainer is; conf: its Config; pem: what was read of the
\* certificates of the first load balancers; adapters: lbAdapters.
Down == [at |-> "down", conf |-> << >>, pem |-> << >>, cert |-> NoContent, adapters |-> << >>]

Init == /\ file \in Files
        /\ disk = [f \in CertFiles |-> [state |-> "good", pair |-> 1]]
        /\ proc = Down
        /\ changes = 0

Change == changes < MaxChanges /\ changes' = changes + 1
Boot(p) == proc' = p /\ UNCHANGED <<file, disk, changes>>

-----------------------------------------------------------------------------
(* domain/config: values that are not set.                                 *)

\* In seconds.
GlobalUpstreamSyncPeriod == 10
RequestPoolSize == 10
RequestTimeOut == 30
FailTimeout == 60

Or(v, default) == IF v = 0 THEN default ELSE v
OrName(v, default) == IF v = "" THEN default ELSE v

\* Of a load balancer by itself; Envoy has no failTimeout to look at.
SetDefaults(lb, g) ==
    [lb EXCEPT !.period = Or(@, g.period),
               !.failTimeout = Or(@, FailTimeout),
               !.timeout = Or(@, RequestTimeOut),
               !.pool = Or(@, g.pool)]

GlobalDefaults(g) ==
    [g EXCEPT !.period = Or(@, GlobalUpstreamSyncPeriod),
              !.pool = Or(@, RequestPoolSize),
              !.lease = Or(@, 15), !.renew = Or(@, 10), !.retry = Or(@, 2),
              !.level = OrName(@, "info"), !.format = OrName(@, "json"),
              !.metricsPort = Or(@, 9090), !.resync = Or(@, 30)]

Inherit(lb, g) ==
    [lb EXCEPT !.allowEmpty = @ \/ g.allowEmpty,
               !.backend = IF @ = NoBackend THEN g.backend ELSE @]

\* Mutant of ApplyDefaultValues: load balancers take the values of the file,
\* not the defaulted ones.
DefaultsLBFirst(c) ==
    [c EXCEPT !.g = GlobalDefaults(@),
              !.lbs = [i \in DOMAIN @ |-> Inherit(SetDefaults(@[i], c.g), c.g)]]

ApplyDefaultValues(c) ==
    LET g == GlobalDefaults(c.g)
    IN  [c EXCEPT !.g = g, !.lbs = [i \in DOMAIN @ |-> Inherit(SetDefaults(@[i], g), g)]]

-----------------------------------------------------------------------------
(* adapters/validator, over a configuration with its defaults.             *)

IsValidIP(ip) == ip # "bad"
IsValidPort(p) == p \in 1..65535
IsValidDomain(h) == h \notin {"", "bad"}
ValidBackend(b) == b = NoBackend \/ (IsValidIP(b.ip) /\ IsValidPort(b.port))

\* Mutant of GlobalConfigValidator: the period is not looked at.
GlobalWithoutPeriod(c) ==
    /\ c.g.pool \in 1..100
    /\ ValidBackend(c.g.backend)
    /\ \A i \in DOMAIN c.lbs : c.lbs[i].pool \in 1..100 /\ c.lbs[i].timeout > 0

GlobalConfigValidator(c) ==
    /\ c.g.pool \in 1..100
    /\ c.g.period >= 0
    /\ ValidBackend(c.g.backend)
    /\ \A i \in DOMAIN c.lbs : c.lbs[i].pool \in 1..100 /\ c.lbs[i].timeout > 0

LeaderElectionValidator(c) ==
    c.g.election =>
        /\ c.g.lease > 0 /\ c.g.renew > 0 /\ c.g.retry > 0
        /\ c.g.lease > c.g.renew /\ c.g.renew > c.g.retry

LogValidator(c) ==
    c.g.log => /\ c.g.level \in {"debug", "info", "warn", "error", "fatal"}
               /\ c.g.format \in {"json", "console"}

MetricsValidator(c) == c.g.metrics => c.g.metricsPort \in 0..65535

KubernetesValidator(c) == c.g.resync >= 0

\* The names of the global groups, and their rules.
GlobalIPReplacementValidator(c) ==
    /\ c.g.groupsNamed
    /\ \A i \in DOMAIN c.lbs : ValidateGlobal(c.lbs[i].rules)

ValidateAddresses(lb) ==
    \A k \in DOMAIN lb.addresses : /\ IsValidIP(lb.addresses[k].ip)
                                   /\ IsValidPort(lb.addresses[k].port)

LoadBalancerValidator(c) ==
    \A i \in DOMAIN c.lbs : LET lb == c.lbs[i] IN
        /\ lb.name # "" /\ \A j \in DOMAIN c.lbs \ {i} : c.lbs[j].name # lb.name
        /\ lb.hostname # "" => IsValidDomain(lb.hostname)
        /\ ValidateAddresses(lb)
        /\ lb.replace => /\ Rules(lb.rules) > 0
                         /\ ValidateIPReplacementList(lb.rules)
                         /\ lb.groupsExist
                         /\ ValidateReferenced(lb.rules)
        /\ ValidBackend(lb.backend)

\* The three APIs are one value.
NginxValidator(lb) ==
    /\ lb.protocol \in {"http", "https"}
    /\ lb.protocol = "https" => IsValidDomain(lb.hostname)
    /\ lb.api = "/api"
    /\ lb.period >= 0 /\ lb.failTimeout >= 0 /\ lb.timeout >= 0

EnvoyValidator(lb) == lb.protocol = "grpc" /\ lb.period >= 0 /\ lb.timeout >= 0

CompositeValidator(c) ==
    /\ GlobalConfigValidator(c)
    /\ LeaderElectionValidator(c)
    /\ LogValidator(c)
    /\ MetricsValidator(c)
    /\ KubernetesValidator(c)
    /\ GlobalIPReplacementValidator(c)
    /\ LoadBalancerValidator(c)
    /\ \A i \in DOMAIN c.lbs :
         IF c.lbs[i].type = "nginx" THEN NginxValidator(c.lbs[i]) ELSE EnvoyValidator(c.lbs[i])

-----------------------------------------------------------------------------
(* ViperLoader.Load and FileLoader.Load.                                   *)

\* The load balancer whose certificates are next.
Current == proc.conf.lbs[Len(proc.pem) + 1]
Pending == Len(proc.pem) < Len(proc.conf.lbs)

\* A file that is not there, or not YAML of these types, ends the process.
ReadInConfig ==
    /\ proc.at = "down" /\ file.g.readable
    /\ Boot([Down EXCEPT !.at = "load", !.conf = file])

\* A file of a certificate as the process sees it; a path may be "".
Read(f) == IF f \in Current.paths THEN disk[f] ELSE NoContent
Readable(f) == Read(f).state # "missing"

\* tls.X509KeyPair: both parse and the key is the one of the certificate.
X509KeyPair(cert, key) == cert.pair # 0 /\ cert.pair = key.pair

\* AppendCertsFromPEM: a CA that can be parsed is taken, whatever its dates.
CAParses(ca) == ca.state \notin {"none", "missing", "empty", "garbage"}

\* What validateCertKey finds in a certificate that was issued well.
ValidCert(cert, lb) ==
    /\ cert.state \notin {"expired", "early", "weak"}
    /\ lb.hostname # "" => cert.state # "otherhost"

\* A load balancer without paths has nothing to read.
NoCertificates ==
    /\ proc.at = "load" /\ Pending
    /\ Current.type \in {"nginx", "envoy"} /\ Current.paths = {}
    /\ Boot([proc EXCEPT !.pem = Append(@, NoPem)])

UnsupportedType ==
    /\ proc.at = "load" /\ Pending
    /\ Current.type \notin {"nginx", "envoy"}
    /\ Boot(Down)

\* validateCert reads the certificate, and then the key and the CA.
ValidateCert ==
    /\ proc.at = "load" /\ Pending
    /\ Current.type \in {"nginx", "envoy"} /\ Current.paths # {}
    /\ Boot(IF ("cert" \in Current.paths <=> "key" \in Current.paths) /\ Readable("cert")
            THEN [proc EXCEPT !.at = "validate", !.cert = Read("cert")]
            ELSE Down)

ValidateCertKey ==
    /\ proc.at = "validate"
    /\ Boot(IF /\ "cert" \in Current.paths =>
                    /\ Readable("key") /\ X509KeyPair(proc.cert, Read("key"))
                    /\ ValidCert(proc.cert, Current)
               /\ "ca" \in Current.paths => CAParses(Read("ca"))
            THEN [proc EXCEPT !.at = "cert", !.cert = NoContent]
            ELSE Down)

\* Load then reads the files again.
LoadCert ==
    /\ proc.at = "cert"
    /\ Boot(IF Readable("cert") THEN [proc EXCEPT !.at = "key", !.cert = Read("cert")] ELSE Down)

LoadKey ==
    /\ proc.at = "key"
    /\ Boot(IF Readable("key") /\ Readable("ca")
            THEN [proc EXCEPT !.at = "load", !.cert = NoContent,
                    !.pem = Append(@, [cert |-> proc.cert, key |-> Read("key"), ca |-> Read("ca")])]
            ELSE Down)

Validate ==
    /\ proc.at = "load" /\ ~Pending
    /\ LET c == ApplyDefaultValues(proc.conf)
       IN  Boot(IF CompositeValidator(c) THEN [proc EXCEPT !.at = "wire", !.conf = c] ELSE Down)

-----------------------------------------------------------------------------
(* di.NewContainer and the load balancer factory.                          *)

Empty(content) == content.state \in {"none", "empty"}

\* Mutant of NewNginxClientSet: what was validated is not looked at again.
ClientSetUnchecked(lb, pem) == TRUE

\* The pair and its expiry are checked again, on what was read, for https.
NewNginxClientSet(lb, pem) ==
    lb.protocol = "https" =>
        /\ ~Empty(pem.cert) \/ ~Empty(pem.key) =>
             X509KeyPair(pem.cert, pem.key) /\ pem.cert.state # "expired"
        /\ ~Empty(pem.ca) => CAParses(pem.ca)

\* There is no adapter for Envoy yet.
CreateLoadBalancerAdapter(lb, pem) == lb.type = "nginx" /\ NewNginxClientSet(lb, pem)

\* lbAdapters, by name: the last one of a name.
Adapters(lbs) ==
    LET Named(n) == {i \in DOMAIN lbs : lbs[i].name = n}
    IN  [n \in {lbs[i].name : i \in DOMAIN lbs} |-> CHOOSE i \in Named(n) : \A j \in Named(n) : j <= i]

NewContainer ==
    /\ proc.at = "wire"
    /\ LET lbs == proc.conf.lbs
       IN  Boot(IF \A i \in DOMAIN lbs : CreateLoadBalancerAdapter(lbs[i], proc.pem[i])
                THEN [proc EXCEPT !.at = "running", !.adapters = Adapters(lbs)]
                ELSE Down)

\* The client of Kubernetes or of the leader election cannot be created.
ClientFails ==
    /\ proc.at = "wire"
    /\ Change /\ proc' = Down /\ UNCHANGED <<file, disk>>

-----------------------------------------------------------------------------
(* Around the process.                                                     *)

\* The process ends, by a signal or a crash.
Stop == /\ proc.at = "running"
        /\ Change /\ proc' = Down /\ UNCHANGED <<file, disk>>

Edit(f) == /\ proc.at = "down" /\ Change
           /\ file' = f /\ UNCHANGED <<disk, proc>>

EditGlobal == \E f \in DOMAIN GlobalValues : \E v \in GlobalValues[f] :
                Edit([file EXCEPT !.g[f] = v])
EditLB == \E i \in DOMAIN file.lbs, f \in DOMAIN LBValues : \E v \in LBValues[f] :
            Edit([file EXCEPT !.lbs[i][f] = v])
\* Rules are for a load balancer that uses them.
AddRule == \E i \in {j \in DOMAIN file.lbs : file.lbs[j].replace} :
             \/ \E r \in IPRules, l \in {"ips", "gips"} :
                  Edit([file EXCEPT !.lbs[i].rules[l] = Append(@, r)])
             \/ \E n \in NetRules, l \in {"nets", "gnets"} :
                  Edit([file EXCEPT !.lbs[i].rules[l] = Append(@, n)])

WriteFile == \E f \in DOMAIN Contents : \E c \in Contents[f] :
               Change /\ disk' = [disk EXCEPT ![f] = c] /\ UNCHANGED <<file, proc>>

BootStep == \/ ReadInConfig \/ NoCertificates \/ UnsupportedType
            \/ ValidateCert \/ ValidateCertKey \/ LoadCert \/ LoadKey
            \/ Validate \/ NewContainer

Next == BootStep \/ ClientFails \/ Stop \/ EditGlobal \/ EditLB \/ AddRule \/ WriteFile

\* The kubelet restarts the process, and nothing in NewContainer waits.
Spec == Init /\ [][Next]_vars /\ WF_vars(BootStep)

-----------------------------------------------------------------------------
(* What the rest of the code does with the configuration.                  *)

\* The periods of the tickers of runPeriodicSync.
Tickers(c) ==
    IF c.lbs = << >> THEN {c.g.period}
    ELSE LET Period(lb) == IF lb.period > 0 THEN lb.period ELSE c.g.period
         IN  {IF Period(c.lbs[i]) <= 0 THEN 30 ELSE Period(c.lbs[i]) : i \in DOMAIN c.lbs}

\* Properties.

Running == proc.at = "running"
Conf == proc.conf

\* A process that runs has what the rest of the code takes for granted and does
\* not check: tickers with a positive period (NewTicker panics on any other, also
\* without a load balancer), a semaphore that admits a request, a timeout that is
\* not "none" (0 is no timeout for http.Client), and for each load balancer of
\* the file an adapter of its own (NewContainer, controller.go runPeriodicSync,
\* NewNginxAdapter).
RunsSafely ==
    Running => /\ \A p \in Tickers(Conf) : p > 0
               /\ \A i \in DOMAIN Conf.lbs :
                    LET lb == Conf.lbs[i]
                    IN  /\ lb.pool > 0 /\ lb.timeout > 0 /\ lb.failTimeout >= 0
                        /\ lb.name \in DOMAIN proc.adapters /\ proc.adapters[lb.name] = i

\* The certificate files are read twice, one by one, and may be replaced in
\* between; a load balancer that is reached by https still never runs with a
\* certificate and the key of another, nor with one that had expired when its
\* adapter was made (FileLoader.Load, NewNginxClientSet).
PairMatches ==
    Running => \A i \in DOMAIN Conf.lbs :
        LET pem == proc.pem[i]
        IN  Conf.lbs[i].protocol = "https" =>
              /\ pem.cert.pair = pem.key.pair
              /\ pem.cert.state # "expired"

\* In a process that runs, the order of the rules of a load balancer does not
\* matter: every rule for a single address that fits is the one that is applied,
\* and without one every network that fits is, with the host bits of the node
\* kept.  The overlap test must be exact for this, with networks of any two
\* lengths, and own rules be compared with the global ones (IsNetworkOverlap,
\* validateIPReplacementList, ApplyIPReplacement).
RulesUnambiguous ==
    Running => \A i \in {j \in DOMAIN Conf.lbs : Conf.lbs[j].replace}, a \in Addresses :
        LET c == Conf.lbs[i].rules
            b == ApplyIPReplacement(a, c)
            ips == ToSet(c.ips \o c.gips)
            nets == ToSet(c.nets \o c.gnets)
        IN  /\ \A r \in ips : r.src = a => b = r.dst
            /\ (\A r \in ips : r.src # a) =>
                 \A n \in nets : isIPInNet(a, n) =>
                    /\ isIPInNet(b, [n EXCEPT !.src = n.dst])
                    /\ SameHost(a, b, n.mask)

\* A file in which every value is left out or in its range, and certificates
\* that are in order.
Sane ==
    /\ file.g.readable
    /\ file.g.pool \in 0..100 /\ file.g.period >= 0 /\ file.g.resync >= 0
    /\ file.g.election => file.g.lease = 0 /\ file.g.renew = 0 /\ file.g.retry = 0
    /\ file.g.log => file.g.level \in {"", "warn"} /\ file.g.format \in {"", "console"}
    /\ file.g.metrics => file.g.metricsPort \in 0..65535
    /\ file.g.groupsNamed /\ ValidBackend(file.g.backend)
    /\ \A i \in DOMAIN file.lbs : LET lb == file.lbs[i] IN
         /\ lb.type = "nginx" /\ lb.protocol \in {"http", "https"} /\ lb.api = "/api"
         /\ lb.name # "" /\ \A j \in DOMAIN file.lbs \ {i} : file.lbs[j].name # lb.name
         /\ lb.hostname = "host" /\ ValidateAddresses(lb) /\ ValidBackend(lb.backend)
         /\ lb.pool \in 0..100 /\ lb.period >= 0 /\ lb.timeout >= 0 /\ lb.failTimeout >= 0
         /\ Rules(lb.rules) = 0 /\ ~lb.replace
         /\ lb.paths \in {{}, {"ca"}, {"cert", "key"}, {"cert", "key", "ca"}}
    /\ \A f \in DOMAIN disk : disk[f] = [state |-> "good", pair |-> disk["cert"].pair]

\* With such a file the process comes up, whatever it leaves out: nothing is
\* validated before it has its default (ViperLoader.Load).
SaneBoots == Sane ~> (Running \/ ~Sane)
=============================================================================
