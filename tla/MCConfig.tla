----------------------------- MODULE MCConfig -----------------------------
(* Small instances of Config for TLC.  The values of a field are its edges *)
(* and one on each side of them.                                           *)
EXTENDS Config

\* 1 and 6, in three bits.
MCTargetIPs == {<<0, 0, 1>>, <<1, 1, 0>>}

BaseGlobal ==
    [readable |-> TRUE, period |-> 0, pool |-> 0, resync |-> 0, allowEmpty |-> FALSE,
     backend |-> NoBackend, election |-> FALSE, lease |-> 0, renew |-> 0, retry |-> 0,
     log |-> FALSE, level |-> "", format |-> "", metrics |-> FALSE, metricsPort |-> 0,
     groupsNamed |-> TRUE]
BaseLB ==
    [type |-> "nginx", name |-> "a", hostname |-> "host", protocol |-> "http",
     addresses |-> <<[ip |-> "lb", port |-> 80]>>, api |-> "/api", period |-> 0, pool |-> 0,
     timeout |-> 0, failTimeout |-> 0, allowEmpty |-> FALSE, backend |-> NoBackend,
     replace |-> FALSE, rules |-> NoRules, groupsExist |-> TRUE, paths |-> {}]
Secure == [BaseLB EXCEPT !.protocol = "https", !.paths = {"cert", "key", "ca"}]
Rewriting == [BaseLB EXCEPT !.replace = TRUE]

\* No load balancer; one over https; two; one with rules to be filled in; and
\* the election, the log and the metrics switched on.
MCFiles ==
    {[g |-> BaseGlobal, lbs |-> << >>], [g |-> BaseGlobal, lbs |-> <<Secure>>],
     [g |-> BaseGlobal, lbs |-> <<BaseLB, [BaseLB EXCEPT !.name = "b"]>>],
     [g |-> BaseGlobal, lbs |-> <<Rewriting>>],
     [g |-> [BaseGlobal EXCEPT !.election = TRUE, !.log = TRUE, !.metrics = TRUE],
      lbs |-> << >>]}

MCBackends == {NoBackend, [ip |-> "bad", port |-> 80], [ip |-> "be1", port |-> 80],
               [ip |-> "be2", port |-> 0], [ip |-> "be2", port |-> 65536]}
MCGlobalValues ==
    [readable |-> BOOLEAN, period |-> {-1, 5}, pool |-> {-1, 1, 100, 101},
     resync |-> {-1, 5}, allowEmpty |-> {TRUE}, backend |-> MCBackends,
     election |-> {TRUE}, lease |-> {-1, 10, 11}, renew |-> {-1, 2, 3}, retry |-> {-1, 1},
     log |-> {TRUE}, level |-> {"loud", "warn"}, format |-> {"text", "console"},
     metrics |-> {TRUE}, metricsPort |-> {-1, 65536, 65535}, groupsNamed |-> {FALSE}]
MCLBValues ==
    [type |-> {"envoy", "other"}, name |-> {"", "a", "b"}, hostname |-> {"", "bad"},
     protocol |-> {"http", "https", "grpc"},
     addresses |-> {<< >>} \cup {<<[ip |-> i, port |-> p]>> : i \in {"lb", "bad"}, p \in {0, 80}},
     api |-> {"", "bad"}, period |-> {-1, 5}, pool |-> {-1, 1, 101}, timeout |-> {-1, 5},
     failTimeout |-> {-1, 5}, allowEmpty |-> {TRUE}, backend |-> MCBackends,
     replace |-> BOOLEAN, groupsExist |-> {FALSE}, paths |-> SUBSET CertFiles]

Unusable == [state : {"missing", "empty", "garbage"}, pair : {0}]
Good == [state : {"good"}, pair : {1, 2}]
MCContents ==
    [cert |-> Unusable \cup Good \cup [state : {"expired", "early", "weak", "otherhost"}, pair : {1}],
     key |-> Unusable \cup Good,
     ca |-> Unusable \cup Good \cup [state : {"expired"}, pair : {1}]]
=============================================================================
