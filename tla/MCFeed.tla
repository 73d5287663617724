------------------------------- MODULE MCFeed -------------------------------
(* Small instances of Feed for TLC.                                        *)
EXTENDS Feed

CONSTANTS s1, p1, n1

Labels == {"mlb-loadbalancer-name", "mlb-upstream-name", "mlb-port"}
Service(labels, type, up, port) ==
    [labels |-> labels, type |-> type, up |-> up, port |-> port, specPort |-> 31000]
PodObj(terminating, condition, phase, containers) ==
    [terminating |-> terminating, condition |-> condition, phase |-> phase,
     containers |-> containers, node |-> "n1"]

\* Managed, with a port that is out of range; not managed, for want of a label.
S1 == {Service(Labels, "LoadBalancer", "u1", 65536), Service(Labels \ {"mlb-port"}, "NodePort", "u1", 0)}
\* Terminating, while its condition is still true.
P1 == {PodObj(TRUE, "True", "Running", {"ready"})}

\* The addresses of a node may come in any order.
N1 == {[addresses |-> <<[type |-> "ExternalIP", ip |-> "e"], [type |-> "InternalIP", ip |-> "i"]>>]}

MCObjs == (s1 :> S1) @@ (p1 :> P1) @@ (n1 :> N1)
=============================================================================
