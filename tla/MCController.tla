---------------------------- MODULE MCController ----------------------------
(* Small instances of Controller for TLC.                                  *)
EXTENDS Controller

MCLBs == {"lb"}
MCIdentity == [l \in LBs |-> [i \in IPs |-> i]]
MCAllLBs == [r \in Syncers |-> LBs]
MCNoDefault == [l \in LBs |-> Absent]

Obj(up, app, port) == [lb |-> "lb", up |-> up, sel |-> {app}, port |-> port]
Pod(app, n, b) == [labels |-> {app}, node |-> n, ready |-> b]

\* The labels may name a load balancer nobody configured.
MCNamesTypo == {"lb", "lx"}

\* A service that moves between upstreams, and one whose load balancer is unknown.
MCSvcMoving == [s \in Services |->
    IF s = "a" THEN {Obj("u", "A", 1), Obj("v", "A", 1)}
               ELSE {[Obj("u", "B", 1) EXCEPT !.lb = "lx"]}]

\* Two services that stay on the same upstream.
MCSvcShared == [s \in Services |->
    IF s = "a" THEN {Obj("u", "A", 1)} ELSE {Obj("u", "B", 1)}]

\* A service whose port may be invalid, and one that stays on the upstream.
MCSvcPort == [s \in Services |->
    IF s = "a" THEN {Obj("u", "A", 1), Obj("u", "A", 0)} ELSE {Obj("u", "B", 1)}]

\* A default backend of the load balancer, on a spare address.
MCDefault == [l \in LBs |-> [addr |-> <<"i2", 1>>, weight |-> 0]]

\* Two pods, each on a node of its own.
MCTwoPods == [p \in Pods |-> {Pod("A", IF p = "p1" THEN "n1" ELSE "n2", TRUE)}]
MCTwoNodes == [n \in Nodes |-> {[internal |-> IF n = "n1" THEN "i1" ELSE "i2",
                                 external |-> NoIP]}]

\* A pod that is ready or gone.
MCPodFixed == [p \in Pods |-> {Pod("A", "n1", TRUE)}]

\* One pod of the app of service a, which may be relabelled to b's.
MCPodObjs == [p \in Pods |-> {Pod("A", "n1", TRUE), Pod("B", "n1", TRUE)}]
MCNodeObjs == [n \in Nodes |-> {[internal |-> i, external |-> NoIP] : i \in IPs}]

\* FairSpec from a cluster whose pods and nodes are there already.
MCThere == /\ Init
           /\ \A p \in Pods : pod[p] # Absent
           /\ \A n \in Nodes : node[n] # Absent
MCFairSpec == MCThere /\ [][Next]_vars /\ Fairness
=============================================================================
