---------------------------- MODULE LoadBalancer ----------------------------
(***************************************************************************)
(* What the load balancer port (internal/ports/loadbalancer) promises its  *)
(* callers, without listings, caches, permits or retries.  A call asks     *)
(* for backends on some upstreams of all servers; while it is open its     *)
(* requests are carried out one by one and in any order, some of them only *)
(* after it has returned, some never.  NginxAdapter implements it          *)
(* (NginxAdapter!PortRefined).                                             *)
(***************************************************************************)
EXTENDS Naturals

CONSTANTS Servers, Calls, Ups, Addrs, None

VARIABLES
    served,     \* served[s][u]: the weight of each address, 0 for none
    ask,        \* the open calls: [ups, want], or None
    late        \* requests that may still be carried out: <<s, <<u, x>>, weight>>

vars == <<served, ask, late>>

Backends == [Addrs -> Nat]
Asks == [ups : SUBSET Ups, want : [Ups -> Backends]]

Init == /\ served \in [Servers -> [Ups -> Backends]]
        /\ ask = [k \in Calls |-> None]
        /\ late = {}

Open(k) ==
    /\ ask[k] = None
    /\ ask'[k] \in Asks
    /\ ask' = [ask EXCEPT ![k] = ask'[k]]
    /\ UNCHANGED <<served, late>>

\* A request of an open call: only for an upstream it asks for, and only to the
\* weight it asks for.
Write(k, s, u, x) ==
    /\ ask[k] # None /\ u \in ask[k].ups
    /\ served' = [served EXCEPT ![s][u][x] = ask[k].want[u][x]]
    /\ UNCHANGED <<ask, late>>

Delay(k, s, u, x) ==
    /\ ask[k] # None /\ u \in ask[k].ups
    /\ late' = late \cup {<<s, <<u, x>>, ask[k].want[u][x]>>}
    /\ UNCHANGED <<served, ask>>

CarryOut(r) ==
    /\ served' = [served EXCEPT ![r[1]][r[2][1]][r[2][2]] = r[3]]
    /\ late' = late \ {r}
    /\ UNCHANGED ask

Close(k) ==
    /\ ask[k] # None
    /\ ask' = [ask EXCEPT ![k] = None]
    /\ UNCHANGED <<served, late>>

Next == \/ \E k \in Calls : \/ Open(k)
                            \/ \E s \in Servers, u \in Ups, x \in Addrs :
                                 Write(k, s, u, x) \/ Delay(k, s, u, x)
                            \/ Close(k)
        \/ \E r \in late : CarryOut(r)

Spec == Init /\ [][Next]_vars
=============================================================================
