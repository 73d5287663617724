----------------------------- MODULE Controller -----------------------------
(***************************************************************************)
(* The reconciliation engine of mlb-controller                             *)
(* (internal/controller/controller.go): the event loop, the rate limited   *)
(* work queue, the workers that run syncHandler and the per load balancer  *)
(* two-way reconciliation.                                                 *)
(*                                                                         *)
(* The informer caches are the variables svc, pod and node.  What a load   *)
(* balancer serves for an upstream is nginx[<<lb, up>>].  Its adapter is   *)
(* seen here as "list, from its cache or from the load balancer, then      *)
(* write what differs"; the module NginxAdapter opens the requests.        *)
(* A set of backends is a function from addresses <<ip, port>> to weights; *)
(* weight 0 means that the address is not there.                           *)
(***************************************************************************)
EXTENDS Naturals, FiniteSets, Sequences

CONSTANTS
    Services,       \* keys "namespace/name"
    SvcObjs,        \* [Services -> sets of [lb, up, sel, port]]; sel: set of labels
    Pods, PodObjs,  \* [Pods -> sets of [labels, node, ready]]
    Nodes, NodeObjs,\* [Nodes -> sets of [internal, external]]
    LBs,            \* load balancers of the configuration, each with an adapter
    LBNames, Ups,   \* names that may appear in labels ("" is never a member)
    IPs, Ports,     \* 0 is never a member of Ports: it is the invalid NodePort
    NoIP, NoNode,   \* a node without that address; a pod not scheduled yet
    IPReplacement,  \* [LBs -> [IPs -> IPs]]
    LBDefault, GlobalDefault,   \* default backends: [addr, weight] or Absent
    AllowEmpty,     \* LBs (and "global") whose allow_empty_upstream is true
    Prune,          \* LBs whose prune_orphans is true
    Workers,        \* RequestPoolSize goroutines
    Syncers,        \* goroutines that call syncSingleLoadBalancer
    SyncLBs,        \* [Syncers -> set of LBs that goroutine reconciles]
    GainLabels,     \* TRUE: a service may exist before it gets the labels
    Resync,         \* TRUE: the informers redeliver live services periodically
    MaxChanges,     \* bound on the changes of the cluster
    MaxFaults,      \* bound on failed lookups and load balancer requests
    Stragglers,     \* TRUE: a request the client gave up on may still be executed
    MaxRestarts,    \* bound on process restarts / changes of the leader
    Absent          \* no such object

Addrs == IPs \X Ports
Backends == [Addrs -> Nat]
Empty == [x \in Addrs |-> 0]
Targets == LBNames \X Ups
ServiceObjs == UNION {SvcObjs[s] : s \in Services}
PodSet == UNION {PodObjs[p] : p \in Pods}
NodeSet == UNION {NodeObjs[n] : n \in Nodes}

ASSUME NamesAssumption == /\ "" \notin LBNames \cup Ups
                          /\ LBs \subseteq LBNames
                          /\ 0 \notin Ports
ASSUME ObjectsAssumption ==
    /\ ServiceObjs \subseteq [lb : LBNames \cup {""}, up : Ups \cup {""},
                              sel : SUBSET UNION {o.sel : o \in ServiceObjs},
                              port : Ports \cup {0}]
    /\ Absent \notin ServiceObjs \cup PodSet \cup NodeSet \cup Backends \cup [Ups -> Backends]
    /\ IsFiniteSet(Services) /\ IsFiniteSet(Pods)
ASSUME PodsAssumption == \A o \in PodSet : o.node \in Nodes \cup {NoNode}
ASSUME DefaultAssumption ==
    /\ LBDefault \in [LBs -> [addr : Addrs, weight : Nat] \cup {Absent}]
    /\ GlobalDefault \in [addr : Addrs, weight : Nat] \cup {Absent}
ASSUME SyncersAssumption == /\ Syncers \cap Workers = {}
                            /\ SyncLBs \in [Syncers -> SUBSET LBs]
ASSUME BoundsAssumption == {MaxChanges, MaxFaults, MaxRestarts} \subseteq Nat

VARIABLES
    svc, pod, node,                     \* the informer caches (listers)
    svcEvents, podEvents, nodeEvents,   \* notifications not yet handled, per key
    stServices, stPods, stUpstreams,    \* c.state
    lastKnown,                          \* c.lastKnownServices
    dirty, processing, waiting,         \* c.queue
    wk,                                 \* locals of the workers
    sy,                                 \* locals of the reconcilers
    nginx,                              \* what the load balancers serve
    cache,                              \* a.cache: the listing of each, or Absent
    late,                               \* writes given up on, yet to be executed
    changes, faults, restarts           \* counters behind the bounds

cluster == <<svc, pod, node>>
events  == <<svcEvents, podEvents, nodeEvents>>
state   == <<stServices, stPods, stUpstreams, lastKnown>>
queue   == <<dirty, processing, waiting>>
bounds  == <<changes, faults, restarts>>
balancers == <<nginx, cache, late>>
vars    == <<cluster, events, state, queue, wk, sy, balancers, bounds>>

-----------------------------------------------------------------------------
(* What buildUpstream and mergeBackends compute from the listers.          *)

Target(o) == <<o.lb, o.up>>
Named(o) == o.lb # "" /\ o.up # ""

\* The pods a service selects; an empty selector selects nothing.
Selects(o, p) == o.sel # {} /\ o.sel \subseteq p.labels

NodeIP(n) == IF n.internal # NoIP THEN n.internal ELSE n.external
Rewrite(lb, ip) == IF lb \in LBs THEN IPReplacement[lb][ip] ELSE ip

\* Pods that can carry traffic of service object o.
Serving(o) == {p \in Pods : /\ pod[p] # Absent
                            /\ Selects(o, pod[p])
                            /\ pod[p].ready
                            /\ pod[p].node # NoNode}

\* buildUpstream fails when the node of a serving pod is not in the cache; a
\* service without a usable port returns (nil, nil) before any node is read.
BuildFails(o) == o.port # 0 /\ \E p \in Serving(o) : node[pod[p].node] = Absent

\* The addresses pod p contributes to service object o.
AddrsOf(o, p) == IF node[pod[p].node] = Absent \/ NodeIP(node[pod[p].node]) = NoIP
                 THEN {}
                 ELSE {<<Rewrite(o.lb, NodeIP(node[pod[p].node])), o.port>>}

\* Weight 1 per serving pod, summed per address by mergeBackends, over the
\* service objects f[s] of the keys s in the domain of f that have a port.
Built(f) == [x \in Addrs |->
               Cardinality({sp \in (DOMAIN f) \X Pods :
                              /\ f[sp[1]].port # 0
                              /\ sp[2] \in Serving(f[sp[1]])
                              /\ x \in AddrsOf(f[sp[1]], sp[2])})]

mergeBackends(a, b) == [x \in Addrs |-> a[x] + b[x]]

DefaultBackend(lb) == IF lb \in LBs /\ LBDefault[lb] # Absent
                      THEN LBDefault[lb] ELSE GlobalDefault
DefaultBackends(d) == [x \in Addrs |->
                         IF x # d.addr THEN 0
                         ELSE IF d.weight = 0 THEN 1 ELSE d.weight]
EmptyAllowed(lb) == "global" \in AllowEmpty \/ lb \in AllowEmpty

\* Mutant of SafetyNet: an empty upstream is always pushed.
NoSafetyNet(lb, b) == FALSE

\* The backends to push for lb: the built ones, the default backend when there
\* are none, or nothing at all (the safety net) when empty is not allowed.
SafetyNet(lb, b) == /\ b = Empty
                    /\ DefaultBackend(lb) = Absent
                    /\ ~EmptyAllowed(lb)
OrDefault(lb, b) == IF b = Empty /\ DefaultBackend(lb) # Absent
                    THEN DefaultBackends(DefaultBackend(lb)) ELSE b

-----------------------------------------------------------------------------
(* Types, and the locals of an actor at rest.                              *)

WorkerPCs == {"idle", "get", "last", "check", "record", "forget", "build",
              "merge", "push", "store", "apply", "done", "fail"}
SyncerPCs == {"idle", "register", "build", "push", "store", "apply", "prune"}

IdleWorker == [pc |-> "idle", key |-> Absent, svc |-> Absent, last |-> Absent,
               cur |-> Absent, curKey |-> Absent, cont |-> "done",
               to |-> Absent, want |-> Empty, list |-> [u \in Ups |-> Empty]]
IdleSyncer == [pc |-> "idle", lb |-> Absent, snap |-> [s \in Services |-> Absent],
               todo |-> {}, desired |-> {}, preserve |-> {}, failed |-> {},
               want |-> [u \in Ups |-> Empty], left |-> {}, up |-> Absent,
               list |-> [u \in Ups |-> Empty]]

Events(objs) == [type : {"Add", "Update", "Delete"}, obj : objs]

Init ==
    /\ svc = [s \in Services |-> Absent]
    /\ pod \in [Pods -> PodSet \cup {Absent}]
    /\ \A p \in Pods : pod[p] \in PodObjs[p] \cup {Absent}
    /\ node \in [Nodes -> NodeSet \cup {Absent}]
    /\ \A n \in Nodes : node[n] \in NodeObjs[n] \cup {Absent}
    /\ svcEvents = [s \in Services |-> << >>]
    /\ podEvents = [p \in Pods |-> << >>]
    /\ nodeEvents = [n \in Nodes |-> << >>]
    /\ stServices = [s \in Services |-> Absent]
    /\ stPods = pod
    /\ stUpstreams = [t \in Targets |-> Absent]
    /\ lastKnown = [s \in Services |-> Absent]
    /\ dirty = {} /\ processing = {} /\ waiting = {}
    /\ wk = [w \in Workers |-> IdleWorker]
    /\ sy = [r \in Syncers |-> IdleSyncer]
    /\ nginx = [t \in LBs \X Ups |-> Empty]
    /\ cache = [lb \in LBs |-> Absent] /\ late = {}
    /\ changes = 0 /\ faults = 0 /\ restarts = 0

-----------------------------------------------------------------------------
(* The cluster: a change reaches the lister first, its notification later. *)

\* What the watchers of the Kubernetes adapter send when a managed service
\* goes from object o to object n: a service that gains the labels of a managed
\* one was already there for the informer, so it comes as an Update.
ServiceNotice(o, n) ==
    IF n = Absent THEN {[type |-> "Delete", obj |-> o]}
    ELSE IF o = Absent THEN {[type |-> t, obj |-> n] :
                               t \in {"Add"} \cup IF GainLabels THEN {"Update"} ELSE {}}
    ELSE {[type |-> "Update", obj |-> n]}

ObjectNotice(o, n) ==
    IF n = Absent THEN [type |-> "Delete", obj |-> o]
    ELSE [type |-> IF o = Absent THEN "Add" ELSE "Update", obj |-> n]

ChangeService(s) ==
    /\ changes < MaxChanges
    /\ \E n \in (SvcObjs[s] \cup {Absent}) \ {svc[s]} :
         \E e \in ServiceNotice(svc[s], n) :
           /\ svc' = [svc EXCEPT ![s] = n]
           /\ svcEvents' = [svcEvents EXCEPT ![s] = Append(@, e)]
    /\ changes' = changes + 1
    /\ UNCHANGED <<pod, node, podEvents, nodeEvents, state, queue, wk, sy, balancers,
                   faults, restarts>>

ChangePod(p) ==
    /\ changes < MaxChanges
    /\ \E n \in (PodObjs[p] \cup {Absent}) \ {pod[p]} :
         /\ pod' = [pod EXCEPT ![p] = n]
         /\ podEvents' = [podEvents EXCEPT ![p] = Append(@, ObjectNotice(pod[p], n))]
    /\ changes' = changes + 1
    /\ UNCHANGED <<svc, node, svcEvents, nodeEvents, state, queue, wk, sy, balancers,
                   faults, restarts>>

ChangeNode(n) ==
    /\ changes < MaxChanges
    /\ \E m \in (NodeObjs[n] \cup {Absent}) \ {node[n]} :
         /\ node' = [node EXCEPT ![n] = m]
         /\ nodeEvents' = [nodeEvents EXCEPT ![n] = Append(@, ObjectNotice(node[n], m))]
    /\ changes' = changes + 1
    /\ UNCHANGED <<svc, pod, svcEvents, podEvents, state, queue, wk, sy, balancers,
                   faults, restarts>>

\* The informer's resync redelivers a live service as an Update.
ResyncService(s) ==
    /\ Resync
    /\ svc[s] # Absent /\ svcEvents[s] = << >>
    /\ svcEvents' = [svcEvents EXCEPT ![s] = <<[type |-> "Update", obj |-> svc[s]]>>]
    /\ UNCHANGED <<cluster, podEvents, nodeEvents, state, queue, wk, sy, balancers, bounds>>

-----------------------------------------------------------------------------
(* processEvents: one goroutine handles the notifications one at a time.   *)

\* lastKnownServices after an event: only an Add, and only when there is no
\* entry, so that syncHandler still sees the labels it synced last.
Remember(old, e) == IF e.type = "Add" /\ old = Absent THEN e.obj ELSE old

handleServiceEvent(s) ==
    /\ svcEvents[s] # << >>
    /\ LET e == Head(svcEvents[s]) IN
         /\ stServices' = [stServices EXCEPT ![s] = IF e.type = "Delete" THEN Absent ELSE e.obj]
         /\ lastKnown' = [lastKnown EXCEPT ![s] = Remember(@, e)]
    /\ svcEvents' = [svcEvents EXCEPT ![s] = Tail(@)]
    /\ dirty' = dirty \cup {s}
    /\ UNCHANGED <<cluster, podEvents, nodeEvents, stPods, stUpstreams, processing,
                   waiting, wk, sy, balancers, bounds>>

\* enqueueUpstreamsForPod: the registered services that select one of the pods.
ServicesOf(P) == {s \in Services : /\ stServices[s] # Absent
                                   /\ \E p \in P : Selects(stServices[s], p)}

\* Mutant of EventPods: the deletion of a pod enqueues nothing.
EventPodsNoDelete(p, e) ==
    IF e.type = "Delete" THEN {}
    ELSE {e.obj} \cup (IF e.type = "Update" THEN {stPods[p]} \ {Absent} ELSE {})

\* The pod objects whose services an event of pod p concerns: after an Update
\* also the object it replaces, whose labels may have been others.
EventPods(p, e) == {e.obj} \cup (IF e.type = "Update" THEN {stPods[p]} \ {Absent} ELSE {})

handlePodEvent(p) ==
    /\ podEvents[p] # << >>
    /\ LET e == Head(podEvents[p]) IN
         /\ stPods' = [stPods EXCEPT ![p] = IF e.type = "Delete" THEN Absent ELSE e.obj]
         /\ dirty' = dirty \cup ServicesOf(EventPods(p, e))
    /\ podEvents' = [podEvents EXCEPT ![p] = Tail(@)]
    /\ UNCHANGED <<cluster, svcEvents, nodeEvents, stServices, stUpstreams, lastKnown,
                   processing, waiting, wk, sy, balancers, bounds>>

\* Mutant of PodsOn: node events are ignored.
PodsOnNone(n) == {}

\* enqueueUpstreamsForNode goes through the pods the event loop has seen.
PodsOn(n) == {stPods[p] : p \in {q \in Pods : stPods[q] # Absent /\ stPods[q].node = n}}

\* state.Nodes, which nothing reads, is left out.
handleNodeEvent(n) ==
    /\ nodeEvents[n] # << >>
    /\ nodeEvents' = [nodeEvents EXCEPT ![n] = Tail(@)]
    /\ dirty' = dirty \cup ServicesOf(PodsOn(n))
    /\ UNCHANGED <<cluster, svcEvents, podEvents, state, processing, waiting, wk, sy,
                   balancers, bounds>>

processEvents == \/ \E s \in Services : handleServiceEvent(s)
                 \/ \E p \in Pods : handlePodEvent(p)
                 \/ \E n \in Nodes : handleNodeEvent(n)

-----------------------------------------------------------------------------
(* The work queue (client-go): dirty keys that no worker has are queued, a *)
(* key that is being processed waits for Done, a failed key for its        *)
(* backoff.                                                                *)

\* Mutant of Get: a key that another worker has is handed out again.
GetTwice(w, s) ==
    /\ wk[w].pc = "idle"
    /\ s \in dirty
    /\ dirty' = dirty \ {s}
    /\ processing' = processing \cup {s}
    /\ wk' = [wk EXCEPT ![w] = [IdleWorker EXCEPT !.pc = "get", !.key = s]]
    /\ UNCHANGED <<cluster, events, state, waiting, sy, balancers, bounds>>

Get(w, s) ==
    /\ wk[w].pc = "idle"
    /\ s \in dirty \ processing
    /\ dirty' = dirty \ {s}
    /\ processing' = processing \cup {s}
    /\ wk' = [wk EXCEPT ![w] = [IdleWorker EXCEPT !.pc = "get", !.key = s]]
    /\ UNCHANGED <<cluster, events, state, waiting, sy, balancers, bounds>>

BackoffElapsed(s) ==
    /\ s \in waiting
    /\ waiting' = waiting \ {s}
    /\ dirty' = dirty \cup {s}
    /\ UNCHANGED <<cluster, events, state, processing, wk, sy, balancers, bounds>>

\* Mutant of Retry: a failed key is forgotten.
RetryNever(w) == {}

\* Mutant of Retry: AddRateLimited whatever syncHandler returned.
RetryAlways(w) == {wk[w].key}

\* The end of processNextItem: Forget or AddRateLimited, then Done.
Retry(w) == IF wk[w].pc = "fail" THEN {wk[w].key} ELSE {}

\* Mutant of processNextItem: Done is called only after a success.
DoneOnSuccess(w) ==
    /\ wk[w].pc \in {"done", "fail"}
    /\ waiting' = waiting \cup Retry(w)
    /\ processing' = IF wk[w].pc = "done" THEN processing \ {wk[w].key} ELSE processing
    /\ wk' = [wk EXCEPT ![w] = IdleWorker]
    /\ UNCHANGED <<cluster, events, state, dirty, sy, balancers, bounds>>

processNextItem(w) ==
    /\ wk[w].pc \in {"done", "fail"}
    /\ waiting' = waiting \cup Retry(w)
    /\ processing' = processing \ {wk[w].key}
    /\ wk' = [wk EXCEPT ![w] = IdleWorker]
    /\ UNCHANGED <<cluster, events, state, dirty, sy, balancers, bounds>>

-----------------------------------------------------------------------------
(* syncHandler, one step per access to shared state.                       *)

\* A lookup or a request may fail as long as the bound on faults allows it.
Fault == faults < MaxFaults /\ faults' = faults + 1
NoFault == faults' = faults

\* Steps that change nothing but the locals of worker w and, maybe, faults.
WorkerOnly(w, rec) ==
    /\ wk' = [wk EXCEPT ![w] = rec]
    /\ UNCHANGED <<cluster, events, state, queue, sy, balancers, changes, restarts>>

Goto(w, pc) == [wk[w] EXCEPT !.pc = pc]

\* The error path of a lister or load balancer call.
CallFails(w) == Fault /\ WorkerOnly(w, Goto(w, "fail"))

GetService(w) ==
    /\ wk[w].pc = "get"
    /\ NoFault
    /\ WorkerOnly(w, [wk[w] EXCEPT !.pc = "last", !.svc = svc[wk[w].key]])

\* The old upstream must be drained when the labels now name another one.
MustDrain(last, new) == Target(last) # Target(new) /\ Named(last)

\* Where syncHandler goes once it has read lastKnownServices[key].
AfterLast(new, last) ==
    IF new = Absent
    THEN IF last = Absent THEN "done" ELSE IF Named(last) THEN "check" ELSE "forget"
    ELSE IF last # Absent /\ MustDrain(last, new) THEN "check" ELSE "record"

\* Mutant of ReadLast: a missing entry is read as the zero Service of Go's map.
ReadLastZero(w) ==
    /\ wk[w].pc = "last"
    /\ NoFault
    /\ LET last == IF lastKnown[wk[w].key] # Absent THEN lastKnown[wk[w].key]
                   ELSE [lb |-> "", up |-> "", sel |-> {}, port |-> 0]
       IN WorkerOnly(w, [wk[w] EXCEPT !.pc = AfterLast(wk[w].svc, last), !.last = last,
                           !.cont = IF wk[w].svc = Absent THEN "forget" ELSE "record"])

ReadLast(w) ==
    /\ wk[w].pc = "last"
    /\ NoFault
    /\ LET last == lastKnown[wk[w].key] IN
         WorkerOnly(w, [wk[w] EXCEPT !.pc = AfterLast(wk[w].svc, last), !.last = last,
                          !.cont = IF wk[w].svc = Absent THEN "forget" ELSE "record"])

\* handleServiceDeletion: the services other than s that the lister has on t.
Others(s, t) == {o \in Services \ {s} : svc[o] # Absent /\ Target(svc[o]) = t}

\* Another service keeps the upstream: sync that one instead of draining.
HandOver(w, o) ==
    /\ wk[w].pc = "check"
    /\ o \in Others(wk[w].key, Target(wk[w].last))
    /\ NoFault
    /\ WorkerOnly(w, [wk[w] EXCEPT !.pc = "build", !.cur = svc[o], !.curKey = o])

\* Mutant of Drain: state.Upstreams keeps the drained upstream.
DrainKeepsState(w) ==
    /\ wk[w].pc = "check"
    /\ LET t == Target(wk[w].last) IN
         /\ Others(wk[w].key, t) = {}
         /\ wk' = [wk EXCEPT ![w].pc = "push", ![w].to = t, ![w].want = Empty]
    /\ UNCHANGED <<cluster, events, state, queue, sy, balancers, bounds>>

Drain(w) ==
    /\ wk[w].pc = "check"
    /\ LET t == Target(wk[w].last) IN
         /\ Others(wk[w].key, t) = {}
         /\ stUpstreams' = [stUpstreams EXCEPT ![t] = Absent]
         /\ wk' = [wk EXCEPT ![w].pc = "push", ![w].to = t, ![w].want = Empty]
    /\ UNCHANGED <<cluster, events, stServices, stPods, lastKnown, queue, sy, balancers, bounds>>

\* ListServices or GetPodsForSelector fails.
ListFails(w) == /\ wk[w].pc \in {"check", "build", "merge"}
                /\ wk[w].pc = "build" => Named(wk[w].cur)
                /\ CallFails(w)

\* Mutant of ForgetService: lastKnownServices keeps the deleted service.
ForgetStateOnly(w) ==
    /\ wk[w].pc = "forget"
    /\ stServices' = [stServices EXCEPT ![wk[w].key] = Absent]
    /\ wk' = [wk EXCEPT ![w].pc = "done"]
    /\ UNCHANGED <<cluster, events, stPods, stUpstreams, lastKnown, queue, sy, balancers, bounds>>

\* The service is gone and its upstream drained: forget it.
ForgetService(w) ==
    /\ wk[w].pc = "forget"
    /\ lastKnown' = [lastKnown EXCEPT ![wk[w].key] = Absent]
    /\ stServices' = [stServices EXCEPT ![wk[w].key] = Absent]
    /\ wk' = [wk EXCEPT ![w].pc = "done"]
    /\ UNCHANGED <<cluster, events, stPods, stUpstreams, queue, sy, balancers, bounds>>

\* Mutant of RecordService: lastKnownServices is only written by events.
RecordStateOnly(w) ==
    /\ wk[w].pc = "record"
    /\ stServices' = [stServices EXCEPT ![wk[w].key] = wk[w].svc]
    /\ wk' = [wk EXCEPT ![w].pc = "build", ![w].cur = wk[w].svc,
                        ![w].curKey = wk[w].key, ![w].cont = "done"]
    /\ UNCHANGED <<cluster, events, stPods, stUpstreams, lastKnown, queue, sy, balancers, bounds>>

RecordService(w) ==
    /\ wk[w].pc = "record"
    /\ lastKnown' = [lastKnown EXCEPT ![wk[w].key] = wk[w].svc]
    /\ stServices' = [stServices EXCEPT ![wk[w].key] = wk[w].svc]
    /\ wk' = [wk EXCEPT ![w].pc = "build", ![w].cur = wk[w].svc,
                        ![w].curKey = wk[w].key, ![w].cont = "done"]
    /\ UNCHANGED <<cluster, events, stPods, stUpstreams, queue, sy, balancers, bounds>>

-----------------------------------------------------------------------------
(* syncUpstreamsForService(cur): own backends, then those of the services  *)
(* that share the upstream, then the load balancer.  It returns to cont.   *)

BuildOwn(w) ==
    /\ wk[w].pc = "build"
    /\ NoFault
    /\ LET o == wk[w].cur IN
         \/ /\ ~Named(o) \/ o.port = 0
            /\ WorkerOnly(w, Goto(w, wk[w].cont))
         \/ /\ Named(o) /\ BuildFails(o)
            /\ WorkerOnly(w, Goto(w, "fail"))
         \/ /\ Named(o) /\ o.port # 0 /\ ~BuildFails(o)
            /\ WorkerOnly(w, [wk[w] EXCEPT !.pc = "merge", !.to = Target(o),
                                           !.want = Built([s \in {wk[w].curKey} |-> o])])

\* The upstream with the backends of all its services, as the lister has them.
Merged(w) == mergeBackends(wk[w].want,
                           Built([o \in Others(wk[w].curKey, wk[w].to) |-> svc[o]]))

MergeShared(w) ==
    /\ wk[w].pc = "merge"
    /\ LET t == wk[w].to
           b == Merged(w)
       IN \/ /\ \E o \in Others(wk[w].curKey, t) : BuildFails(svc[o])
             /\ NoFault
             /\ WorkerOnly(w, Goto(w, "fail"))
          \/ /\ \A o \in Others(wk[w].curKey, t) : ~BuildFails(svc[o])
             /\ SafetyNet(t[1], b)
             /\ NoFault
             /\ WorkerOnly(w, Goto(w, wk[w].cont))
          \/ /\ \A o \in Others(wk[w].curKey, t) : ~BuildFails(svc[o])
             /\ ~SafetyNet(t[1], b)
             /\ stUpstreams' = [stUpstreams EXCEPT ![t] = OrDefault(t[1], b)]
             /\ wk' = [wk EXCEPT ![w].pc = "push", ![w].want = OrDefault(t[1], b)]
             /\ UNCHANGED <<cluster, events, stServices, stPods, lastKnown, queue, sy,
                            balancers, bounds>>

-----------------------------------------------------------------------------
(* A call of the adapter: refreshCache answers from the listing that all   *)
(* upstreams of the load balancer share, while it is fresh, or fetches     *)
(* one; what was fetched is stored in a step of its own, so that writes of *)
(* other calls may come between.  Then the requests for the differences,   *)
(* after which invalidateCache forgets the listing.                        *)

Listing(lb) == [u \in Ups |-> nginx[<<lb, u>>]]

refreshCache(lb) == IF cache[lb] # Absent THEN cache[lb] ELSE Listing(lb)
Store(lb, list) == cache' = [cache EXCEPT ![lb] = list]
invalidateCache(lb) == cache' = [cache EXCEPT ![lb] = Absent]

\* The addresses a call writes: those whose weight differs from the listing.
Differing(want, list) == {x \in Addrs : want[x] # list[x]}
Write(b, want, D) == [x \in Addrs |-> IF x \in D THEN want[x] ELSE b[x]]

\* Writes, as the set of [to, addr, weight], that may be executed after all.
Lost(W) == IF Stragglers THEN SUBSET W ELSE {{}}
Writes(t, want, D) == {[to |-> t, addr |-> x, weight |-> want[x]] : x \in D}

\* syncLoadBalancerUpstream: without an adapter the call fails for good.
PushList(w) ==
    /\ wk[w].pc = "push"
    /\ NoFault
    /\ LET lb == wk[w].to[1] IN
         WorkerOnly(w, IF lb \notin LBs THEN Goto(w, "fail")
                       ELSE [wk[w] EXCEPT !.pc = IF cache[lb] = Absent THEN "store" ELSE "apply",
                                          !.list = refreshCache(lb)])

PushStore(w) ==
    /\ wk[w].pc = "store"
    /\ Store(wk[w].to[1], wk[w].list)
    /\ wk' = [wk EXCEPT ![w].pc = "apply"]
    /\ UNCHANGED <<cluster, events, state, queue, sy, nginx, late, bounds>>

\* What worker w writes.
Difference(w) == Differing(wk[w].want, wk[w].list[wk[w].to[2]])

\* The requests of worker w: of the differences, those in E are executed before
\* the call returns, and attempts of those in L may be executed later.
Send(w, E, L) ==
    /\ nginx' = [nginx EXCEPT ![wk[w].to] = Write(@, wk[w].want, E)]
    /\ late' = late \cup Writes(wk[w].to, wk[w].want, L)
    /\ IF Difference(w) = {} THEN UNCHANGED cache ELSE invalidateCache(wk[w].to[1])

\* Every request succeeded in the end, some perhaps after a lost attempt.
PushApply(w) ==
    /\ wk[w].pc = "apply"
    /\ \E L \in Lost(Difference(w)) :
         /\ IF L = {} THEN NoFault ELSE Fault
         /\ Send(w, Difference(w), L)
    /\ wk' = [wk EXCEPT ![w].pc = wk[w].cont, ![w].list = IdleWorker.list]
    /\ UNCHANGED <<cluster, events, state, queue, sy, changes, restarts>>

\* The listing could not be fetched; or some of the requests failed, or were
\* executed and their answers lost, or will be executed yet.
PushFails(w) ==
    /\ wk[w].to \in LBs \X Ups
    /\ \/ wk[w].pc = "push" /\ cache[wk[w].to[1]] = Absent /\ UNCHANGED balancers
       \/ /\ wk[w].pc = "apply"
          /\ Difference(w) # {}
          /\ \E E \in SUBSET Difference(w), L \in Lost(Difference(w)) : Send(w, E, L)
    /\ Fault
    /\ wk' = [wk EXCEPT ![w].pc = "fail", ![w].list = IdleWorker.list]
    /\ UNCHANGED <<cluster, events, state, queue, sy, changes, restarts>>

syncHandler(w) ==
    \/ GetService(w) \/ ReadLast(w)
    \/ \E o \in Services : HandOver(w, o)
    \/ Drain(w) \/ ListFails(w) \/ ForgetService(w) \/ RecordService(w)
    \/ BuildOwn(w) \/ MergeShared(w)
    \/ PushList(w) \/ PushStore(w) \/ PushApply(w) \/ PushFails(w)

-----------------------------------------------------------------------------
(* syncSingleLoadBalancer, by the ticker goroutines and by the initial     *)
(* SyncUpstreams.  desired and preserve are sets of upstream names: those  *)
(* in desiredState, and those in it with PreserveExistingBackends.         *)

SyncerOnly(r, rec) ==
    /\ sy' = [sy EXCEPT ![r] = rec]
    /\ UNCHANGED <<cluster, events, state, queue, wk, balancers, bounds>>

\* ListServices: the services as the lister has them now.
SyncList(r) ==
    /\ sy[r].pc = "idle"
    /\ \E lb \in SyncLBs[r] :
         SyncerOnly(r, [sy[r] EXCEPT !.pc = "register", !.lb = lb, !.snap = svc])

\* The services of the snapshot that carry the name of the load balancer.
OnLB(r) == {s \in Services : sy[r].snap[s] # Absent /\ sy[r].snap[s].lb = sy[r].lb}

\* Registered services of the load balancer that the snapshot does not have.
Gone(r) == {s \in Services \ OnLB(r) : stServices[s] # Absent /\ stServices[s].lb = sy[r].lb}

SyncRegister(r) ==
    /\ sy[r].pc = "register"
    /\ stServices' = [s \in Services |-> IF s \in OnLB(r) THEN sy[r].snap[s]
                                         ELSE IF s \in Gone(r) THEN Absent
                                         ELSE stServices[s]]
    /\ lastKnown' = [s \in Services |-> IF s \in OnLB(r) /\ lastKnown[s] = Absent
                                        THEN sy[r].snap[s] ELSE lastKnown[s]]
    /\ sy' = [sy EXCEPT ![r].pc = "build",
                        ![r].todo = {s \in OnLB(r) : sy[r].snap[s].up # ""}]
    /\ UNCHANGED <<cluster, events, stPods, stUpstreams, queue, wk, balancers, bounds>>

\* Mutant of PreserveToo: what was built before the failure is pushed.
PreserveIfFirst(r, u) == IF u \in sy[r].desired THEN sy[r].preserve
                         ELSE sy[r].preserve \cup {u}

\* A failed lookup makes the upstream preserved, whatever was built before.
PreserveToo(r, u) == sy[r].preserve \cup {u}

SyncBuildFails(r, s) ==
    /\ sy[r].pc = "build" /\ s \in sy[r].todo
    /\ LET u == sy[r].snap[s].up
           rec == [sy[r] EXCEPT !.todo = @ \ {s}, !.desired = @ \cup {u},
                                !.preserve = PreserveToo(r, u), !.failed = @ \cup {u}]
       IN \/ BuildFails(sy[r].snap[s]) /\ SyncerOnly(r, rec)
          \/ /\ Fault
             /\ sy' = [sy EXCEPT ![r] = rec]
             /\ UNCHANGED <<cluster, events, state, queue, wk, balancers, changes, restarts>>

\* What a build leaves in desiredState: a preserved upstream stays as it is.
SyncAdd(r, s) ==
    LET u == sy[r].snap[s].up IN
      IF u \in sy[r].preserve THEN sy[r].want
      ELSE [sy[r].want EXCEPT ![u] =
              mergeBackends(@, Built([k \in {s} |-> sy[r].snap[s]]))]

SyncBuild(r, s) ==
    /\ sy[r].pc = "build" /\ s \in sy[r].todo
    /\ ~BuildFails(sy[r].snap[s])
    /\ SyncerOnly(r, IF sy[r].snap[s].port = 0
                     THEN [sy[r] EXCEPT !.todo = @ \ {s}]
                     ELSE [sy[r] EXCEPT !.todo = @ \ {s},
                                        !.desired = @ \cup {sy[r].snap[s].up},
                                        !.want = SyncAdd(r, s)])

\* Upstreams the safety net preserves, besides those of failed lookups.
Kept(r) == {u \in sy[r].desired \ sy[r].preserve : SafetyNet(sy[r].lb, sy[r].want[u])}

\* Default backends and safety net, then state.Upstreams of this load balancer.
SyncDecide(r) ==
    /\ sy[r].pc = "build" /\ sy[r].todo = {}
    /\ LET lb == sy[r].lb
           keep == sy[r].preserve \cup Kept(r)
           want == [u \in Ups |-> IF u \in sy[r].desired \ keep
                                  THEN OrDefault(lb, sy[r].want[u]) ELSE Empty]
       IN /\ stUpstreams' = [t \in Targets |->
                               IF t[1] # lb \/ t[2] \in keep THEN stUpstreams[t]
                               ELSE IF t[2] \in sy[r].desired THEN want[t[2]] ELSE Absent]
          /\ sy' = [sy EXCEPT ![r].pc = "push", ![r].preserve = keep,
                              ![r].want = want, ![r].left = sy[r].desired \ keep]
    /\ UNCHANGED <<cluster, events, stServices, stPods, lastKnown, queue, wk, balancers, bounds>>

\* SyncAllUpstreams, first part: each desired upstream in turn.
SyncPushList(r, u) ==
    /\ sy[r].pc = "push" /\ u \in sy[r].left
    /\ LET lb == sy[r].lb IN
         SyncerOnly(r, [sy[r] EXCEPT !.pc = IF cache[lb] = Absent THEN "store" ELSE "apply",
                                     !.up = u, !.left = @ \ {u}, !.list = refreshCache(lb)])

SyncStore(r) ==
    /\ sy[r].pc = "store"
    /\ Store(sy[r].lb, sy[r].list)
    /\ sy' = [sy EXCEPT ![r].pc = IF sy[r].up = Absent THEN "prune" ELSE "apply"]
    /\ UNCHANGED <<cluster, events, state, queue, wk, nginx, late, bounds>>

\* The pass goes on to the next upstream whether or not requests failed; a
\* listing that fails is a call none of whose requests is executed.
SyncPushApply(r) ==
    /\ sy[r].pc = "apply"
    /\ LET t == <<sy[r].lb, sy[r].up>>
           want == sy[r].want[sy[r].up]
           D == Differing(want, sy[r].list[sy[r].up])
       IN /\ \E E \in SUBSET D, L \in Lost(D) :
               /\ IF E = D /\ L = {} THEN NoFault ELSE Fault
               /\ nginx' = [nginx EXCEPT ![t] = Write(@, want, E)]
               /\ late' = late \cup Writes(t, want, L)
          /\ IF D = {} THEN UNCHANGED cache ELSE invalidateCache(sy[r].lb)
    /\ sy' = [sy EXCEPT ![r].pc = "push", ![r].up = Absent,
                        ![r].list = IdleSyncer.list]
    /\ UNCHANGED <<cluster, events, state, queue, wk, changes, restarts>>

\* Second part: upstreams of the listing that are not desired lose their
\* backends, when prune_orphans is on.
Orphans(r) == Ups \ sy[r].desired

SyncPruneList(r) ==
    /\ sy[r].pc = "push" /\ sy[r].left = {}
    /\ LET lb == sy[r].lb IN
         SyncerOnly(r, IF lb \notin Prune THEN IdleSyncer
                       ELSE [sy[r] EXCEPT !.pc = IF cache[lb] = Absent THEN "store" ELSE "prune",
                                          !.list = refreshCache(lb)])

\* The removals in E are executed, those in S also confirmed: only then the
\* listing is forgotten.
SyncPruneApply(r) ==
    /\ sy[r].pc = "prune"
    /\ LET D == {ux \in Orphans(r) \X Addrs : sy[r].list[ux[1]][ux[2]] # 0}
       IN \E E \in SUBSET D, L \in Lost(D) : \E S \in SUBSET E :
            /\ IF S = D /\ L = {} THEN NoFault ELSE Fault
            /\ nginx' = [t \in LBs \X Ups |->
                 IF t[1] # sy[r].lb THEN nginx[t]
                 ELSE [x \in Addrs |-> IF <<t[2], x>> \in E THEN 0 ELSE nginx[t][x]]]
            /\ late' = late \cup {[to |-> <<sy[r].lb, ux[1]>>, addr |-> ux[2], weight |-> 0] :
                                    ux \in L}
            /\ IF S = {} THEN UNCHANGED cache ELSE invalidateCache(sy[r].lb)
    /\ sy' = [sy EXCEPT ![r] = IdleSyncer]
    /\ UNCHANGED <<cluster, events, state, queue, wk, changes, restarts>>

syncSingleLoadBalancer(r) ==
    \/ SyncList(r) \/ SyncRegister(r)
    \/ \E s \in Services : SyncBuildFails(r, s) \/ SyncBuild(r, s)
    \/ SyncDecide(r)
    \/ \E u \in Ups : SyncPushList(r, u)
    \/ SyncStore(r) \/ SyncPushApply(r) \/ SyncPruneList(r) \/ SyncPruneApply(r)

-----------------------------------------------------------------------------
(* What happens to a load balancer and its listing besides.                *)

\* Mutant of CacheExpires: only invalidateCache ends a listing.
CacheNeverExpires(lb) == FALSE /\ UNCHANGED vars

\* The two seconds of a cached listing are over.
CacheExpires(lb) ==
    /\ cache[lb] # Absent
    /\ cache' = [cache EXCEPT ![lb] = Absent]
    /\ UNCHANGED <<cluster, events, state, queue, wk, sy, nginx, late, bounds>>

\* The load balancer executes a request the client has given up on.
CarryOut(l) ==
    /\ nginx' = [nginx EXCEPT ![l.to][l.addr] = l.weight]
    /\ late' = late \ {l}
    /\ UNCHANGED <<cluster, events, state, queue, wk, sy, cache, bounds>>

Outside == (\E lb \in LBs : CacheExpires(lb)) \/ (\E l \in late : CarryOut(l))

-----------------------------------------------------------------------------
\* The process stops (crash, or the lease is lost) and the next one starts:
\* all of the controller's state is gone, the informers list everything again.
AddAll(f) == [k \in DOMAIN f |-> IF f[k] = Absent THEN << >>
                                 ELSE <<[type |-> "Add", obj |-> f[k]]>>]

Restart ==
    /\ restarts < MaxRestarts
    /\ restarts' = restarts + 1
    /\ svcEvents' = AddAll(svc) /\ podEvents' = AddAll(pod) /\ nodeEvents' = AddAll(node)
    /\ stServices' = [s \in Services |-> Absent]
    /\ stPods' = [p \in Pods |-> Absent]
    /\ stUpstreams' = [t \in Targets |-> Absent]
    /\ lastKnown' = [s \in Services |-> Absent]
    /\ dirty' = {} /\ processing' = {} /\ waiting' = {}
    /\ wk' = [w \in Workers |-> IdleWorker]
    /\ sy' = [r \in Syncers |-> IdleSyncer]
    /\ cache' = [lb \in LBs |-> Absent]
    /\ UNCHANGED <<cluster, nginx, late, changes, faults>>

Environment == \/ \E s \in Services : ChangeService(s) \/ ResyncService(s)
               \/ \E p \in Pods : ChangePod(p)
               \/ \E n \in Nodes : ChangeNode(n)
               \/ Outside

Reactive == \/ processEvents
            \/ \E s \in Services : BackoffElapsed(s)
            \/ \E w \in Workers : \/ \E s \in Services : Get(w, s)
                                  \/ syncHandler(w)
                                  \/ processNextItem(w)

Periodic == \E r \in Syncers : syncSingleLoadBalancer(r)

Next == Environment \/ Reactive \/ Periodic \/ Restart

Spec == Init /\ [][Next]_vars

\* The event driven half alone: what it guarantees between two ticks.
ReactiveSpec == Init /\ [][Environment \/ Reactive \/ Restart]_vars

\* The event loop and the workers never stop; the queue is first in first out,
\* so a queued key is taken although workers keep picking others; the tickers
\* keep ticking, and time passes for a cached listing.  Nothing is asked of the
\* cluster.
ReactiveFairness ==
    /\ WF_vars(processEvents)
    /\ \A s \in Services : /\ WF_vars(BackoffElapsed(s))
                           /\ SF_vars(\E w \in Workers : Get(w, s))
    /\ \A w \in Workers : WF_vars(syncHandler(w) \/ processNextItem(w))

Fairness == /\ ReactiveFairness
            /\ \A r \in Syncers : WF_vars(syncSingleLoadBalancer(r))
            /\ \A lb \in LBs : WF_vars(CacheExpires(lb))

FairSpec == Spec /\ Fairness
FairReactiveSpec == ReactiveSpec /\ ReactiveFairness

-----------------------------------------------------------------------------
(* Properties.                                                             *)

WorkerType ==
    [pc : WorkerPCs, key : Services \cup {Absent}, svc : ServiceObjs \cup {Absent},
     last : ServiceObjs \cup {Absent}, cur : ServiceObjs \cup {Absent},
     curKey : Services \cup {Absent}, cont : {"record", "forget", "done"},
     to : Targets \cup {Absent}, want : Backends, list : [Ups -> Backends]]

SyncerType ==
    [pc : SyncerPCs, lb : LBs \cup {Absent}, snap : [Services -> ServiceObjs \cup {Absent}],
     todo : SUBSET Services, desired : SUBSET Ups, preserve : SUBSET Ups,
     failed : SUBSET Ups, want : [Ups -> Backends], left : SUBSET Ups,
     up : Ups \cup {Absent}, list : [Ups -> Backends]]

\* Every variable keeps its type, the locals of the actors included.
TypeOK ==
    /\ svc \in [Services -> ServiceObjs \cup {Absent}]
    /\ pod \in [Pods -> PodSet \cup {Absent}]
    /\ node \in [Nodes -> NodeSet \cup {Absent}]
    /\ svcEvents \in [Services -> Seq(Events(ServiceObjs))]
    /\ podEvents \in [Pods -> Seq(Events(PodSet))]
    /\ nodeEvents \in [Nodes -> Seq(Events(NodeSet))]
    /\ stServices \in [Services -> ServiceObjs \cup {Absent}]
    /\ stPods \in [Pods -> PodSet \cup {Absent}]
    /\ stUpstreams \in [Targets -> Backends \cup {Absent}]
    /\ lastKnown \in [Services -> ServiceObjs \cup {Absent}]
    /\ dirty \in SUBSET Services /\ processing \in SUBSET Services
    /\ waiting \in SUBSET Services
    /\ wk \in [Workers -> WorkerType]
    /\ sy \in [Syncers -> SyncerType]
    /\ nginx \in [LBs \X Ups -> Backends]
    /\ cache \in [LBs -> [Ups -> Backends] \cup {Absent}]
    /\ late \subseteq [to : LBs \X Ups, addr : Addrs, weight : Nat]
    /\ changes \in 0..MaxChanges /\ faults \in 0..MaxFaults
    /\ restarts \in 0..MaxRestarts

Busy(w) == wk[w].pc # "idle"

\* Work on service s that is still to come: an event not yet handled, a queued
\* key or a retry.
Pending(s) == svcEvents[s] # << >> \/ s \in dirty \cup waiting

\* A service is never on two workers, and Done frees exactly the key that was
\* taken: c.queue protects lastKnownServices[key] between its read and its write.
OneWorkerPerKey ==
    /\ \A v, w \in Workers : Busy(v) /\ Busy(w) /\ v # w => wk[v].key # wk[w].key
    /\ processing = {wk[w].key : w \in {v \in Workers : Busy(v)}}

\* Once nothing is pending for a service and no worker has it, both registries
\* (state.Services, from which pod and node events find their services, and
\* lastKnownServices, from which a deletion finds what to drain) agree with the
\* lister: no change of a service is lost, whatever the order of events, syncs
\* and restarts.
RegistryAgrees ==
    \A s \in Services :
        \/ Pending(s) \/ s \in processing
        \/ lastKnown[s] = svc[s] /\ stServices[s] = svc[s]

\* A service comes back only after its deletion has been dealt with.  The code
\* relies on it: the entry of a service that comes back earlier is forgotten with
\* the old one, and its next deletion finds nothing to drain.
ReturnsSettled(s) ==
    svc[s] = Absent => lastKnown[s] = Absent /\ ~Pending(s) /\ s \notin processing

\* The event driven half in a cluster that keeps to it.
CalmEnvironment == \/ \E s \in Services : \/ ReturnsSettled(s) /\ ChangeService(s)
                                          \/ ResyncService(s)
                   \/ \E p \in Pods : ChangePod(p)
                   \/ \E n \in Nodes : ChangeNode(n)
                   \/ Outside
CalmSpec == Init /\ [][CalmEnvironment \/ Reactive \/ Restart]_vars

Quiet == /\ \A s \in Services : ~Pending(s) /\ s \notin processing
         /\ \A p \in Pods : podEvents[p] = << >>
         /\ \A n \in Nodes : nodeEvents[n] = << >>
         /\ \A r \in Syncers : sy[r].pc = "idle"

\* The services on upstream t that contribute backends.
On(t) == {s \in Services : svc[s] # Absent /\ Target(svc[s]) = t /\ svc[s].port # 0}

\* The backends of the services of D, as the lister has them.
BuiltOf(D) == Built([s \in D |-> svc[s]])

\* What the cluster asks for on upstream t.
Wanted(t) == IF On(t) = {} THEN Empty ELSE OrDefault(t[1], BuiltOf(On(t)))

\* A pod of upstream t is on a node that is not in the cache: nothing can be built.
Unreadable(t) == \E s \in On(t) : BuildFails(svc[s])

\* Upstream t has services, no backends, and is not to become empty.
NetKeeps(t) == On(t) # {} /\ SafetyNet(t[1], BuiltOf(On(t)))

\* What GetState reports for upstream t.
Reported(t) == IF stUpstreams[t] = Absent THEN Empty ELSE stUpstreams[t]

\* The load balancer serves what the cluster asks for; on an upstream the safety
\* net keeps, still what the last sync pushed, unless its requests failed.
Converged(t) == \/ Unreadable(t)
                \/ ~NetKeeps(t) /\ nginx[t] = Wanted(t)
                \/ NetKeeps(t) /\ (faults = 0 => nginx[t] = Reported(t))

\* When the controller has nothing left to do, every upstream that can be built
\* is served with exactly the backends of the services that now target it, none
\* if it lost its last service: no event, relabelling, shared upstream, failed
\* request or moved pod leaves a difference behind.  An upstream whose services
\* have no ready pod, where the safety net is on, serves exactly what the last
\* sync gave it; these may be backends of a service deleted since.
QuietConverged == Quiet => \A t \in LBs \X Ups : Converged(t)

\* What GetState reports for an upstream is what the load balancer serves, once
\* the controller is quiet, although syncHandler writes state.Upstreams before the
\* load balancer and a request may fail in between.
QuietStateMatches == Quiet => \A t \in LBs \X Ups : nginx[t] = Reported(t)

KeepsSomeStep ==
    \A t \in LBs \X Ups :
      nginx[t] # Empty /\ nginx'[t] = Empty /\ ~EmptyAllowed(t[1])
        => \/ \E w \in Workers : /\ wk[w].pc = "apply" /\ wk'[w] # wk[w]
                                 /\ wk[w].to = t /\ wk[w].cur = Absent
           \/ \E r \in Syncers : sy[r].pc = "prune" /\ sy'[r] # sy[r]

\* With allow_empty_upstream off, only the drain of a departed service or a
\* prune takes the last backend of an upstream away; the sync of a service never
\* does, whatever happens to its pods meanwhile.
PushKeepsSome == [][KeepsSomeStep]_vars

FailStaticStep ==
    \A r \in Syncers : \A u \in sy[r].failed :
      sy'[r] # sy[r] => nginx'[<<sy[r].lb, u>>] = nginx[<<sy[r].lb, u>>]

\* Fail static: a reconciliation pass that could not look up a pod or a node of
\* one service of an upstream does not write that upstream, although the other
\* services of the upstream were read without error, before it or after it.
FailStatic == [][FailStaticStep]_vars

\* Addresses the load balancer serves on t although no service on t has their
\* port: they were pushed for a service that is gone or moved away.
LeftBehind(t) ==
    {x \in Addrs : /\ nginx[t][x] # 0
                   /\ ~\E s \in Services : /\ svc[s] # Absent /\ Target(svc[s]) = t
                                           /\ svc[s].port = x[2]}

\* "Deleting a Service from Kubernetes always drains and removes its backends
\* from the load balancer" (README): once the cluster stops changing, backends
\* of services that are gone disappear for good.
DeletedDrained == <>[](\A t \in LBs \X Ups : LeftBehind(t) = {})

\* What syncHandler cannot do for s until somebody changes the cluster or the
\* configuration: the labels, now or when they were last synced, name a load
\* balancer without an adapter, or an upstream with a service one of whose pods
\* is on a node that is not known.
Hopeless(s) ==
    \E o \in {svc[s], lastKnown[s]} \ {Absent} :
      /\ Named(o)
      /\ o.lb \notin LBs \/ \E k \in Services : /\ svc[k] # Absent /\ BuildFails(svc[k])
                                                /\ Target(svc[k]) = Target(o)

\* Retries end: once the cluster stops changing, every key leaves the queue,
\* after whatever failures, but for those that cannot succeed, which are retried
\* for ever.
RetriesEnd == <>[](\A s \in dirty \cup waiting \cup processing : Hopeless(s))

\* The periodic two-way reconciliation makes every load balancer converge once
\* the cluster stops changing, whatever races between workers, reconcilers, stale
\* listings, late requests and faults came before.  It is claimed where no safety
\* net keeps backends, and of upstreams that can be built.
EventuallyConverged ==
    <>[](\A t \in LBs \X Ups : \/ ~EmptyAllowed(t[1]) /\ DefaultBackend(t[1]) = Absent
                               \/ Unreadable(t) \/ nginx[t] = Wanted(t))

-----------------------------------------------------------------------------
\* The engine without its mechanism: a key is due as long as an event, the queue
\* or a backoff holds it.
Abstract == INSTANCE Engine WITH
    Keys <- Services, Values <- ServiceObjs, Nothing <- Absent,
    now <- svc, known <- lastKnown,
    todo <- {s \in Services : Pending(s)}, running <- processing

\* The event loop, the queue with its backoff and the workers together implement
\* the follower of Engine: no key that is due is dropped or taken twice, and a
\* worker reports success only when it knows what the lister holds, across
\* relabelling, failures and restarts.
EngineRefined == Abstract!Spec

\* Every key that is due is taken in the end, and the work on it ends, although
\* it changes again, fails or waits for its backoff meanwhile.
EngineServes == Abstract!Fairness
=============================================================================
