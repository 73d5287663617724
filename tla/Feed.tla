-------------------------------- MODULE Feed --------------------------------
(***************************************************************************)
(* The Kubernetes adapter (internal/adapters/kubernetes/client.go): from   *)
(* the objects of the API server, through the informers' caches and their  *)
(* notifications, to the channels that Controller.processEvents reads.     *)
(*                                                                         *)
(* The API server and client-go (reflector, DeltaFIFO, shared informer)    *)
(* are external: a connected reflector queues a delta for each change; one *)
(* that lost its watch misses changes, lists again, and queues what it     *)
(* found, with a tombstone for each object that is gone.  A delta changes  *)
(* the cache and calls the handler of its kind, whose events wait in the   *)
(* order of the calls.                                                     *)
(***************************************************************************)
EXTENDS Integers, FiniteSets, Sequences, SequencesExt, Functions

CONSTANTS
    Services, Pods, Nodes,      \* keys, by kind
    Objs,                       \* the objects that a key may have
    Absent,
    Cap,                        \* capacity of a channel (500, 2000, 500)
    MaxChanges, MaxBreaks       \* bounds on changes and on lost watches

ASSUME CapAssumption == Cap \in Nat \ {0}
ASSUME KeysAssumption ==
    /\ IsFiniteSet(Services) /\ IsFiniteSet(Pods) /\ IsFiniteSet(Nodes)
    /\ Services \cap Pods = {} /\ Services \cap Nodes = {} /\ Pods \cap Nodes = {}

VARIABLES
    api,                \* the objects of the API server
    started,            \* startOnce: the informers run
    conn, deltas,       \* per kind: the reflector's watch, and its queue
    initial,            \* per kind: deltas of the first list left, -1 before it
    cache,              \* the indexers, behind the listers
    handlers,           \* kinds whose handlers are registered
    notes,              \* per kind: the events of handler calls that are pending
    events,             \* per kind: the channel
    seen,               \* what processEvents put into c.state
    ctx,                \* the context of Controller.Start is alive
    changes, breaks     \* counters behind the bounds

informer == <<started, conn, deltas, initial, cache>>
vars == <<api, informer, handlers, notes, events, seen, ctx, changes, breaks>>

Kinds == {"service", "pod", "node"}
KeysOf(kind) == CASE kind = "service" -> Services [] kind = "pod" -> Pods [] OTHER -> Nodes
Keys == Services \cup Pods \cup Nodes
KindOf(k) == IF k \in Services THEN "service" ELSE IF k \in Pods THEN "pod" ELSE "node"

Init ==
    /\ api \in [Keys -> UNION {Objs[k] : k \in Keys} \cup {Absent}]
    /\ \A k \in Keys : api[k] \in Objs[k] \cup {Absent}
    /\ started = FALSE
    /\ conn = [kind \in Kinds |-> FALSE]
    /\ deltas = [kind \in Kinds |-> << >>]
    /\ initial = [kind \in Kinds |-> -1]
    /\ cache = [k \in Keys |-> Absent]
    /\ handlers = {}
    /\ notes = [kind \in Kinds |-> << >>]
    /\ events = [kind \in Kinds |-> << >>]
    /\ seen = [k \in Keys |-> Absent]
    /\ ctx = TRUE
    /\ changes = 0 /\ breaks = 0

-----------------------------------------------------------------------------
(* How objects are read.                                                   *)

HasNodePort(o) == o.type \in {"LoadBalancer", "NodePort"}

isMLBService(o) == /\ {"mlb-loadbalancer-name", "mlb-upstream-name", "mlb-port"} \subseteq o.labels
                   /\ HasNodePort(o)

\* A label that is not a port of 1..65535 gives 0, never the port of the spec.
getNodePort(o) ==
    IF "mlb-port" \in o.labels THEN IF o.port \in 1..65535 THEN o.port ELSE 0
    ELSE IF HasNodePort(o) /\ o.specPort \in 1..65535 THEN o.specPort ELSE 0

mapService(o) == [up |-> o.up, port |-> getNodePort(o)]

\* The Ready condition decides when there is one; a terminating pod is not ready.
isPodReady(o) ==
    /\ ~o.terminating
    /\ IF o.condition # "none" THEN o.condition = "True"
       ELSE o.phase = "Running" /\ o.containers # {} /\ o.containers = {"ready"}

mapPod(o) == [ready |-> isPodReady(o), node |-> o.node]

\* The first address of each type.
FirstOf(o, type) == LET i == SelectInSeq(o.addresses, LAMBDA a : a.type = type)
                    IN  IF i = 0 THEN "" ELSE o.addresses[i].ip
mapNode(o) == [internal |-> FirstOf(o, "InternalIP"), external |-> FirstOf(o, "ExternalIP")]

map(k, o) == CASE k \in Services -> mapService(o) [] k \in Pods -> mapPod(o) [] OTHER -> mapNode(o)

\* What GetService, ListServices, GetPodsForSelector and GetNodeByName have of k.
Lister(k, o) == IF o = Absent \/ (k \in Services /\ ~isMLBService(o)) THEN Absent ELSE map(k, o)

-----------------------------------------------------------------------------
(* The handlers: the events that a call sends, one or none.                *)

Event(k, type, o) == <<[key |-> k, type |-> type, obj |-> map(k, o)]>>

Managed(k, o) == k \in Services => isMLBService(o)

AddFunc(k, o) == IF Managed(k, o) THEN Event(k, "Add", o) ELSE << >>

\* Mutant of UpdateFunc: a service that is managed no longer is left alone.
UpdateManagedOnly(k, o, n) == IF Managed(k, n) THEN Event(k, "Update", n) ELSE << >>

\* Mutant of UpdateFunc: the Delete carries the new object.
DeleteOfNew(k, o, n) ==
    IF Managed(k, o) /\ ~Managed(k, n) THEN Event(k, "Delete", n)
    ELSE IF Managed(k, n) THEN Event(k, "Update", n) ELSE << >>

UpdateFunc(k, o, n) ==
    IF Managed(k, o) /\ ~Managed(k, n) THEN Event(k, "Delete", o)
    ELSE IF Managed(k, n) THEN Event(k, "Update", n) ELSE << >>

\* Mutant of DeleteFunc: the object of a tombstone is not taken out.
DeleteWithoutTombstone(k, o, tombstone) ==
    IF ~tombstone /\ Managed(k, o) THEN Event(k, "Delete", o) ELSE << >>

DeleteFunc(k, o, tombstone) == IF Managed(k, o) THEN Event(k, "Delete", o) ELSE << >>

ASSUME AbsentAssumption ==
    \A k \in Keys : \A o \in Objs[k] : o # Absent /\ map(k, o) # Absent

\* The informer calls the handler that fits.
Notify(k, o, n, tombstone) ==
    IF n = Absent THEN DeleteFunc(k, o, tombstone)
    ELSE IF o = Absent THEN AddFunc(k, n)
    ELSE UpdateFunc(k, o, n)

-----------------------------------------------------------------------------
(* The API server and the reflectors.                                      *)

Upsert(k, o) == [key |-> k, type |-> "Update", obj |-> o, tombstone |-> FALSE]
Gone(k, o, tombstone) == [key |-> k, type |-> "Delete", obj |-> o, tombstone |-> tombstone]

ChangeObject(k) ==
    /\ ctx /\ changes < MaxChanges /\ changes' = changes + 1
    /\ \E o \in (Objs[k] \cup {Absent}) \ {api[k]} :
         LET d == IF o = Absent THEN Gone(k, api[k], FALSE) ELSE Upsert(k, o)
         IN  /\ api' = [api EXCEPT ![k] = o]
             /\ deltas' = IF conn[KindOf(k)] THEN [deltas EXCEPT ![KindOf(k)] = Append(@, d)]
                          ELSE deltas
    /\ UNCHANGED <<started, conn, initial, cache, handlers, notes, events, seen, ctx, breaks>>

BreakWatch(kind) ==
    /\ ctx /\ conn[kind] /\ breaks < MaxBreaks /\ breaks' = breaks + 1
    /\ conn' = [conn EXCEPT ![kind] = FALSE]
    /\ UNCHANGED <<api, started, deltas, initial, cache, handlers, notes, events, seen, ctx, changes>>

\* What a delta or an event leaves of its object.
Left(d) == IF d.type = "Delete" THEN Absent ELSE d.obj

\* What the queue q leaves of k, when there was old before it.
Newest(q, k, old) == LET i == SelectLastInSeq(q, LAMBDA d : d.key = k)
                     IN  IF i = 0 THEN old ELSE Left(q[i])

\* The newest object of k that the queue or else the cache knows.
Known(k) == Newest(deltas[KindOf(k)], k, cache[k])

\* The orders in which the entries of a map may come.
Orders(S) == Bijection(1..Cardinality(S), S)

Relist(kind) ==
    /\ started /\ ctx /\ ~conn[kind]
    /\ LET found == {k \in KeysOf(kind) : api[k] # Absent}
           lost == {k \in KeysOf(kind) \ found : Known(k) # Absent}
       IN  \E f \in Orders(found), l \in Orders(lost) :
             LET list == [i \in DOMAIN f |-> Upsert(f[i], api[f[i]])]
                         \o [i \in DOMAIN l |-> Gone(l[i], Known(l[i]), TRUE)]
             IN  /\ deltas' = [deltas EXCEPT ![kind] = @ \o list]
                 /\ initial' = [initial EXCEPT ![kind] = IF @ = -1 THEN Len(list) ELSE @]
    /\ conn' = [conn EXCEPT ![kind] = TRUE]
    /\ UNCHANGED <<api, started, cache, handlers, notes, events, seen, ctx, changes, breaks>>

\* The informer takes a delta: the cache first, then the handler.
HandleDeltas(kind) ==
    /\ ctx /\ deltas[kind] # << >>
    /\ LET d == Head(deltas[kind])
           old == IF d.type = "Delete" THEN d.obj ELSE cache[d.key]
       IN  /\ cache' = [cache EXCEPT ![d.key] = Left(d)]
           /\ notes' = IF kind \in handlers
                       THEN [notes EXCEPT ![kind] = @ \o Notify(d.key, old, Left(d), d.tombstone)]
                       ELSE notes
    /\ deltas' = [deltas EXCEPT ![kind] = Tail(@)]
    /\ initial' = [initial EXCEPT ![kind] = IF @ > 0 THEN @ - 1 ELSE @]
    /\ UNCHANGED <<api, started, conn, handlers, events, seen, ctx, changes, breaks>>

-----------------------------------------------------------------------------
(* The adapter and the event loop.                                         *)

\* Start, by App.Start's StartInformers or by the first of the watches.
Start ==
    /\ ctx /\ ~started
    /\ started' = TRUE
    /\ UNCHANGED <<api, conn, deltas, initial, cache, handlers, notes, events, seen, ctx, changes, breaks>>

HasSynced == \A kind \in Kinds : initial[kind] = 0

\* AddEventHandler replays the cache as Adds, to a handler that comes late; for
\* what is not managed AddFunc sends nothing.
Register(kind) ==
    /\ ctx /\ kind \notin handlers
    /\ handlers' = handlers \cup {kind}
    /\ \E calls \in Orders({k \in KeysOf(kind) : cache[k] # Absent /\ AddFunc(k, cache[k]) # << >>}) :
         notes' = [notes EXCEPT ![kind] =
                     [i \in DOMAIN calls |-> AddFunc(calls[i], cache[calls[i]])[1]]]
    /\ UNCHANGED <<api, informer, events, seen, ctx, changes, breaks>>

\* Controller.Start: each watch ends in Start, which waits for all the caches.
WatchServices == Register("service")
WatchPods == "service" \in handlers /\ HasSynced /\ Register("pod")
WatchNodes == "pod" \in handlers /\ HasSynced /\ Register("node")

\* A handler waits for room in the channel, or for the end of the context.
Send(kind) ==
    /\ notes[kind] # << >>
    /\ \/ Len(events[kind]) < Cap /\ events' = [events EXCEPT ![kind] = Append(@, Head(notes[kind]))]
       \/ ~ctx /\ UNCHANGED events
    /\ notes' = [notes EXCEPT ![kind] = Tail(@)]
    /\ UNCHANGED <<api, informer, handlers, seen, ctx, changes, breaks>>

processEvents(kind) ==
    /\ ctx /\ events[kind] # << >>
    /\ LET e == Head(events[kind])
       IN  seen' = [seen EXCEPT ![e.key] = Left(e)]
    /\ events' = [events EXCEPT ![kind] = Tail(@)]
    /\ UNCHANGED <<api, informer, handlers, notes, ctx, changes, breaks>>

\* Leadership is lost or the process is told to stop.
Cancel ==
    /\ ctx /\ ctx' = FALSE
    /\ UNCHANGED <<api, informer, handlers, notes, events, seen, changes, breaks>>

Watches == WatchServices \/ WatchPods \/ WatchNodes

Next == \/ \E k \in Keys : ChangeObject(k)
        \/ \E kind \in Kinds : \/ BreakWatch(kind) \/ Relist(kind) \/ HandleDeltas(kind)
                               \/ Send(kind) \/ processEvents(kind)
        \/ Start \/ Watches \/ Cancel

\* Goroutines that can run do; a reflector that lost its watch lists again.
Spec == /\ Init /\ [][Next]_vars
        /\ WF_vars(Start) /\ WF_vars(Watches)
        /\ \A kind \in Kinds : /\ WF_vars(Relist(kind)) /\ WF_vars(HandleDeltas(kind))
                               /\ WF_vars(Send(kind)) /\ WF_vars(processEvents(kind))

-----------------------------------------------------------------------------
(* Properties.                                                             *)

\* The events that are on their way, sent or not.
Pending(kind) == events[kind] \o notes[kind]

\* The engine's own copy of services and pods, from which it finds what a pod or
\* a node concerns, follows the listers it builds upstreams from: it is only as
\* far behind as the events that are still on their way, whichever changes a lost
\* watch hid, and whether an object is deleted, replaced, or loses its labels
\* (the watch handlers of client.go, Controller.Start).
ReplicaFollows ==
    ctx => \A kind \in handlers : \A k \in KeysOf(kind) :
        Newest(Pending(kind), k, seen[k]) = Lister(k, cache[k])

\* As long as the context lives, what the engine knows becomes what the API
\* server has: no channel stays full, no handler misses what happened before it
\* was registered, no watch stays lost.
FeedSettles ==
    <>(~ctx) \/ <>[](\A k \in Keys : seen[k] = Lister(k, api[k]))

W == INSTANCE Watch WITH
       Channels <- Kinds, channel <- [k \in Keys |-> KindOf(k)], MayGain <- Services,
       view <- [k \in Keys |-> IF KindOf(k) \in handlers THEN Lister(k, cache[k]) ELSE Absent],
       stream <- [kind \in Kinds |-> Pending(kind)],
       alive <- ctx

\* The adapter keeps what the engine's model assumes of it: the listers change
\* only together with a notice, in order, and a Delete carries the object that
\* was announced last (ServiceNotice and ObjectNotice of Controller).
WatchRefined == W!Spec
=============================================================================
