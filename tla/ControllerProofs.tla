-------------------------- MODULE ControllerProofs --------------------------
(* Type correctness of Controller.                                         *)
EXTENDS Controller, FiniteSetTheorems, TLAPS

\* What pods contribute to services is a weight for every address.
LEMMA BuiltType == ASSUME NEW f, IsFiniteSet(DOMAIN f) PROVE Built(f) \in Backends
<1> SUFFICES ASSUME NEW x \in Addrs
             PROVE Cardinality({sp \in (DOMAIN f) \X Pods :
                      /\ f[sp[1]].port # 0
                      /\ sp[2] \in Serving(f[sp[1]])
                      /\ x \in AddrsOf(f[sp[1]], sp[2])}) \in Nat
  BY DEF Built, Backends
<1>1. IsFiniteSet((DOMAIN f) \X Pods)
  BY FS_Product, ObjectsAssumption
<1> QED BY <1>1, FS_Subset, FS_CardinalityType

\* No backends is a set of backends.
LEMMA EmptyType == Empty \in Backends
BY DEF Empty, Backends

\* Merging keeps the type: weights are added address by address.
LEMMA MergeType == ASSUME NEW a \in Backends, NEW b \in Backends
                   PROVE mergeBackends(a, b) \in Backends
BY DEF mergeBackends, Backends

\* Putting the default backend in keeps the type.
LEMMA DefaultType == ASSUME NEW lb, NEW b \in Backends PROVE OrDefault(lb, b) \in Backends
BY DefaultAssumption, SMT DEF OrDefault, DefaultBackend, DefaultBackends, Backends

\* Writing some of the addresses keeps the type.
LEMMA WriteType == ASSUME NEW a \in Backends, NEW b \in Backends, NEW D
                   PROVE Write(a, b, D) \in Backends
BY DEF Write, Backends

\* A service shares an upstream with finitely many others.
LEMMA OthersFinite == ASSUME NEW s, NEW t PROVE IsFiniteSet(Others(s, t))
BY FS_Subset, ObjectsAssumption DEF Others

USE DEF cluster, events, state, queue, bounds, balancers

\* NewController starts well typed.
LEMMA TypeInit == Init => TypeOK
<1> SUFFICES ASSUME Init PROVE TypeOK
  OBVIOUS
<1>1. IdleWorker \in WorkerType
  BY EmptyType DEF IdleWorker, WorkerType, WorkerPCs
<1>2. IdleSyncer \in SyncerType
  BY EmptyType DEF IdleSyncer, SyncerType, SyncerPCs
<1> QED BY <1>1, <1>2, EmptyType, BoundsAssumption DEF Init, TypeOK

\* A step that changes the locals of one worker only.
LEMMA TypeWorkerOnly ==
    ASSUME TypeOK, NEW w \in Workers, NEW rec \in WorkerType, WorkerOnly(w, rec),
           faults' \in 0..MaxFaults
    PROVE  TypeOK'
BY DEF TypeOK, WorkerOnly

\* The bound on faults is respected, whether or not a call fails.
LEMMA TypeFault == ASSUME TypeOK, Fault \/ NoFault PROVE faults' \in 0..MaxFaults
BY BoundsAssumption DEF TypeOK, Fault, NoFault

\* A change of a service and its notification are well typed.
LEMMA TypeChangeService == ASSUME TypeOK, NEW s \in Services, ChangeService(s) PROVE TypeOK'
<1>1. PICK n \in (SvcObjs[s] \cup {Absent}) \ {svc[s]} : \E e \in ServiceNotice(svc[s], n) :
           /\ svc' = [svc EXCEPT ![s] = n]
           /\ svcEvents' = [svcEvents EXCEPT ![s] = Append(@, e)]
  BY DEF ChangeService
<1>2. PICK e \in ServiceNotice(svc[s], n) :
           /\ svc' = [svc EXCEPT ![s] = n]
           /\ svcEvents' = [svcEvents EXCEPT ![s] = Append(@, e)]
  BY <1>1
<1>3. n \in ServiceObjs \cup {Absent}
  BY DEF ServiceObjs
<1>4. e \in Events(ServiceObjs)
  BY <1>3 DEF ServiceNotice, Events, TypeOK
<1>5. changes' \in 0..MaxChanges
  BY BoundsAssumption DEF ChangeService, TypeOK
<1>6. svc' \in [Services -> ServiceObjs \cup {Absent}]
  BY <1>2, <1>3 DEF TypeOK
<1>7. svcEvents' \in [Services -> Seq(Events(ServiceObjs))]
  BY <1>2, <1>4 DEF TypeOK
<1> QED BY <1>5, <1>6, <1>7 DEF TypeOK, ChangeService

\* A change of a pod and its notification are well typed.
LEMMA TypeChangePod == ASSUME TypeOK, NEW p \in Pods, ChangePod(p) PROVE TypeOK'
<1>1. PICK n \in (PodObjs[p] \cup {Absent}) \ {pod[p]} :
           /\ pod' = [pod EXCEPT ![p] = n]
           /\ podEvents' = [podEvents EXCEPT ![p] = Append(@, ObjectNotice(pod[p], n))]
  BY DEF ChangePod
<1>2. n \in PodSet \cup {Absent}
  BY DEF PodSet
<1>3. ObjectNotice(pod[p], n) \in Events(PodSet)
  BY <1>2 DEF ObjectNotice, Events, TypeOK
<1>4. pod' \in [Pods -> PodSet \cup {Absent}]
  BY <1>1, <1>2 DEF TypeOK
<1>5. podEvents' \in [Pods -> Seq(Events(PodSet))]
  BY <1>1, <1>3 DEF TypeOK
<1>6. changes' \in 0..MaxChanges
  BY BoundsAssumption DEF ChangePod, TypeOK
<1> QED BY <1>4, <1>5, <1>6 DEF TypeOK, ChangePod

\* A change of a node and its notification are well typed.
LEMMA TypeChangeNode == ASSUME TypeOK, NEW n \in Nodes, ChangeNode(n) PROVE TypeOK'
<1>1. PICK m \in (NodeObjs[n] \cup {Absent}) \ {node[n]} :
           /\ node' = [node EXCEPT ![n] = m]
           /\ nodeEvents' = [nodeEvents EXCEPT ![n] = Append(@, ObjectNotice(node[n], m))]
  BY DEF ChangeNode
<1>2. m \in NodeSet \cup {Absent}
  BY DEF NodeSet
<1>3. ObjectNotice(node[n], m) \in Events(NodeSet)
  BY <1>2 DEF ObjectNotice, Events, TypeOK
<1>4. node' \in [Nodes -> NodeSet \cup {Absent}]
  BY <1>1, <1>2 DEF TypeOK
<1>5. nodeEvents' \in [Nodes -> Seq(Events(NodeSet))]
  BY <1>1, <1>3 DEF TypeOK
<1>6. changes' \in 0..MaxChanges
  BY BoundsAssumption DEF ChangeNode, TypeOK
<1> QED BY <1>4, <1>5, <1>6 DEF TypeOK, ChangeNode

\* The redelivery of a service keeps the types.
LEMMA TypeResync == ASSUME TypeOK, NEW s \in Services, ResyncService(s) PROVE TypeOK'
<1>1. [type |-> "Update", obj |-> svc[s]] \in Events(ServiceObjs)
  BY DEF TypeOK, ResyncService, Events
<1>2. svcEvents' \in [Services -> Seq(Events(ServiceObjs))]
  BY <1>1 DEF TypeOK, ResyncService
<1> QED BY <1>2 DEF TypeOK, ResyncService

\* handleServiceEvent keeps the types.
LEMMA TypeServiceEvent == ASSUME TypeOK, NEW s \in Services, handleServiceEvent(s) PROVE TypeOK'
<1>1. /\ Head(svcEvents[s]) \in Events(ServiceObjs)
      /\ Tail(svcEvents[s]) \in Seq(Events(ServiceObjs))
  BY DEF TypeOK, handleServiceEvent
<1>2. svcEvents' \in [Services -> Seq(Events(ServiceObjs))]
  BY <1>1 DEF TypeOK, handleServiceEvent
<1>3. /\ stServices' \in [Services -> ServiceObjs \cup {Absent}]
      /\ lastKnown' \in [Services -> ServiceObjs \cup {Absent}]
  BY <1>1 DEF TypeOK, handleServiceEvent, Remember, Events
<1> QED BY <1>2, <1>3 DEF TypeOK, handleServiceEvent

\* handlePodEvent keeps the types.
LEMMA TypePodEvent == ASSUME TypeOK, NEW p \in Pods, handlePodEvent(p) PROVE TypeOK'
<1>1. /\ Head(podEvents[p]) \in Events(PodSet)
      /\ Tail(podEvents[p]) \in Seq(Events(PodSet))
  BY DEF TypeOK, handlePodEvent
<1>2. podEvents' \in [Pods -> Seq(Events(PodSet))]
  BY <1>1 DEF TypeOK, handlePodEvent
<1>3. stPods' \in [Pods -> PodSet \cup {Absent}]
  BY <1>1 DEF TypeOK, handlePodEvent, Events
<1> QED BY <1>2, <1>3 DEF TypeOK, handlePodEvent, ServicesOf

\* handleNodeEvent keeps the types.
LEMMA TypeNodeEvent == ASSUME TypeOK, NEW n \in Nodes, handleNodeEvent(n) PROVE TypeOK'
<1>1. Tail(nodeEvents[n]) \in Seq(Events(NodeSet))
  BY DEF TypeOK, handleNodeEvent
<1>2. nodeEvents' \in [Nodes -> Seq(Events(NodeSet))]
  BY <1>1 DEF TypeOK, handleNodeEvent
<1> QED BY <1>2 DEF TypeOK, handleNodeEvent, ServicesOf

\* Taking a key from the queue keeps the types.
LEMMA TypeGet == ASSUME TypeOK, NEW w \in Workers, NEW s \in Services, Get(w, s) PROVE TypeOK'
BY EmptyType DEF TypeOK, Get, IdleWorker, WorkerType, WorkerPCs

\* The end of a backoff keeps the types.
LEMMA TypeBackoff == ASSUME TypeOK, NEW s \in Services, BackoffElapsed(s) PROVE TypeOK'
BY DEF TypeOK, BackoffElapsed

\* The end of processNextItem keeps the types of a worker that has a key.
LEMMA TypeDone == ASSUME TypeOK, NEW w \in Workers, processNextItem(w), wk[w].key \in Services
                  PROVE TypeOK'
BY EmptyType DEF TypeOK, processNextItem, Retry, IdleWorker, WorkerType, WorkerPCs

-----------------------------------------------------------------------------
(* TypeOK is not inductive: what an actor writes depends on what it has     *)
(* read since it left idle.  WorkerOK and SyncerOK say which locals are set *)
(* at which program counter.                                                *)

WorkerOK(x) ==
    /\ x.pc # "idle" => x.key \in Services
    /\ x.pc \in {"check", "record", "build", "merge", "push", "store", "apply"} /\ x.cont = "record"
         => x.svc \in ServiceObjs
    /\ x.pc = "record" => x.svc \in ServiceObjs
    /\ x.pc = "check" => x.last \in ServiceObjs /\ Named(x.last)
    /\ x.pc \in {"build", "merge"} => x.cur \in ServiceObjs /\ x.curKey \in Services
    /\ x.pc \in {"merge", "push"} => x.to \in Targets
    /\ x.pc \in {"store", "apply"} => x.to \in LBs \X Ups

SyncerOK(y) ==
    /\ y.pc # "idle" => y.lb \in LBs
    /\ y.pc = "apply" => y.up \in Ups
    /\ y.pc # "build" => y.todo = {}
    /\ \A s \in y.todo : y.snap[s] \in ServiceObjs /\ y.snap[s].up \in Ups

TypeInv == /\ TypeOK
           /\ \A w \in Workers : WorkerOK(wk[w])
           /\ \A r \in Syncers : SyncerOK(sy[r])

\* Initially every actor is at rest.
LEMMA TypeInvInit == Init => TypeInv
BY TypeInit DEF Init, TypeInv, WorkerOK, SyncerOK, IdleWorker, IdleSyncer

\* Steps of the cluster and of the event loop leave the actors alone.
LEMMA ActorsAtRest == ASSUME TypeInv, TypeOK', UNCHANGED <<wk, sy>> PROVE TypeInv'
BY DEF TypeInv

\* The labels of a service object are names, or missing.
LEMMA ObjectType == ASSUME NEW o \in ServiceObjs
                    PROVE /\ o.lb \in LBNames \cup {""} /\ o.up \in Ups \cup {""}
                          /\ o.port \in Ports \cup {0}
                          /\ Named(o) => Target(o) \in Targets
BY ObjectsAssumption DEF Named, Target, Targets

\* A step of worker w that leaves rec in its locals.
LEMMA WorkerStep ==
    ASSUME TypeInv, NEW w \in Workers, NEW rec, rec \in WorkerType, WorkerOK(rec),
           wk' = [wk EXCEPT ![w] = rec], sy' = sy,
           wk' \in [Workers -> WorkerType] => TypeOK'
    PROVE  TypeInv'
BY DEF TypeInv, TypeOK

\* A step that only changes the locals of a worker, to well typed ones.
LEMMA WorkerOnlyStep ==
    ASSUME TypeInv, NEW w \in Workers, NEW rec, rec \in WorkerType, WorkerOK(rec),
           WorkerOnly(w, rec), Fault \/ NoFault
    PROVE  TypeInv'
<1>1. TypeOK'
  BY TypeWorkerOnly, TypeFault DEF TypeInv
<1> QED BY <1>1, WorkerStep DEF WorkerOnly

\* Reading the service from the lister keeps the invariant.
LEMMA GetServiceType == ASSUME TypeInv, NEW w \in Workers, GetService(w) PROVE TypeInv'
<1> DEFINE rec == [wk[w] EXCEPT !.pc = "last", !.svc = svc[wk[w].key]]
<1>1. wk[w] \in WorkerType /\ wk[w].key \in Services
  BY DEF GetService, TypeInv, TypeOK, WorkerOK
<1>2. svc[wk[w].key] \in ServiceObjs \cup {Absent}
  BY <1>1 DEF TypeInv, TypeOK
<1>3. rec \in WorkerType
  BY <1>1, <1>2 DEF WorkerType, WorkerPCs
<1>4. WorkerOK(rec)
  BY <1>1 DEF WorkerOK, WorkerType
<1> QED BY <1>3, <1>4, WorkerOnlyStep DEF GetService

\* Where syncHandler can go after lastKnownServices, and on what condition.
LEMMA AfterLastCases ==
    ASSUME NEW new, NEW last
    PROVE  /\ AfterLast(new, last) \in {"done", "check", "forget", "record"}
           /\ AfterLast(new, last) = "check" => last # Absent /\ Named(last)
           /\ AfterLast(new, last) = "record" => new # Absent
           /\ AfterLast(new, last) = "done" => new = Absent /\ last = Absent
           /\ AfterLast(new, last) = "forget" => new = Absent
<1>1. CASE new = Absent
  BY <1>1 DEF AfterLast
<1>2. CASE new # Absent /\ last # Absent /\ MustDrain(last, new)
  BY <1>2 DEF AfterLast, MustDrain
<1>3. CASE new # Absent /\ ~(last # Absent /\ MustDrain(last, new))
  BY <1>3 DEF AfterLast
<1> QED BY <1>1, <1>2, <1>3

\* Reading lastKnownServices keeps the invariant.
LEMMA ReadLastType == ASSUME TypeInv, NEW w \in Workers, ReadLast(w) PROVE TypeInv'
<1> DEFINE last == lastKnown[wk[w].key]
           to == AfterLast(wk[w].svc, last)
           cont == IF wk[w].svc = Absent THEN "forget" ELSE "record"
           rec == [wk[w] EXCEPT !.pc = to, !.last = last, !.cont = cont]
<1>1. /\ wk[w] \in WorkerType /\ wk[w].key \in Services
      /\ wk[w].svc \in ServiceObjs \cup {Absent} /\ last \in ServiceObjs \cup {Absent}
  BY DEF ReadLast, TypeInv, TypeOK, WorkerOK, WorkerType
<1>2. /\ to \in {"done", "check", "forget", "record"}
      /\ to = "check" => last # Absent /\ Named(last)
      /\ to = "record" => wk[w].svc # Absent
  BY AfterLastCases
<1>3. cont \in {"forget", "record"} /\ (cont = "record" => wk[w].svc # Absent)
  OBVIOUS
<1>4. WorkerOnly(w, rec) /\ NoFault
  BY DEF ReadLast
<1> HIDE DEF last, to, cont
<1>5. rec \in WorkerType
  BY <1>1, <1>2, <1>3 DEF WorkerType, WorkerPCs
<1>6. WorkerOK(rec)
  BY <1>1, <1>2, <1>3 DEF WorkerOK, WorkerType
<1> QED BY <1>4, <1>5, <1>6, WorkerOnlyStep

\* Handing a shared upstream over keeps the invariant.
LEMMA HandOverType ==
    ASSUME TypeInv, NEW w \in Workers, NEW o \in Services, HandOver(w, o) PROVE TypeInv'
<1> DEFINE rec == [wk[w] EXCEPT !.pc = "build", !.cur = svc[o], !.curKey = o]
<1>1. wk[w] \in WorkerType /\ WorkerOK(wk[w]) /\ wk[w].pc = "check"
  BY DEF HandOver, TypeInv, TypeOK
<1>2. svc[o] \in ServiceObjs
  BY DEF HandOver, Others, TypeInv, TypeOK
<1>3. rec \in WorkerType
  BY <1>1, <1>2 DEF WorkerType, WorkerPCs
<1>4. WorkerOK(rec)
  BY <1>1, <1>2 DEF WorkerOK, WorkerType
<1> QED BY <1>3, <1>4, WorkerOnlyStep DEF HandOver

\* Starting to drain an upstream keeps the invariant.
LEMMA DrainType == ASSUME TypeInv, NEW w \in Workers, Drain(w) PROVE TypeInv'
<1> DEFINE t == Target(wk[w].last)
           rec == [wk[w] EXCEPT !.pc = "push", !.to = t, !.want = Empty]
<1>1. wk[w] \in WorkerType /\ t \in Targets
  BY ObjectType DEF Drain, TypeInv, TypeOK, WorkerOK
<1>2. rec \in WorkerType
  BY <1>1, EmptyType DEF WorkerType, WorkerPCs
<1>3. WorkerOK(rec)
  <2>1. WorkerOK(wk[w]) /\ wk[w].pc = "check"
    BY DEF Drain, TypeInv
  <2> QED BY <1>1, <2>1 DEF WorkerOK, WorkerType
<1>4. wk' = [wk EXCEPT ![w] = rec]
  BY DEF Drain
<1>5. stUpstreams' \in [Targets -> Backends \cup {Absent}]
  BY DEF Drain, TypeInv, TypeOK
<1> QED BY <1>2, <1>3, <1>4, <1>5, WorkerStep DEF Drain, TypeInv, TypeOK

\* A busy worker may always go on to its error path.
LEMMA FailType == ASSUME TypeInv, NEW w \in Workers, wk[w].pc # "idle"
                  PROVE Goto(w, "fail") \in WorkerType /\ WorkerOK(Goto(w, "fail"))
<1>1. wk[w] \in WorkerType /\ wk[w].key \in Services
  BY DEF TypeInv, TypeOK, WorkerOK
<1>2. Goto(w, "fail") \in WorkerType
  BY <1>1 DEF WorkerType, WorkerPCs, Goto
<1>3. WorkerOK(Goto(w, "fail"))
  BY <1>1 DEF WorkerType, WorkerOK, Goto
<1> QED BY <1>2, <1>3

\* Where syncUpstreamsForService returns to.
LEMMA ContType == ASSUME TypeInv, NEW w \in Workers,
                         wk[w].pc \in {"build", "merge", "push", "apply"}
                  PROVE Goto(w, wk[w].cont) \in WorkerType /\ WorkerOK(Goto(w, wk[w].cont))
<1>1. wk[w] \in WorkerType /\ WorkerOK(wk[w])
  BY DEF TypeInv, TypeOK
<1>2. Goto(w, wk[w].cont) \in WorkerType
  BY <1>1 DEF WorkerType, WorkerPCs, Goto
<1>3. WorkerOK(Goto(w, wk[w].cont))
  BY <1>1 DEF WorkerType, WorkerOK, Goto
<1> QED BY <1>2, <1>3

\* A worker that returns from the adapter drops the listing.
LEMMA ReturnType ==
    ASSUME NEW x, x \in WorkerType, WorkerOK(x), x.pc \in {"push", "apply"},
           NEW pc, pc \in {x.cont, "fail"}
    PROVE  LET rec == [x EXCEPT !.pc = pc, !.list = IdleWorker.list]
           IN rec \in WorkerType /\ WorkerOK(rec)
<1> DEFINE list == IdleWorker.list
           rec == [x EXCEPT !.pc = pc, !.list = list]
<1>1. list \in [Ups -> Backends]
  BY EmptyType DEF IdleWorker
<1> HIDE DEF list
<1>2. pc \in {"record", "forget", "done", "fail"}
  BY DEF WorkerType
<1>3. rec \in WorkerType
  BY <1>1, <1>2 DEF WorkerType, WorkerPCs
<1>4. WorkerOK(rec)
  BY <1>1, <1>2 DEF WorkerType, WorkerOK
<1> QED BY <1>3, <1>4 DEF list

\* A failed list keeps the invariant.
LEMMA ListFailsType == ASSUME TypeInv, NEW w \in Workers, ListFails(w) PROVE TypeInv'
BY FailType, WorkerOnlyStep DEF ListFails, CallFails

\* Forgetting a deleted service keeps the invariant.
LEMMA ForgetType == ASSUME TypeInv, NEW w \in Workers, ForgetService(w) PROVE TypeInv'
<1> DEFINE rec == [wk[w] EXCEPT !.pc = "done"]
<1>0. wk[w] \in WorkerType /\ wk[w].key \in Services
  BY DEF ForgetService, TypeInv, TypeOK, WorkerOK
<1>1. rec \in WorkerType /\ WorkerOK(rec)
  BY <1>0 DEF WorkerType, WorkerPCs, WorkerOK
<1>2. wk' = [wk EXCEPT ![w] = rec]
  BY DEF ForgetService
<1>3. /\ lastKnown' \in [Services -> ServiceObjs \cup {Absent}]
      /\ stServices' \in [Services -> ServiceObjs \cup {Absent}]
  BY DEF ForgetService, TypeInv, TypeOK
<1> QED BY <1>1, <1>2, <1>3, WorkerStep DEF ForgetService, TypeInv, TypeOK

\* Recording a live service keeps the invariant.
LEMMA RecordType == ASSUME TypeInv, NEW w \in Workers, RecordService(w) PROVE TypeInv'
<1> DEFINE rec == [wk[w] EXCEPT !.pc = "build", !.cur = wk[w].svc, !.curKey = wk[w].key,
                                !.cont = "done"]
<1>1. wk[w] \in WorkerType /\ wk[w].svc \in ServiceObjs /\ wk[w].key \in Services
  BY DEF RecordService, TypeInv, TypeOK, WorkerOK
<1>2. rec \in WorkerType /\ WorkerOK(rec)
  BY <1>1 DEF WorkerType, WorkerPCs, WorkerOK
<1>3. wk' = [wk EXCEPT ![w] = rec]
  BY DEF RecordService
<1>4. /\ lastKnown' \in [Services -> ServiceObjs \cup {Absent}]
      /\ stServices' \in [Services -> ServiceObjs \cup {Absent}]
  BY <1>1 DEF RecordService, TypeInv, TypeOK
<1> QED BY <1>2, <1>3, <1>4, WorkerStep DEF RecordService, TypeInv, TypeOK

\* Building the own backends of a service keeps the invariant.
LEMMA BuildOwnType == ASSUME TypeInv, NEW w \in Workers, BuildOwn(w) PROVE TypeInv'
<1> DEFINE o == wk[w].cur
           rec == [wk[w] EXCEPT !.pc = "merge", !.to = Target(o),
                                !.want = Built([s \in {wk[w].curKey} |-> o])]
<1>1. /\ wk[w] \in WorkerType /\ WorkerOK(wk[w]) /\ wk[w].pc = "build"
      /\ o \in ServiceObjs /\ wk[w].curKey \in Services
  BY DEF BuildOwn, TypeInv, TypeOK, WorkerOK
<1>2. CASE WorkerOnly(w, Goto(w, wk[w].cont))
  BY <1>1, <1>2, ContType, WorkerOnlyStep DEF BuildOwn
<1>3. CASE WorkerOnly(w, Goto(w, "fail"))
  BY <1>1, <1>3, FailType, WorkerOnlyStep DEF BuildOwn
<1>4. CASE Named(o) /\ WorkerOnly(w, rec)
  <2>1. Target(o) \in Targets
    BY <1>1, <1>4, ObjectType
  <2>2. IsFiniteSet(DOMAIN [s \in {wk[w].curKey} |-> o])
    BY FS_Singleton
  <2>3. Built([s \in {wk[w].curKey} |-> o]) \in Backends
    BY <2>2, BuiltType
  <2>4. rec \in WorkerType
    BY <1>1, <2>1, <2>3 DEF WorkerType, WorkerPCs
  <2>5. WorkerOK(rec)
    BY <1>1, <2>1 DEF WorkerOK, WorkerType
  <2> QED BY <1>4, <2>4, <2>5, WorkerOnlyStep DEF BuildOwn
<1> QED BY <1>2, <1>3, <1>4 DEF BuildOwn

\* The backends of all services of an upstream are well typed.
LEMMA MergedType == ASSUME TypeInv, NEW w \in Workers PROVE Merged(w) \in Backends
<1> DEFINE f == [o \in Others(wk[w].curKey, wk[w].to) |-> svc[o]]
<1>1. IsFiniteSet(DOMAIN f)
  BY OthersFinite
<1>2. wk[w].want \in Backends
  BY DEF TypeInv, TypeOK, WorkerType
<1> QED BY <1>1, <1>2, BuiltType, MergeType DEF Merged

\* Merging, the default backend and the safety net keep the invariant.
LEMMA MergeSharedType == ASSUME TypeInv, NEW w \in Workers, MergeShared(w) PROVE TypeInv'
<1> DEFINE t == wk[w].to
           b == OrDefault(t[1], Merged(w))
           rec == [wk[w] EXCEPT !.pc = "push", !.want = b]
<1>1. /\ wk[w] \in WorkerType /\ WorkerOK(wk[w]) /\ wk[w].pc = "merge" /\ t \in Targets
  BY DEF MergeShared, TypeInv, TypeOK, WorkerOK
<1>2. CASE WorkerOnly(w, Goto(w, wk[w].cont)) /\ NoFault
  BY <1>1, <1>2, ContType, WorkerOnlyStep
<1>3. CASE WorkerOnly(w, Goto(w, "fail")) /\ NoFault
  BY <1>1, <1>3, FailType, WorkerOnlyStep
<1>4. CASE /\ stUpstreams' = [stUpstreams EXCEPT ![t] = b]
           /\ wk' = [wk EXCEPT ![w] = rec]
           /\ UNCHANGED <<cluster, events, stServices, stPods, lastKnown, queue, sy,
                          balancers, bounds>>
  <2>1. b \in Backends
    BY MergedType, DefaultType
  <2>2. rec \in WorkerType
    BY <1>1, <2>1 DEF WorkerType, WorkerPCs
  <2>3. WorkerOK(rec)
    BY <1>1 DEF WorkerOK, WorkerType
  <2>4. stUpstreams' \in [Targets -> Backends \cup {Absent}]
    BY <1>1, <1>4, <2>1 DEF TypeInv, TypeOK
  <2> QED BY <1>4, <2>2, <2>3, <2>4, WorkerStep DEF TypeInv, TypeOK
<1> QED BY <1>2, <1>3, <1>4 DEF MergeShared

\* The listing of a load balancer is well typed.
LEMMA ListingType == ASSUME TypeOK, NEW lb \in LBs PROVE Listing(lb) \in [Ups -> Backends]
BY DEF TypeOK, Listing

\* So is what refreshCache returns.
LEMMA RefreshType == ASSUME TypeOK, NEW lb \in LBs PROVE refreshCache(lb) \in [Ups -> Backends]
BY ListingType DEF TypeOK, refreshCache

\* Storing or forgetting a listing keeps the type of the caches.
LEMMA CacheType ==
    ASSUME TypeOK, NEW lb \in LBs, NEW list \in [Ups -> Backends],
           cache' = cache \/ Store(lb, list) \/ invalidateCache(lb)
    PROVE  cache' \in [LBs -> [Ups -> Backends] \cup {Absent}]
BY DEF TypeOK, Store, invalidateCache

\* Attempts that may be executed later keep the type of late.
LEMMA LateType ==
    ASSUME TypeOK, NEW t \in LBs \X Ups, NEW b \in Backends, NEW W, W \subseteq Addrs,
           NEW L \in Lost(W), late' = late \cup Writes(t, b, L)
    PROVE  late' \subseteq [to : LBs \X Ups, addr : Addrs, weight : Nat]
<1>1. L \subseteq Addrs
  BY DEF Lost
<1> QED BY <1>1 DEF TypeOK, Writes, Backends

\* Listing the load balancer before a push keeps the invariant.
LEMMA PushListType == ASSUME TypeInv, NEW w \in Workers, PushList(w) PROVE TypeInv'
<1> DEFINE list == refreshCache(wk[w].to[1])
           pc == IF cache[wk[w].to[1]] = Absent THEN "store" ELSE "apply"
           rec == [wk[w] EXCEPT !.pc = pc, !.list = list]
<1>1. /\ wk[w] \in WorkerType /\ WorkerOK(wk[w]) /\ wk[w].pc = "push" /\ wk[w].to \in Targets
  BY DEF PushList, TypeInv, TypeOK, WorkerOK
<1>2. CASE wk[w].to[1] \in LBs
  <2>1. wk[w].to \in LBs \X Ups
    BY <1>1, <1>2 DEF Targets
  <2>2. list \in [Ups -> Backends]
    BY <1>2, RefreshType DEF TypeInv
  <2>3. pc \in {"store", "apply"}
    OBVIOUS
  <2>4. WorkerOnly(w, rec) /\ NoFault
    BY <1>2 DEF PushList
  <2> HIDE DEF list, pc
  <2>5. rec \in WorkerType
    BY <1>1, <2>2, <2>3 DEF WorkerType, WorkerPCs
  <2>6. WorkerOK(rec)
    BY <1>1, <2>1, <2>3 DEF WorkerOK, WorkerType
  <2> QED BY <2>4, <2>5, <2>6, WorkerOnlyStep
<1>3. CASE wk[w].to[1] \notin LBs
  BY <1>1, <1>3, FailType, WorkerOnlyStep DEF PushList
<1> QED BY <1>2, <1>3

\* Storing the listing keeps the invariant.
LEMMA PushStoreType == ASSUME TypeInv, NEW w \in Workers, PushStore(w) PROVE TypeInv'
<1>1. wk[w] \in WorkerType /\ WorkerOK(wk[w]) /\ wk[w].pc = "store" /\ wk[w].to \in LBs \X Ups
  BY DEF PushStore, TypeInv, TypeOK, WorkerOK
<1>2. wk[w].list \in [Ups -> Backends] /\ wk[w].to[1] \in LBs
  BY <1>1 DEF WorkerType
<1>3. cache' \in [LBs -> [Ups -> Backends] \cup {Absent}]
  BY <1>2, CacheType DEF PushStore, TypeInv
<1>4. Goto(w, "apply") \in WorkerType
  BY <1>1 DEF WorkerType, WorkerPCs, Goto
<1>5. WorkerOK(Goto(w, "apply"))
  BY <1>1 DEF WorkerType, WorkerOK, Goto
<1>6. wk' = [wk EXCEPT ![w] = Goto(w, "apply")]
  BY DEF PushStore, Goto
<1> QED BY <1>3, <1>4, <1>5, <1>6, WorkerStep DEF PushStore, TypeInv, TypeOK

\* A write of some differences of an upstream keeps the type of nginx.
LEMMA NginxWrite ==
    ASSUME TypeOK, NEW t \in LBs \X Ups, NEW b \in Backends, NEW D,
           nginx' = [nginx EXCEPT ![t] = Write(@, b, D)]
    PROVE  nginx' \in [LBs \X Ups -> Backends]
<1>1. Write(nginx[t], b, D) \in Backends
  BY WriteType DEF TypeOK
<1> QED BY <1>1 DEF TypeOK

BalancersOK == /\ nginx \in [LBs \X Ups -> Backends]
               /\ cache \in [LBs -> [Ups -> Backends] \cup {Absent}]
               /\ late \subseteq [to : LBs \X Ups, addr : Addrs, weight : Nat]

\* The requests of a call keep the types of what they change.
LEMMA SendType ==
    ASSUME TypeInv, NEW w \in Workers, wk[w].pc = "apply", NEW E, NEW L \in Lost(Difference(w)),
           Send(w, E, L)
    PROVE  BalancersOK'
<1>1. wk[w] \in WorkerType /\ wk[w].to \in LBs \X Ups
  BY DEF TypeInv, TypeOK, WorkerOK
<1>2. /\ wk[w].want \in Backends /\ wk[w].list \in [Ups -> Backends]
      /\ wk[w].to[1] \in LBs
  BY <1>1 DEF WorkerType
<1>3. nginx' \in [LBs \X Ups -> Backends]
  BY <1>1, <1>2, NginxWrite DEF Send, TypeInv
<1>4. cache' \in [LBs -> [Ups -> Backends] \cup {Absent}]
  BY <1>2, CacheType DEF Send, TypeInv
<1>5. Difference(w) \subseteq Addrs
  BY DEF Difference, Differing
<1>6. late' \subseteq [to : LBs \X Ups, addr : Addrs, weight : Nat]
  BY <1>1, <1>2, <1>5, LateType DEF Send, TypeInv
<1> QED BY <1>3, <1>4, <1>6 DEF BalancersOK

\* A push that succeeds keeps the invariant.
LEMMA PushApplyType == ASSUME TypeInv, NEW w \in Workers, PushApply(w) PROVE TypeInv'
<1> DEFINE rec == [wk[w] EXCEPT !.pc = wk[w].cont, !.list = IdleWorker.list]
<1>1. wk[w] \in WorkerType /\ WorkerOK(wk[w]) /\ wk[w].pc = "apply"
  BY DEF PushApply, TypeInv, TypeOK
<1>2. PICK L \in Lost(Difference(w)) : /\ IF L = {} THEN NoFault ELSE Fault
                                       /\ Send(w, Difference(w), L)
  BY DEF PushApply
<1>3. BalancersOK'
  BY <1>1, <1>2, SendType
<1>4. faults' \in 0..MaxFaults
  BY <1>2, TypeFault DEF TypeInv
<1>5. rec \in WorkerType /\ WorkerOK(rec)
  BY <1>1, ReturnType
<1>6. wk' = [wk EXCEPT ![w] = rec]
  BY DEF PushApply
<1> HIDE DEF rec
<1> QED BY <1>3, <1>4, <1>5, <1>6, WorkerStep DEF PushApply, TypeInv, TypeOK, BalancersOK

\* A push that fails half way keeps the invariant.
LEMMA PushFailsType == ASSUME TypeInv, NEW w \in Workers, PushFails(w) PROVE TypeInv'
<1> DEFINE rec == [wk[w] EXCEPT !.pc = "fail", !.list = IdleWorker.list]
<1>1. wk[w] \in WorkerType /\ WorkerOK(wk[w]) /\ wk[w].pc \in {"push", "apply"}
  BY DEF PushFails, TypeInv, TypeOK
<1>2. BalancersOK'
  <2>1. CASE UNCHANGED balancers
    BY <2>1 DEF TypeInv, TypeOK, BalancersOK
  <2>2. CASE /\ wk[w].pc = "apply"
             /\ \E E \in SUBSET Difference(w), L \in Lost(Difference(w)) : Send(w, E, L)
    BY <2>2, SendType
  <2> QED BY <2>1, <2>2 DEF PushFails
<1>3. faults' \in 0..MaxFaults
  BY TypeFault DEF PushFails, TypeInv
<1>4. rec \in WorkerType /\ WorkerOK(rec)
  BY <1>1, ReturnType
<1>5. wk' = [wk EXCEPT ![w] = rec]
  BY DEF PushFails
<1> HIDE DEF rec
<1> QED BY <1>2, <1>3, <1>4, <1>5, WorkerStep DEF PushFails, TypeInv, TypeOK, BalancersOK

\* A step of reconciler r that leaves rec in its locals.
LEMMA SyncerStep ==
    ASSUME TypeInv, NEW r \in Syncers, NEW rec, rec \in SyncerType, SyncerOK(rec),
           sy' = [sy EXCEPT ![r] = rec], wk' = wk,
           sy' \in [Syncers -> SyncerType] => TypeOK'
    PROVE  TypeInv'
BY DEF TypeInv, TypeOK

\* A step that only changes the locals of a reconciler, to well typed ones.
LEMMA SyncerOnlyStep ==
    ASSUME TypeInv, NEW r \in Syncers, NEW rec, rec \in SyncerType, SyncerOK(rec),
           SyncerOnly(r, rec)
    PROVE  TypeInv'
BY SyncerStep DEF SyncerOnly, TypeInv, TypeOK

\* A reconciler at rest is well typed.
LEMMA IdleSyncerType == IdleSyncer \in SyncerType /\ SyncerOK(IdleSyncer)
BY EmptyType DEF IdleSyncer, SyncerType, SyncerPCs, SyncerOK

\* The list a pass starts from keeps the invariant.
LEMMA SyncListType == ASSUME TypeInv, NEW r \in Syncers, SyncList(r) PROVE TypeInv'
<1>1. PICK lb \in SyncLBs[r] :
        SyncerOnly(r, [sy[r] EXCEPT !.pc = "register", !.lb = lb, !.snap = svc])
  BY DEF SyncList
<1> DEFINE rec == [sy[r] EXCEPT !.pc = "register", !.lb = lb, !.snap = svc]
<1>2. lb \in LBs
  BY SyncersAssumption
<1>3. sy[r] \in SyncerType /\ SyncerOK(sy[r]) /\ svc \in [Services -> ServiceObjs \cup {Absent}]
  BY DEF TypeInv, TypeOK
<1>4. rec \in SyncerType
  BY <1>2, <1>3 DEF SyncerType, SyncerPCs
<1>5. sy[r].todo = {}
  BY DEF TypeInv, SyncerOK, SyncList
<1>6. SyncerOK(rec)
  BY <1>2, <1>3, <1>5 DEF SyncerOK, SyncerType
<1> QED BY <1>1, <1>4, <1>6, SyncerOnlyStep

\* Registering the services of a pass keeps the invariant.
LEMMA SyncRegisterType == ASSUME TypeInv, NEW r \in Syncers, SyncRegister(r) PROVE TypeInv'
<1> DEFINE todo == {s \in OnLB(r) : sy[r].snap[s].up # ""}
           rec == [sy[r] EXCEPT !.pc = "build", !.todo = todo]
<1>1. sy[r] \in SyncerType /\ SyncerOK(sy[r]) /\ sy[r].lb \in LBs
  BY DEF SyncRegister, TypeInv, TypeOK, SyncerOK
<1>2. \A s \in OnLB(r) : s \in Services /\ sy[r].snap[s] \in ServiceObjs
  BY <1>1 DEF OnLB, SyncerType
<1>3. rec \in SyncerType
  BY <1>1, <1>2 DEF SyncerType, SyncerPCs
<1>4. \A s \in todo : sy[r].snap[s].up \in Ups
  BY <1>2, ObjectType
<1>5. SyncerOK(rec)
  BY <1>1, <1>2, <1>4 DEF SyncerOK, SyncerType
<1>6. /\ stServices' \in [Services -> ServiceObjs \cup {Absent}]
      /\ lastKnown' \in [Services -> ServiceObjs \cup {Absent}]
  BY <1>2 DEF SyncRegister, TypeInv, TypeOK
<1>7. sy' = [sy EXCEPT ![r] = rec]
  BY DEF SyncRegister
<1> QED BY <1>3, <1>5, <1>6, <1>7, SyncerStep DEF SyncRegister, TypeInv, TypeOK

\* A lookup of a pass that fails keeps the invariant.
LEMMA SyncBuildFailsType ==
    ASSUME TypeInv, NEW r \in Syncers, NEW s \in Services, SyncBuildFails(r, s)
    PROVE  TypeInv'
<1> DEFINE u == sy[r].snap[s].up
           rec == [sy[r] EXCEPT !.todo = @ \ {s}, !.desired = @ \cup {u},
                                !.preserve = PreserveToo(r, u), !.failed = @ \cup {u}]
<1>1. sy[r] \in SyncerType /\ SyncerOK(sy[r]) /\ sy[r].pc = "build" /\ u \in Ups
  BY DEF SyncBuildFails, TypeInv, TypeOK, SyncerOK
<1>2. rec \in SyncerType
  BY <1>1 DEF SyncerType, PreserveToo
<1>3. SyncerOK(rec)
  BY <1>1 DEF SyncerOK, SyncerType
<1>4. sy' = [sy EXCEPT ![r] = rec] /\ wk' = wk
  BY DEF SyncBuildFails, SyncerOnly
<1>5. faults' \in 0..MaxFaults
  BY TypeFault DEF SyncBuildFails, SyncerOnly, TypeInv, TypeOK
<1> QED BY <1>2, <1>3, <1>4, <1>5, SyncerStep
        DEF SyncBuildFails, SyncerOnly, TypeInv, TypeOK

\* Building an upstream in a pass keeps the invariant.
LEMMA SyncBuildType ==
    ASSUME TypeInv, NEW r \in Syncers, NEW s \in Services, SyncBuild(r, s) PROVE TypeInv'
<1> DEFINE u == sy[r].snap[s].up
           skip == [sy[r] EXCEPT !.todo = @ \ {s}]
           rec == [sy[r] EXCEPT !.todo = @ \ {s}, !.desired = @ \cup {u},
                                !.want = SyncAdd(r, s)]
<1>1. sy[r] \in SyncerType /\ SyncerOK(sy[r]) /\ sy[r].pc = "build" /\ u \in Ups
  BY DEF SyncBuild, TypeInv, TypeOK, SyncerOK
<1>2. skip \in SyncerType /\ SyncerOK(skip)
  BY <1>1 DEF SyncerType, SyncerOK
<1>3. SyncAdd(r, s) \in [Ups -> Backends]
  <2> DEFINE own == Built([k \in {s} |-> sy[r].snap[s]])
  <2>1. IsFiniteSet(DOMAIN [k \in {s} |-> sy[r].snap[s]])
    BY FS_Singleton
  <2>2. own \in Backends
    BY <2>1, BuiltType
  <2>3. sy[r].want \in [Ups -> Backends]
    BY <1>1 DEF SyncerType
  <2>4. mergeBackends(sy[r].want[u], own) \in Backends
    BY <1>1, <2>2, <2>3, MergeType
  <2> QED BY <2>3, <2>4 DEF SyncAdd
<1>4. rec \in SyncerType
  BY <1>1, <1>3 DEF SyncerType
<1>5. SyncerOK(rec)
  BY <1>1 DEF SyncerOK, SyncerType
<1>6. SyncerOnly(r, skip) \/ SyncerOnly(r, rec)
  BY DEF SyncBuild
<1> QED BY <1>2, <1>4, <1>5, <1>6, SyncerOnlyStep

\* Default backends and safety net of a pass keep the invariant.
LEMMA SyncDecideType == ASSUME TypeInv, NEW r \in Syncers, SyncDecide(r) PROVE TypeInv'
<1> DEFINE lb == sy[r].lb
           keep == sy[r].preserve \cup Kept(r)
           want == [u \in Ups |-> IF u \in sy[r].desired \ keep
                                  THEN OrDefault(lb, sy[r].want[u]) ELSE Empty]
           rec == [sy[r] EXCEPT !.pc = "push", !.preserve = keep,
                                !.want = want, !.left = sy[r].desired \ keep]
<1>1. sy[r] \in SyncerType /\ SyncerOK(sy[r]) /\ sy[r].pc = "build" /\ sy[r].todo = {}
  BY DEF SyncDecide, TypeInv, TypeOK
<1>2. keep \in SUBSET Ups
  BY <1>1 DEF Kept, SyncerType
<1>3. want \in [Ups -> Backends]
  BY <1>1, DefaultType, EmptyType DEF SyncerType
<1>4. stUpstreams' = [t \in Targets |->
                        IF t[1] # lb \/ t[2] \in keep THEN stUpstreams[t]
                        ELSE IF t[2] \in sy[r].desired THEN want[t[2]] ELSE Absent]
  BY DEF SyncDecide
<1>5. sy' = [sy EXCEPT ![r] = rec]
  BY DEF SyncDecide
<1> HIDE DEF keep, want
<1>6. stUpstreams' \in [Targets -> Backends \cup {Absent}]
  BY <1>3, <1>4 DEF TypeInv, TypeOK, Targets
<1>7. rec \in SyncerType
  BY <1>1, <1>2, <1>3 DEF SyncerType, SyncerPCs
<1>8. SyncerOK(rec)
  BY <1>1 DEF SyncerOK, SyncerType
<1> QED BY <1>5, <1>6, <1>7, <1>8, SyncerStep DEF SyncDecide, TypeInv, TypeOK

\* Listing for the next upstream of a pass keeps the invariant.
LEMMA SyncPushListType ==
    ASSUME TypeInv, NEW r \in Syncers, NEW u \in Ups, SyncPushList(r, u) PROVE TypeInv'
<1> DEFINE list == refreshCache(sy[r].lb)
           pc == IF cache[sy[r].lb] = Absent THEN "store" ELSE "apply"
           rec == [sy[r] EXCEPT !.pc = pc, !.up = u, !.left = @ \ {u}, !.list = list]
<1>1. sy[r] \in SyncerType /\ SyncerOK(sy[r]) /\ sy[r].pc = "push" /\ sy[r].lb \in LBs
  BY DEF SyncPushList, TypeInv, TypeOK, SyncerOK
<1>2. list \in [Ups -> Backends] /\ pc \in {"store", "apply"}
  BY <1>1, RefreshType DEF TypeInv
<1>3. SyncerOnly(r, rec)
  BY DEF SyncPushList
<1> HIDE DEF list, pc
<1>4. rec \in SyncerType
  BY <1>1, <1>2 DEF SyncerType, SyncerPCs
<1>5. SyncerOK(rec)
  BY <1>1, <1>2 DEF SyncerOK, SyncerType
<1> QED BY <1>3, <1>4, <1>5, SyncerOnlyStep

\* Storing the listing of a pass keeps the invariant.
LEMMA SyncStoreType == ASSUME TypeInv, NEW r \in Syncers, SyncStore(r) PROVE TypeInv'
<1> DEFINE pc == IF sy[r].up = Absent THEN "prune" ELSE "apply"
           rec == [sy[r] EXCEPT !.pc = pc]
<1>1. sy[r] \in SyncerType /\ SyncerOK(sy[r]) /\ sy[r].pc = "store" /\ sy[r].lb \in LBs
  BY DEF SyncStore, TypeInv, TypeOK, SyncerOK
<1>2. sy[r].list \in [Ups -> Backends]
  BY <1>1 DEF SyncerType
<1>3. cache' \in [LBs -> [Ups -> Backends] \cup {Absent}]
  BY <1>1, <1>2, CacheType DEF SyncStore, TypeInv
<1>4. pc \in {"prune", "apply"} /\ (pc = "apply" => sy[r].up \in Ups)
  BY <1>1 DEF SyncerType
<1>5. sy' = [sy EXCEPT ![r] = rec]
  BY DEF SyncStore
<1> HIDE DEF pc
<1>6. rec \in SyncerType
  BY <1>1, <1>4 DEF SyncerType, SyncerPCs
<1>7. SyncerOK(rec)
  BY <1>1, <1>4 DEF SyncerOK, SyncerType
<1> QED BY <1>3, <1>5, <1>6, <1>7, SyncerStep DEF SyncStore, TypeInv, TypeOK

\* Writing an upstream in a pass keeps the invariant.
LEMMA SyncPushApplyType == ASSUME TypeInv, NEW r \in Syncers, SyncPushApply(r) PROVE TypeInv'
<1> DEFINE u == sy[r].up
           t == <<sy[r].lb, u>>
           D == Differing(sy[r].want[u], sy[r].list[u])
           list == IdleSyncer.list
           rec == [sy[r] EXCEPT !.pc = "push", !.up = Absent, !.list = list]
<1>1. /\ sy[r] \in SyncerType /\ SyncerOK(sy[r]) /\ sy[r].pc = "apply"
      /\ sy[r].lb \in LBs /\ u \in Ups
  BY DEF SyncPushApply, TypeInv, TypeOK, SyncerOK
<1>2. PICK E \in SUBSET D, L \in Lost(D) :
            /\ IF E = D /\ L = {} THEN NoFault ELSE Fault
            /\ nginx' = [nginx EXCEPT ![t] = Write(@, sy[r].want[u], E)]
            /\ late' = late \cup Writes(t, sy[r].want[u], L)
  BY DEF SyncPushApply
<1>3. sy[r].want[u] \in Backends /\ t \in LBs \X Ups /\ sy[r].list \in [Ups -> Backends]
  BY <1>1 DEF SyncerType
<1>4. nginx' \in [LBs \X Ups -> Backends]
  BY <1>2, <1>3, NginxWrite DEF TypeInv
<1>5. late' \subseteq [to : LBs \X Ups, addr : Addrs, weight : Nat]
  <2>1. D \subseteq Addrs
    BY DEF Differing
  <2> HIDE DEF D
  <2> QED BY <1>2, <1>3, <2>1, LateType DEF TypeInv
<1>6. cache' \in [LBs -> [Ups -> Backends] \cup {Absent}]
  BY <1>1, <1>3, CacheType DEF SyncPushApply, TypeInv
<1>7. faults' \in 0..MaxFaults
  BY <1>2, TypeFault DEF TypeInv
<1>8. list \in [Ups -> Backends]
  BY EmptyType DEF IdleSyncer
<1>9. sy' = [sy EXCEPT ![r] = rec]
  BY DEF SyncPushApply
<1> HIDE DEF list
<1>10. rec \in SyncerType
  BY <1>1, <1>8 DEF SyncerType, SyncerPCs
<1>11. SyncerOK(rec)
  BY <1>1 DEF SyncerOK, SyncerType
<1> QED BY <1>4, <1>5, <1>6, <1>7, <1>9, <1>10, <1>11, SyncerStep
        DEF SyncPushApply, TypeInv, TypeOK

\* Listing for the prune keeps the invariant.
LEMMA SyncPruneListType == ASSUME TypeInv, NEW r \in Syncers, SyncPruneList(r) PROVE TypeInv'
<1> DEFINE list == refreshCache(sy[r].lb)
           pc == IF cache[sy[r].lb] = Absent THEN "store" ELSE "prune"
           rec == [sy[r] EXCEPT !.pc = pc, !.list = list]
<1>1. sy[r] \in SyncerType /\ SyncerOK(sy[r]) /\ sy[r].pc = "push" /\ sy[r].lb \in LBs
  BY DEF SyncPruneList, TypeInv, TypeOK, SyncerOK
<1>2. list \in [Ups -> Backends] /\ pc \in {"store", "prune"}
  BY <1>1, RefreshType DEF TypeInv
<1>3. SyncerOnly(r, rec) \/ SyncerOnly(r, IdleSyncer)
  BY DEF SyncPruneList
<1> HIDE DEF list, pc
<1>4. rec \in SyncerType
  BY <1>1, <1>2 DEF SyncerType, SyncerPCs
<1>5. SyncerOK(rec)
  BY <1>1, <1>2 DEF SyncerOK, SyncerType
<1> QED BY <1>3, <1>4, <1>5, IdleSyncerType, SyncerOnlyStep

\* The prune keeps the invariant.
LEMMA SyncPruneApplyType == ASSUME TypeInv, NEW r \in Syncers, SyncPruneApply(r) PROVE TypeInv'
<1> DEFINE D == {ux \in Orphans(r) \X Addrs : sy[r].list[ux[1]][ux[2]] # 0}
<1>1. PICK E \in SUBSET D, L \in Lost(D) : \E S \in SUBSET E :
            /\ IF S = D /\ L = {} THEN NoFault ELSE Fault
            /\ nginx' = [t \in LBs \X Ups |->
                 IF t[1] # sy[r].lb THEN nginx[t]
                 ELSE [x \in Addrs |-> IF <<t[2], x>> \in E THEN 0 ELSE nginx[t][x]]]
            /\ late' = late \cup {[to |-> <<sy[r].lb, ux[1]>>, addr |-> ux[2], weight |-> 0] :
                                    ux \in L}
            /\ IF S = {} THEN UNCHANGED cache ELSE invalidateCache(sy[r].lb)
  BY DEF SyncPruneApply
<1>2. nginx' \in [LBs \X Ups -> Backends]
  BY <1>1 DEF TypeInv, TypeOK, Backends
<1>3. faults' \in 0..MaxFaults
  BY <1>1, TypeFault DEF TypeInv
<1>4. sy[r] \in SyncerType /\ sy[r].lb \in LBs
  BY DEF SyncPruneApply, TypeInv, TypeOK, SyncerOK
<1>5. cache' \in [LBs -> [Ups -> Backends] \cup {Absent}]
  BY <1>1, <1>4 DEF invalidateCache, TypeInv, TypeOK
<1>6. late' \subseteq [to : LBs \X Ups, addr : Addrs, weight : Nat]
  <2>1. L \subseteq Ups \X Addrs
    BY DEF Lost, Orphans
  <2> QED BY <1>1, <1>4, <2>1 DEF TypeInv, TypeOK
<1> QED BY <1>2, <1>3, <1>5, <1>6, IdleSyncerType, SyncerStep
        DEF SyncPruneApply, TypeInv, TypeOK

\* The end of a cached listing's time keeps the types.
LEMMA CacheExpiresType == ASSUME TypeInv, NEW lb \in LBs, CacheExpires(lb) PROVE TypeInv'
BY DEF TypeInv, TypeOK, CacheExpires

\* So does the execution of a request nobody waits for.
LEMMA CarryOutType == ASSUME TypeInv, NEW l \in late, CarryOut(l) PROVE TypeInv'
<1>1. l.to \in LBs \X Ups /\ l.addr \in Addrs /\ l.weight \in Nat
  BY DEF TypeInv, TypeOK
<1>2. nginx' \in [LBs \X Ups -> Backends]
  BY <1>1 DEF CarryOut, TypeInv, TypeOK, Backends
<1> QED BY <1>2 DEF TypeInv, TypeOK, CarryOut

\* Taking a key keeps the invariant: the worker gets a key of its own.
LEMMA GetType ==
    ASSUME TypeInv, NEW w \in Workers, NEW s \in Services, Get(w, s) PROVE TypeInv'
<1> DEFINE rec == [IdleWorker EXCEPT !.pc = "get", !.key = s]
<1>1. rec \in WorkerType /\ WorkerOK(rec)
  BY EmptyType DEF IdleWorker, WorkerType, WorkerPCs, WorkerOK
<1>2. TypeOK'
  BY TypeGet DEF TypeInv
<1> QED BY <1>1, <1>2, WorkerStep DEF Get

\* Done keeps the invariant: the worker is at rest again.
LEMMA DoneType == ASSUME TypeInv, NEW w \in Workers, processNextItem(w) PROVE TypeInv'
<1>1. IdleWorker \in WorkerType /\ WorkerOK(IdleWorker)
  BY EmptyType DEF IdleWorker, WorkerType, WorkerPCs, WorkerOK
<1>2. TypeOK'
  BY TypeDone DEF TypeInv, WorkerOK, processNextItem
<1> QED BY <1>1, <1>2, WorkerStep DEF processNextItem

\* The notifications a new process gets have the type of those before.
LEMMA AddAllType ==
    ASSUME NEW K, NEW S, Absent \notin S, NEW f \in [K -> S \cup {Absent}]
    PROVE  AddAll(f) \in [K -> Seq(Events(S))]
<1> SUFFICES ASSUME NEW k \in K, f[k] # Absent
             PROVE <<[type |-> "Add", obj |-> f[k]]>> \in Seq(Events(S))
  BY DEF AddAll
<1>1. [type |-> "Add", obj |-> f[k]] \in Events(S)
  BY DEF Events
<1> QED BY <1>1

\* A restart leaves every actor at rest.
LEMMA RestartType == ASSUME TypeInv, Restart PROVE TypeInv'
<1>1. /\ svcEvents' \in [Services -> Seq(Events(ServiceObjs))]
      /\ podEvents' \in [Pods -> Seq(Events(PodSet))]
      /\ nodeEvents' \in [Nodes -> Seq(Events(NodeSet))]
  BY AddAllType, ObjectsAssumption DEF Restart, TypeInv, TypeOK
<1>2. IdleWorker \in WorkerType /\ WorkerOK(IdleWorker)
  BY EmptyType DEF IdleWorker, WorkerType, WorkerPCs, WorkerOK
<1>3. restarts' \in 0..MaxRestarts
  BY BoundsAssumption DEF Restart, TypeInv, TypeOK
<1>4. TypeOK'
  BY <1>1, <1>2, <1>3, IdleSyncerType DEF Restart, TypeInv, TypeOK
<1> QED BY <1>2, <1>4, IdleSyncerType DEF Restart, TypeInv

\* The cluster changes nothing of the actors.
LEMMA EnvironmentType == ASSUME TypeInv, Environment PROVE TypeInv'
<1>1. ASSUME NEW s \in Services, ChangeService(s) PROVE TypeInv'
  BY <1>1, TypeChangeService, ActorsAtRest DEF ChangeService, TypeInv
<1>2. ASSUME NEW s \in Services, ResyncService(s) PROVE TypeInv'
  BY <1>2, TypeResync, ActorsAtRest DEF ResyncService, TypeInv
<1>3. ASSUME NEW p \in Pods, ChangePod(p) PROVE TypeInv'
  BY <1>3, TypeChangePod, ActorsAtRest DEF ChangePod, TypeInv
<1>4. ASSUME NEW n \in Nodes, ChangeNode(n) PROVE TypeInv'
  BY <1>4, TypeChangeNode, ActorsAtRest DEF ChangeNode, TypeInv
<1> QED BY <1>1, <1>2, <1>3, <1>4, CacheExpiresType, CarryOutType DEF Environment, Outside

\* One case per action of the event driven half.
LEMMA ReactiveType == ASSUME TypeInv, Reactive PROVE TypeInv'
<1>1. CASE processEvents
  <2>1. ASSUME NEW s \in Services, handleServiceEvent(s) PROVE TypeInv'
    BY <2>1, TypeServiceEvent, ActorsAtRest DEF handleServiceEvent, TypeInv
  <2>2. ASSUME NEW p \in Pods, handlePodEvent(p) PROVE TypeInv'
    BY <2>2, TypePodEvent, ActorsAtRest DEF handlePodEvent, TypeInv
  <2>3. ASSUME NEW n \in Nodes, handleNodeEvent(n) PROVE TypeInv'
    BY <2>3, TypeNodeEvent, ActorsAtRest DEF handleNodeEvent, TypeInv
  <2> QED BY <1>1, <2>1, <2>2, <2>3 DEF processEvents
<1>2. ASSUME NEW s \in Services, BackoffElapsed(s) PROVE TypeInv'
  BY <1>2, TypeBackoff, ActorsAtRest DEF BackoffElapsed, TypeInv
<1>3. ASSUME NEW w \in Workers, NEW s \in Services, Get(w, s) PROVE TypeInv'
  BY <1>3, GetType
<1>4. ASSUME NEW w \in Workers, syncHandler(w) PROVE TypeInv'
  BY <1>4, GetServiceType, ReadLastType, HandOverType, DrainType, ListFailsType, ForgetType,
     RecordType, BuildOwnType, MergeSharedType, PushListType, PushStoreType, PushApplyType,
     PushFailsType DEF syncHandler
<1>5. ASSUME NEW w \in Workers, processNextItem(w) PROVE TypeInv'
  BY <1>5, DoneType
<1> QED BY <1>1, <1>2, <1>3, <1>4, <1>5 DEF Reactive

\* One case per action of a pass.
LEMMA PeriodicType == ASSUME TypeInv, Periodic PROVE TypeInv'
BY SyncListType, SyncRegisterType, SyncBuildFailsType, SyncBuildType, SyncDecideType,
   SyncPushListType, SyncStoreType, SyncPushApplyType, SyncPruneListType, SyncPruneApplyType
   DEF Periodic, syncSingleLoadBalancer

\* A stuttering step keeps the invariant.
LEMMA StutterType == ASSUME TypeInv, UNCHANGED vars PROVE TypeInv'
BY DEF TypeInv, TypeOK, vars

\* The invariant is inductive.
LEMMA TypeStep == TypeInv /\ [Next]_vars => TypeInv'
BY EnvironmentType, ReactiveType, PeriodicType, RestartType, StutterType DEF Next

\* Type correctness of the whole controller (event loop, queue, workers,
\* reconcilers, restarts), for every set of services, pods, nodes, load balancers
\* and actors and every configuration the assumptions allow.
THEOREM TypeCorrect == Spec => []TypeOK
<1>1. Init => TypeInv
  BY TypeInvInit
<1>2. TypeInv /\ [Next]_vars => TypeInv'
  BY TypeStep
<1>3. TypeInv => TypeOK
  BY DEF TypeInv
<1> QED BY <1>1, <1>2, <1>3, PTL DEF Spec
=============================================================================
