------------------------- MODULE ConvergenceProofs -------------------------
(***************************************************************************)
(* What the load balancers serve once the event driven half is at rest, in *)
(* a cluster whose services keep their upstream.                           *)
(***************************************************************************)
EXTENDS RegistryProofs

-----------------------------------------------------------------------------
(* The invariant.                                                          *)

\* The services of upstream t.
Mine(t) == {s \in Services : \E o \in SvcObjs[s] : Target(o) = t}

\* The setting of the theorems: there is one worker (request_pool_size is 1), or
\* services do not share a load balancer; no request is executed after its call has
\* given up on it; the process does not restart; a service comes as an Add; its labels
\* name an upstream, always the same, and its port is valid.
Settled ==
    /\ Alone /\ ~Stragglers /\ MaxRestarts = 0 /\ ~GainLabels
    /\ \A s \in Services : \A o \in SvcObjs[s] :
         Named(o) /\ o.port # 0 /\ \A n \in SvcObjs[s] : Target(n) = Target(o)

EarlyPCs == {"get", "last", "check", "record", "build", "fail"}
CallPCs == {"push", "store", "apply"}
FlightPCs == {"merge"} \cup CallPCs

\* A worker has service s and has yet to build its upstream.
Early(s) == \E w \in Workers : wk[w].key = s /\ wk[w].pc \in EarlyPCs

\* A worker takes the backends of the deleted service s away.
Leaving(s) == \E w \in Workers : /\ wk[w].key = s /\ wk[w].cont = "forget"
                                 /\ wk[w].pc \in FlightPCs \cup {"forget"}

InFlight(t) == \E w \in Workers : wk[w].to = t /\ wk[w].pc \in FlightPCs

AddPending(s) == \E i \in DOMAIN svcEvents[s] : svcEvents[s][i].type = "Add"

\* The upstream of s is still to be synced, on account of s.
Due(s) == AddPending(s) \/ (lastKnown[s] # Absent /\ Pending(s) /\ ~Leaving(s))
Owed(s) == Due(s) \/ (lastKnown[s] # Absent /\ Early(s))

\* An event that is still to be handled will put s into the queue.
Will(s, p) ==
    /\ svc[s] # Absent
    /\ \/ /\ podEvents[p] # << >>
          /\ \/ stPods[p] # Absent /\ Selects(svc[s], stPods[p])
             \/ \E i \in DOMAIN podEvents[p] : Selects(svc[s], podEvents[p][i].obj)
       \/ /\ stPods[p] # Absent /\ Selects(svc[s], stPods[p])
          /\ stPods[p].node \in Nodes /\ nodeEvents[stPods[p].node] # << >>

Excused(t) == \E s \in Mine(t) : Owed(s) \/ \E p \in Pods : Will(s, p)

\* Upstream t is served as the listers ask, or the safety net keeps it.
Served(t) == nginx[t] = Wanted(t) \/ NetKeeps(t)

\* What GetState reports for upstream t is what is served, where there is no
\* safety net.
Netless(lb) == EmptyAllowed(lb) \/ DefaultBackend(lb) # Absent
Matches(t) == Netless(t[1]) => nginx[t] = Reported(t)

\* Every difference is being dealt with.
UpstreamInv(t) == InFlight(t) \/ Excused(t) \/ (Served(t) /\ Matches(t))

\* An Add that is still to be handled is the first event of a service that
\* nobody has taken up yet; a service that is there is known or announced.
AddInv(s) ==
    /\ AddPending(s) => /\ svcEvents[s][1].type = "Add"
                        /\ lastKnown[s] = Absent /\ stServices[s] = Absent
                        /\ s \notin dirty \cup waiting \cup processing
                        /\ \A i \in DOMAIN svcEvents[s] : svcEvents[s][i].type = "Add" => i = 1
    /\ svc[s] # Absent => lastKnown[s] # Absent \/ AddPending(s)

\* The events of a pod lead from the copy of the event loop to the lister.
PodAfter(e) == IF e.type = "Delete" THEN Absent ELSE e.obj
PodBefore(p, i) == IF i = 1 THEN stPods[p] ELSE PodAfter(podEvents[p][i - 1])
PodInv(p) ==
    /\ \A i \in DOMAIN podEvents[p] :
         /\ podEvents[p][i].type = "Add" <=> PodBefore(p, i) = Absent
         /\ podEvents[p][i].type = "Delete" => podEvents[p][i].obj = PodBefore(p, i)
    /\ pod[p] = PodBefore(p, Len(podEvents[p]) + 1)

\* What the worker has in its hands.
WorkerInv(w) ==
    LET x == wk[w] IN
      /\ x.svc \in SvcObjs[x.key] \cup {Absent} /\ x.last \in SvcObjs[x.key] \cup {Absent}
      /\ x.pc \notin {"idle", "get"} /\ x.svc = Absent => svc[x.key] = Absent
      /\ x.pc \in {"check", "build", "forget", "fail"} \cup FlightPCs => lastKnown[x.key] # Absent
      /\ x.pc = "check" => x.cont = "forget"
      /\ x.pc \in {"check", "forget"} \cup FlightPCs \cup {"build"} /\ x.cont = "forget" => x.svc = Absent
      /\ x.pc \in {"build"} \cup FlightPCs => x.cont \in {"forget", "done"}
      /\ x.pc = "forget" => x.cont = "forget"
      /\ x.pc = "check" => x.last # Absent
      /\ x.pc \in {"build", "merge"} =>
           /\ x.cur \in SvcObjs[x.curKey] /\ x.key \in Mine(Target(x.cur))
           /\ x.cont = "done" => x.curKey = x.key
           /\ x.cont = "forget" => x.curKey # x.key
           /\ x.cur = svc[x.curKey] \/ Due(x.curKey)
      /\ x.pc \in FlightPCs => x.key \in Mine(x.to)
      /\ x.pc = "merge" =>
           /\ x.to = Target(x.cur)
           /\ Excused(x.to) \/ x.want = BuiltOf({x.curKey})
      /\ x.pc \in CallPCs =>
           /\ Excused(x.to) \/ x.want = Wanted(x.to)
           /\ x.want = Reported(x.to)

ConvergenceInv ==
    /\ RegistryInv /\ OwnObjects
    /\ \A s \in Services : AddInv(s)
    /\ \A p \in Pods : PodInv(p)
    /\ \A w \in Workers : Busy(w) => WorkerInv(w)
    /\ \A t \in LBs \X Ups : UpstreamInv(t)

USE DEF cluster, events, state, queue, balancers, bounds, CallPCs

-----------------------------------------------------------------------------
(* What the listers make of an upstream.                                    *)

\* Pod p gives address x to service s.
Gives(s, p, x) == p \in Serving(svc[s]) /\ x \in AddrsOf(svc[s], p)

\* The weight built for an address is the number of pods, of all services in D, that
\* give it.
LEMMA BuiltCounts ==
    ASSUME NEW D
    PROVE  BuiltOf(D) = [x \in Addrs |-> Cardinality({sp \in D \X Pods :
                            svc[sp[1]].port # 0 /\ Gives(sp[1], sp[2], x)})]
<1> DEFINE f == [s \in D |-> svc[s]]
<1>1. DOMAIN f = D /\ \A s \in D : f[s] = svc[s]
  OBVIOUS
<1> HIDE DEF f
<1>2. ASSUME NEW x \in Addrs
      PROVE  {sp \in (DOMAIN f) \X Pods : /\ f[sp[1]].port # 0
                                          /\ sp[2] \in Serving(f[sp[1]])
                                          /\ x \in AddrsOf(f[sp[1]], sp[2])}
               = {sp \in D \X Pods : svc[sp[1]].port # 0 /\ Gives(sp[1], sp[2], x)}
  BY <1>1 DEF Gives
<1>3. Built(f) = [x \in Addrs |-> Cardinality({sp \in (DOMAIN f) \X Pods :
                            /\ f[sp[1]].port # 0
                            /\ sp[2] \in Serving(f[sp[1]])
                            /\ x \in AddrsOf(f[sp[1]], sp[2])})]
  BY DEF Built
<1>4. Built(f) = [x \in Addrs |-> Cardinality({sp \in D \X Pods :
                            svc[sp[1]].port # 0 /\ Gives(sp[1], sp[2], x)})]
  BY <1>2, <1>3
<1> QED BY <1>4 DEF BuiltOf, f

\* The pods of the services of D that give address x, by service.
Givers(D, x) == {sp \in D \X Pods : svc[sp[1]].port # 0 /\ Gives(sp[1], sp[2], x)}

\* The same, by the name of the set that is counted.
LEMMA BuiltGivers ==
    ASSUME NEW CONSTANT D PROVE BuiltOf(D) = [x \in Addrs |-> Cardinality(Givers(D, x))]
BY BuiltCounts DEF Givers

\* And in the next state.
LEMMA BuiltGiversNext ==
    ASSUME NEW CONSTANT D PROVE (BuiltOf(D) = [x \in Addrs |-> Cardinality(Givers(D, x))])'
<1>1. BuiltOf(D) = [x \in Addrs |-> Cardinality(Givers(D, x))]
  BY BuiltGivers
<1> QED BY <1>1, PTL

\* What the services of D get does not change.
Unmoved(D) == /\ \A s \in D : svc'[s] = svc[s]
              /\ \A s \in D, p \in Pods, x \in Addrs : Gives(s, p, x)' <=> Gives(s, p, x)

\* What is built for D changes only when something D is built from does.
LEMMA BuiltKept == ASSUME NEW CONSTANT D, Unmoved(D) PROVE BuiltOf(D)' = BuiltOf(D)
<1>1. \A x \in Addrs : Givers(D, x)' = Givers(D, x)
  BY DEF Unmoved, Givers
<1> QED BY <1>1, BuiltGivers, BuiltGiversNext

\* The own backends and those of the other services are those of all of them.
LEMMA BuiltMerged ==
    ASSUME NEW D \in SUBSET Services, NEW k \in Services \ D
    PROVE  mergeBackends(BuiltOf({k}), BuiltOf(D)) = BuiltOf(D \cup {k})
<1> DEFINE S(E, x) == {sp \in E \X Pods : svc[sp[1]].port # 0 /\ Gives(sp[1], sp[2], x)}
<1>1. \A E : BuiltOf(E) = [x \in Addrs |-> Cardinality(S(E, x))]
  BY BuiltCounts
<1>2. ASSUME NEW x \in Addrs
      PROVE  Cardinality(S({k}, x)) + Cardinality(S(D, x)) = Cardinality(S(D \cup {k}, x))
  <2>1. IsFiniteSet(Services \X Pods)
    BY ObjectsAssumption, FS_Product
  <2>2. S({k}, x) \subseteq Services \X Pods /\ S(D, x) \subseteq Services \X Pods
    OBVIOUS
  <2>3. IsFiniteSet(S({k}, x)) /\ IsFiniteSet(S(D, x))
    BY <2>1, <2>2, FS_Subset
  <2>4. S({k}, x) \cap S(D, x) = {}
    OBVIOUS
  <2>5. S(D \cup {k}, x) = S({k}, x) \cup S(D, x)
    OBVIOUS
  <2> DEFINE A == S({k}, x)
             B == S(D, x)
  <2> HIDE DEF S, A, B
  <2>6. Cardinality(A \cup B) = Cardinality(A) + Cardinality(B) - Cardinality(A \cap B)
    BY <2>3, FS_Union DEF A, B
  <2>7. Cardinality(A \cap B) = 0 /\ Cardinality(A) \in Nat /\ Cardinality(B) \in Nat
    BY <2>3, <2>4, FS_EmptySet, FS_CardinalityType DEF A, B
  <2>8. Cardinality(A) + Cardinality(B) = Cardinality(A \cup B)
    BY <2>6, <2>7
  <2> QED BY <2>5, <2>8, Zenon DEF A, B
<1> HIDE DEF S
<1>3. mergeBackends(BuiltOf({k}), BuiltOf(D))
        = [x \in Addrs |-> Cardinality(S({k}, x)) + Cardinality(S(D, x))]
  BY <1>1 DEF mergeBackends
<1> QED BY <1>1, <1>2, <1>3

-----------------------------------------------------------------------------
(* The setting: a home for every service.                                   *)

\* Two workers with different services are at different upstreams.
LEMMA Apart ==
    ASSUME Settled, NEW v \in Workers, NEW w \in Workers, v # w, NEW s \in Services,
           NEW k \in Services, s # k, NEW t, k \in Mine(t)
    PROVE  s \notin Mine(t)
<1> SUFFICES ASSUME NEW y \in SvcObjs[s], Target(y) = t PROVE FALSE
  BY DEF Mine
<1>1. PICK x \in SvcObjs[k] : Target(x) = t
  BY DEF Mine
<1>2. x.lb = y.lb /\ x.lb # ""
  <2>1. <<x.lb, x.up>> = <<y.lb, y.up>>
    BY <1>1 DEF Target
  <2>2. Named(x)
    BY DEF Settled
  <2> QED BY <2>1, <2>2 DEF Named
<1>3. Unshared
  BY DEF Settled, Alone
<1> QED BY <1>2, <1>3 DEF Unshared

\* The objects of a service name one upstream.
LEMMA HomeUnique ==
    ASSUME Settled, NEW s \in Services, NEW o \in SvcObjs[s]
    PROVE  /\ o \in ServiceObjs /\ o # Absent /\ Named(o) /\ o.port # 0
           /\ s \in Mine(Target(o)) /\ \A t : s \in Mine(t) => t = Target(o)
<1>1. o \in ServiceObjs /\ o # Absent
  BY ObjectsAssumption DEF ServiceObjs
<1> QED BY <1>1 DEF Settled, Mine

\* Who contributes to an upstream, and with whom a service shares it.
LEMMA OnMine == ASSUME Settled, OwnObjects, NEW t PROVE On(t) = {s \in Mine(t) : svc[s] # Absent}
<1>1. ASSUME NEW s \in Services, svc[s] # Absent
      PROVE  s \in Mine(t) <=> Target(svc[s]) = t /\ svc[s].port # 0
  <2>1. svc[s] \in SvcObjs[s]
    BY <1>1 DEF OwnObjects
  <2> QED BY <2>1, HomeUnique
<1> QED BY <1>1 DEF On, Mine

\* OnMine in the next state.
LEMMA OnMineNext ==
    ASSUME Settled, OwnObjects', NEW CONSTANT t PROVE On(t)' = {s \in Mine(t) : svc'[s] # Absent}
<1>1. ASSUME NEW s \in Services, svc'[s] # Absent
      PROVE  s \in Mine(t) <=> Target(svc'[s]) = t /\ svc'[s].port # 0
  <2>1. svc'[s] \in SvcObjs[s]
    BY <1>1 DEF OwnObjects
  <2> QED BY <2>1, HomeUnique
<1> QED BY <1>1 DEF On, Mine

\* The services MergeShared adds are the others on the upstream.
LEMMA OthersOn ==
    ASSUME Settled, OwnObjects, NEW t, NEW k \in Services
    PROVE  Others(k, t) = On(t) \ {k}
<1>1. ASSUME NEW s \in Services, svc[s] # Absent PROVE svc[s].port # 0
  <2>1. svc[s] \in SvcObjs[s]
    BY <1>1 DEF OwnObjects
  <2> QED BY <2>1, HomeUnique
<1> QED BY <1>1 DEF Others, On

\* While the services of an upstream do not move, what is wanted stays.
Still(t) == On(t)' = On(t) /\ Unmoved(On(t))

\* An upstream none of whose inputs changes keeps what it is to serve.
LEMMA StillWanted ==
    ASSUME NEW CONSTANT t, Still(t)
    PROVE  BuiltOf(On(t))' = BuiltOf(On(t)) /\ Wanted(t)' = Wanted(t)
<1>1. PICK D : D = On(t)
  OBVIOUS
<1>2. BuiltOf(D)' = BuiltOf(D)
  BY <1>1, BuiltKept DEF Still
<1>3. On(t)' = D
  BY <1>1 DEF Still
<1>4. BuiltOf(On(t))' = BuiltOf(D)' /\ BuiltOf(On(t)) = BuiltOf(D)
  BY <1>1, <1>3 DEF BuiltOf
<1> QED BY <1>1, <1>2, <1>3, <1>4 DEF Wanted

\* And the part of it that one service contributes.
LEMMA StillOne ==
    ASSUME NEW CONSTANT t, Still(t), NEW CONSTANT k \in On(t)
    PROVE  BuiltOf({k})' = BuiltOf({k})
BY BuiltKept DEF Still, Unmoved

-----------------------------------------------------------------------------
(* Steps of the cluster, of the event loop and of the queue: what is owed   *)
(* stays owed, and what moves becomes owed.                                 *)

Progress ==
    /\ UNCHANGED <<wk, nginx, stUpstreams>>
    /\ \A s \in Services :
         /\ Due(s) => Due(s)'
         /\ lastKnown[s] # Absent => lastKnown'[s] # Absent
         /\ svc'[s] = svc[s] \/ Due(s)'
         /\ svc[s] = Absent /\ s \in processing => svc'[s] = Absent
         /\ \A p \in Pods : Will(s, p) => Will(s, p)' \/ Owed(s)'
    /\ \A t \in Targets : Excused(t)' \/ Still(t)

\* Where a step only makes progress, an excuse for a difference is not lost.
LEMMA ExcusedStays ==
    ASSUME Progress, NEW CONSTANT t, Excused(t) PROVE Excused(t)'
<1>1. \A s \in Services : Owed(s) => Owed(s)'
  BY DEF Progress, Owed, Early
<1> QED BY <1>1 DEF Excused, Progress, Mine

\* Such a step keeps what is known of a worker it does not move.
LEMMA ProgressWorker ==
    ASSUME Settled, ConvergenceInv, Progress, NEW w \in Workers, Busy(w)' PROVE WorkerInv(w)'
<1> DEFINE x == wk[w]
<1>1. wk' = wk /\ nginx' = nginx /\ stUpstreams' = stUpstreams
  BY DEF Progress
<1>2. /\ Busy(w) /\ WorkerInv(w) /\ x.key \in Services /\ x.key \in processing
      /\ WorkerOK(x)
  BY <1>1 DEF Busy, ConvergenceInv, RegistryInv, TypeInv, WorkerOK, OneWorkerPerKey
<1>3. /\ x.pc \notin {"idle", "get"} /\ x.svc = Absent => svc'[x.key] = Absent
      /\ lastKnown[x.key] # Absent => lastKnown'[x.key] # Absent
  BY <1>2 DEF Progress, WorkerInv
<1>4. ASSUME x.pc \in {"build", "merge"}
      PROVE  x.cur = svc'[x.curKey] \/ Due(x.curKey)'
  <2>1. PICK c \in Services : c = x.curKey
    BY <1>2, <1>4 DEF WorkerOK
  <2>2. x.cur = svc[c] \/ Due(c)
    BY <1>2, <1>4, <2>1 DEF WorkerInv
  <2>3. x.cur = svc'[c] \/ Due(c)'
    BY <2>2 DEF Progress
  <2> QED BY <1>1, <2>1, <2>3 DEF Due, AddPending, Pending, Leaving
<1>5. ASSUME x.pc = "merge" PROVE Excused(x.to)' \/ x.want = BuiltOf({x.curKey})'
  <2>1. PICK t \in Targets : t = x.to
    BY <1>2, <1>5 DEF WorkerOK
  <2>2. PICK c \in Services : c = x.curKey
    BY <1>2, <1>5 DEF WorkerOK
  <2>3. CASE Excused(t)'
    BY <1>1, <2>1, <2>3 DEF Excused
  <2>4. CASE ~Excused(t)'
    <3>1. Still(t) /\ ~Excused(t)
      BY <2>4, ExcusedStays DEF Progress
    <3>2. x.cur \in SvcObjs[c] /\ t = Target(x.cur) /\ (x.cur = svc[c] \/ Due(c))
      BY <1>2, <1>5, <2>1, <2>2 DEF WorkerInv
    <3>3. c \in Mine(t) /\ x.cur # Absent
      BY <3>2, HomeUnique
    <3>4. x.cur = svc[c]
      BY <3>1, <3>2, <3>3 DEF Excused, Owed
    <3>5. c \in On(t)
      BY <3>3, <3>4, OnMine DEF ConvergenceInv
    <3>6. BuiltOf({c})' = BuiltOf({c})
      BY <3>1, <3>5, StillOne
    <3>7. x.want = BuiltOf({c})
      BY <1>2, <1>5, <2>1, <2>2, <3>1 DEF WorkerInv
    <3>8. BuiltOf({x.curKey})' = BuiltOf({c})'
      BY <1>1, <2>2 DEF BuiltOf
    <3> QED BY <3>6, <3>7, <3>8
  <2> QED BY <2>3, <2>4
<1>6. ASSUME x.pc \in CallPCs
      PROVE  /\ Excused(x.to)' \/ x.want = Wanted(x.to)'
             /\ x.want = Reported(x.to)'
  <2>1. PICK t \in Targets : t = x.to
    BY <1>2, <1>6, NamesAssumption DEF WorkerOK, Targets
  <2>2. Excused(t)' \/ x.want = Wanted(t)'
    <3>1. CASE ~Excused(t)'
      <4>1. Still(t) /\ ~Excused(t)
        BY <3>1, ExcusedStays DEF Progress
      <4> QED BY <1>2, <1>6, <2>1, <4>1, StillWanted DEF WorkerInv
    <3> QED BY <3>1
  <2>3. Excused(t)' = Excused(x.to)' /\ Wanted(t)' = Wanted(x.to)'
    BY <1>1, <2>1 DEF Excused, Wanted, On, BuiltOf
  <2> QED BY <1>1, <1>2, <1>6, <2>2, <2>3 DEF WorkerInv, Reported
<1> QED BY <1>1, <1>2, <1>3, <1>4, <1>5, <1>6 DEF WorkerInv, FlightPCs

\* And what is known of every upstream it does not write.
LEMMA ProgressUpstream ==
    ASSUME ConvergenceInv, Progress, NEW CONSTANT t \in LBs \X Ups PROVE UpstreamInv(t)'
<1>1. wk' = wk /\ nginx' = nginx /\ stUpstreams' = stUpstreams
  BY DEF Progress
<1>2. UpstreamInv(t) /\ t \in Targets
  BY NamesAssumption DEF ConvergenceInv, Targets
<1>3. CASE InFlight(t)
  BY <1>1, <1>3 DEF InFlight, UpstreamInv
<1>4. CASE Excused(t)'
  BY <1>4 DEF UpstreamInv
<1>5. CASE ~InFlight(t) /\ ~Excused(t)'
  <2>1. Still(t) /\ ~Excused(t)
    BY <1>2, <1>5, ExcusedStays DEF Progress
  <2>2. Served(t) /\ Matches(t)
    BY <1>2, <1>5, <2>1 DEF UpstreamInv
  <2>3. Served(t)'
    BY <1>1, <2>1, <2>2, StillWanted DEF Served, NetKeeps, Still
  <2>4. Matches(t)'
    BY <1>1, <2>2 DEF Matches, Reported
  <2> QED BY <2>3, <2>4 DEF UpstreamInv
<1> QED BY <1>3, <1>4, <1>5

\* What is left to show of such a step.
LEMMA OutsideStep ==
    ASSUME Settled, ConvergenceInv, RegistryInv', Progress, OwnObjects',
           \A s \in Services : AddInv(s)', \A p \in Pods : PodInv(p)'
    PROVE  ConvergenceInv'
BY ProgressWorker, ProgressUpstream DEF ConvergenceInv

\* A service that is there, and whose upstream is not owed on its account, is
\* registered as the lister has it.
LEMMA Registered ==
    ASSUME Settled, ConvergenceInv, NEW s \in Services, svc[s] # Absent
    PROVE  /\ ~Leaving(s)
           /\ ~Owed(s) => stServices[s] = svc[s] /\ lastKnown[s] # Absent
<1>1. ~Leaving(s)
  <2> SUFFICES ASSUME NEW w \in Workers, wk[w].key = s, wk[w].cont = "forget",
                      wk[w].pc \in FlightPCs \cup {"forget"}
               PROVE  FALSE
    BY DEF Leaving
  <2>1. WorkerInv(w)
    BY DEF ConvergenceInv, Busy, FlightPCs
  <2> QED BY <2>1 DEF WorkerInv, FlightPCs
<1>2. ASSUME ~Owed(s) PROVE stServices[s] = svc[s] /\ lastKnown[s] # Absent
  <2>1. ~AddPending(s) /\ lastKnown[s] # Absent /\ ~Pending(s)
    BY <1>1, <1>2 DEF Owed, Due, ConvergenceInv, AddInv
  <2>2. CASE s \notin processing
    BY <2>1, <2>2 DEF ConvergenceInv, RegistryInv, RegistryAgrees
  <2>3. CASE s \in processing
    <3>1. PICK w \in Workers : Busy(w) /\ wk[w].key = s
      BY <2>3 DEF ConvergenceInv, RegistryInv, OneWorkerPerKey
    <3>2. WorkerInv(w) /\ SyncInv(w) /\ wk[w] \in WorkerType
      BY <3>1 DEF ConvergenceInv, RegistryInv, TypeInv, TypeOK
    <3>3. wk[w].pc \in FlightPCs \cup {"forget", "done"}
      BY <1>2, <2>1, <3>1, <3>2
         DEF Owed, Early, EarlyPCs, FlightPCs, Busy, WorkerType, WorkerPCs
    <3>4. wk[w].pc # "forget" /\ (wk[w].pc \in FlightPCs => wk[w].cont = "done")
      BY <3>1, <3>2 DEF WorkerInv, FlightPCs
    <3> QED BY <2>1, <3>1, <3>2, <3>3, <3>4 DEF SyncInv, FlightPCs, Syncing
  <2> QED BY <2>1, <2>2, <2>3
<1> QED BY <1>1, <1>2

\* An appended notification is the last one, and the others stay.
LEMMA Appended ==
    ASSUME NEW S, NEW q \in Seq(S), NEW e \in S
    PROVE  /\ DOMAIN q = 1..Len(q) /\ DOMAIN Append(q, e) = 1..(Len(q) + 1)
           /\ Len(q) \in Nat /\ Len(Append(q, e)) = Len(q) + 1
           /\ \A i \in 1..Len(q) : Append(q, e)[i] = q[i]
           /\ Append(q, e)[Len(q) + 1] = e
           /\ Append(q, e) # << >>
<1>1. Len(Append(q, e)) = Len(q) + 1 /\ Len(q) \in Nat
  OBVIOUS
<1>2. Append(q, e) # << >>
  BY <1>1
<1> QED BY <1>1, <1>2

\* A change of a service makes its upstream due.
LEMMA ChangeServiceConverges ==
    ASSUME Settled, ConvergenceInv, RegistryInv', NEW CONSTANT s \in Services, ChangeService(s),
           ReturnsSettled(s)
    PROVE  ConvergenceInv'
<1> DEFINE q == svcEvents[s]
<1>1. PICK n \in (SvcObjs[s] \cup {Absent}) \ {svc[s]} : \E e \in ServiceNotice(svc[s], n) :
           /\ svc' = [svc EXCEPT ![s] = n]
           /\ svcEvents' = [svcEvents EXCEPT ![s] = Append(@, e)]
  BY DEF ChangeService
<1>2. PICK e \in ServiceNotice(svc[s], n) :
           /\ svc' = [svc EXCEPT ![s] = n]
           /\ svcEvents' = [svcEvents EXCEPT ![s] = Append(@, e)]
  BY <1>1
<1>3. /\ svc[s] \in SvcObjs[s] \cup {Absent} /\ Absent \notin SvcObjs[s]
      /\ q \in Seq(Events(ServiceObjs))
      /\ \A i \in DOMAIN q : q[i].obj \in SvcObjs[s]
  BY HomeUnique DEF ConvergenceInv, OwnObjects, RegistryInv, TypeInv, TypeOK
<1>4. e.obj \in SvcObjs[s] /\ (e.type = "Add" <=> svc[s] = Absent) /\ e \in Events(ServiceObjs)
  <2>1. e.obj \in SvcObjs[s] /\ (e.type = "Add" <=> svc[s] = Absent)
    BY <1>3 DEF ServiceNotice, Settled
  <2>2. e.obj \in ServiceObjs
    BY <2>1 DEF ServiceObjs
  <2> QED BY <1>3, <2>1, <2>2 DEF ServiceNotice, Events
<1>5. /\ svcEvents'[s] = Append(q, e) /\ svc'[s] = n
      /\ \A k \in Services \ {s} : svcEvents'[k] = svcEvents[k] /\ svc'[k] = svc[k]
  BY <1>2 DEF ConvergenceInv, RegistryInv, TypeInv, TypeOK
<1>6. UNCHANGED <<pod, node, podEvents, nodeEvents, stServices, stPods, stUpstreams, lastKnown,
                  dirty, processing, waiting, wk, nginx>>
  BY DEF ChangeService
<1>7. svc[s] = Absent => /\ lastKnown[s] = Absent /\ q = << >> /\ stServices[s] = Absent
                         /\ s \notin dirty \cup waiting \cup processing
  BY <1>1, <1>5 DEF ReturnsSettled, Pending, ConvergenceInv, RegistryInv, NoGhost
<1> HIDE DEF q
<1>8. /\ AddPending(s)' <=> AddPending(s) \/ e.type = "Add"
      /\ svcEvents'[s] # << >>
  BY <1>3, <1>4, <1>5, Appended DEF AddPending, q
<1>9. OwnObjects'
  <2>1. \A i \in DOMAIN svcEvents'[s] : svcEvents'[s][i].obj \in SvcObjs[s]
    BY <1>3, <1>4, <1>5, Appended
  <2> QED BY <1>1, <1>5, <1>6, <2>1 DEF ConvergenceInv, OwnObjects
<1>10. AddInv(s)'
  <2>1. CASE e.type = "Add"
    <3>1. svcEvents'[s][1] = e /\ DOMAIN svcEvents'[s] = 1..1
      <4>1. q = << >> /\ Len(q) = 0
        BY <1>4, <1>7, <2>1
      <4> QED BY <1>3, <1>4, <1>5, <4>1, Appended
    <3> QED BY <1>4, <1>6, <1>7, <1>8, <2>1, <3>1 DEF AddInv
  <2>2. CASE e.type # "Add"
    <3>1. ASSUME AddPending(s)
          PROVE  /\ svcEvents'[s][1].type = "Add"
                 /\ \A i \in DOMAIN svcEvents'[s] : svcEvents'[s][i].type = "Add" => i = 1
      <4>1. q[1].type = "Add" /\ 1 \in DOMAIN q
            /\ \A i \in DOMAIN q : q[i].type = "Add" => i = 1
        BY <1>3, <3>1 DEF AddPending, ConvergenceInv, AddInv, q
      <4> QED BY <1>3, <1>4, <1>5, <2>2, <4>1, Appended
    <3> QED BY <1>4, <1>5, <1>6, <1>8, <2>2, <3>1 DEF ConvergenceInv, AddInv
  <2> QED BY <2>1, <2>2
<1>11. \A k \in Services : AddInv(k)'
  BY <1>5, <1>6, <1>10 DEF ConvergenceInv, AddInv, AddPending
<1>12. \A p \in Pods : PodInv(p)'
  BY <1>6 DEF ConvergenceInv, PodInv, PodBefore
<1>13. Due(s)'
  <2>1. CASE svc[s] = Absent \/ AddPending(s)
    BY <1>4, <1>8, <2>1 DEF Due
  <2>2. CASE svc[s] # Absent /\ ~AddPending(s)
    <3>1. lastKnown[s] # Absent /\ ~Leaving(s)
      BY <2>2, Registered DEF ConvergenceInv, AddInv
    <3> QED BY <1>6, <1>8, <3>1 DEF Due, Pending, Leaving
  <2> QED BY <2>1, <2>2
<1>14. \A k \in Services : Due(k) => Due(k)'
  BY <1>5, <1>6, <1>13 DEF Due, AddPending, Pending, Leaving
<1>15. \A k \in Services \ {s}, p \in Pods : Will(k, p) => Will(k, p)'
  BY <1>5, <1>6 DEF Will
<1>16. ASSUME NEW CONSTANT t \in Targets PROVE Excused(t)' \/ Still(t)
  <2>1. CASE s \in Mine(t)
    BY <1>13, <2>1 DEF Excused, Owed
  <2>2. CASE s \notin Mine(t)
    <3>1. On(t) = {k \in Mine(t) : svc[k] # Absent} /\ On(t)' = {k \in Mine(t) : svc'[k] # Absent}
      BY <1>9, OnMine, OnMineNext DEF ConvergenceInv
    <3>2. Mine(t) \subseteq Services \ {s}
      BY <2>2 DEF Mine
    <3>3. On(t)' = On(t) /\ \A k \in On(t) : svc'[k] = svc[k]
      BY <1>5, <3>1, <3>2
    <3> QED BY <1>6, <3>3 DEF Still, Unmoved, Gives, Serving, AddrsOf
  <2> QED BY <2>1, <2>2
<1>17. Progress
  BY <1>5, <1>6, <1>7, <1>13, <1>14, <1>15, <1>16 DEF Progress, Owed
<1> QED BY <1>9, <1>11, <1>12, <1>17, OutsideStep

\* Steps that announce no service: they may queue registered ones.
LEMMA QueueOnly ==
    ASSUME ConvergenceInv, NEW D, \A s \in D : stServices[s] # Absent,
           UNCHANGED <<svc, svcEvents, lastKnown, stServices, wk, processing>>,
           dirty' \cup waiting' = dirty \cup waiting \cup D
    PROVE  /\ OwnObjects' /\ \A s \in Services : AddInv(s)'
           /\ \A s \in Services : Due(s) => Due(s)'
           /\ \A s \in Services : Owed(s) => Owed(s)'
           /\ \A s \in D : lastKnown[s] # Absent /\ ~Leaving(s) => Due(s)'
<1>1. \A s \in Services : AddPending(s)' <=> AddPending(s)
  BY DEF AddPending
<1>2. \A s \in Services : AddInv(s)'
  BY <1>1 DEF ConvergenceInv, AddInv
<1>3. \A s : Pending(s) => Pending(s)'
  BY DEF Pending
<1>4. \A s : (Leaving(s)' <=> Leaving(s)) /\ (Early(s)' <=> Early(s))
  BY DEF Leaving, Early
<1>5. \A s \in D : Pending(s)'
  BY DEF Pending
<1>6. OwnObjects'
  BY DEF ConvergenceInv, OwnObjects
<1> QED BY <1>1, <1>2, <1>3, <1>4, <1>5, <1>6 DEF Due, Owed

\* A cluster that does not change asks for nothing else.
LEMMA ClusterStill == ASSUME UNCHANGED <<svc, pod, node>> PROVE \A t : Still(t)
BY DEF Still, Unmoved, On, Gives, Serving, AddrsOf

\* The lister's object of a pod is the one the event loop has, or is announced.
LEMMA PodSeen ==
    ASSUME ConvergenceInv, NEW p \in Pods, pod[p] # Absent
    PROVE  \/ podEvents[p] = << >> /\ stPods[p] = pod[p]
           \/ \E i \in DOMAIN podEvents[p] : podEvents[p][i].obj = pod[p]
<1> DEFINE q == podEvents[p]
<1>1. q \in Seq(Events(PodSet)) /\ pod[p] = PodBefore(p, Len(q) + 1)
  BY DEF ConvergenceInv, RegistryInv, TypeInv, TypeOK, PodInv
<1>2. CASE Len(q) = 0
  BY <1>1, <1>2, EmptySeq DEF PodBefore
<1>3. CASE Len(q) > 0
  <2>1. Len(q) \in Nat /\ Len(q) \in DOMAIN q /\ Len(q) + 1 # 1 /\ (Len(q) + 1) - 1 = Len(q)
    BY <1>1, <1>3
  <2>2. pod[p] = PodAfter(q[Len(q)])
    BY <1>1, <2>1 DEF PodBefore
  <2> QED BY <2>1, <2>2 DEF PodAfter
<1> QED BY <1>1, <1>2, <1>3

\* The redelivery of a service asks for nothing new.
LEMMA ResyncConverges ==
    ASSUME Settled, ConvergenceInv, RegistryInv', NEW CONSTANT s \in Services, ResyncService(s)
    PROVE  ConvergenceInv'
<1> DEFINE e == [type |-> "Update", obj |-> svc[s]]
<1>1. /\ svcEvents'[s] = <<e>> /\ svcEvents[s] = << >> /\ svc[s] # Absent
      /\ \A k \in Services \ {s} : svcEvents'[k] = svcEvents[k]
  BY DEF ResyncService, ConvergenceInv, RegistryInv, TypeInv, TypeOK
<1>2. e.type = "Update" /\ e.obj = svc[s]
  OBVIOUS
<1> HIDE DEF e
<1>3. DOMAIN <<e>> = 1..1 /\ <<e>>[1] = e /\ <<e>> # << >>
  OBVIOUS
<1>4. UNCHANGED <<svc, pod, node, podEvents, nodeEvents, stServices, stPods, stUpstreams,
                  lastKnown, dirty, processing, waiting, wk, nginx>>
  BY DEF ResyncService
<1>5. \A k \in Services : AddPending(k)' <=> AddPending(k)
  BY <1>1, <1>2, <1>3 DEF AddPending
<1>6. OwnObjects'
  BY <1>1, <1>2, <1>3, <1>4 DEF ConvergenceInv, OwnObjects
<1>7. ~AddPending(s)
  BY <1>1, EmptySeq DEF AddPending
<1>8. \A k \in Services : AddInv(k)'
  BY <1>1, <1>4, <1>5, <1>7 DEF ConvergenceInv, AddInv
<1>9. \A p \in Pods : PodInv(p)'
  BY <1>4 DEF ConvergenceInv, PodInv, PodBefore
<1>10. \A k \in Services : Due(k) => Due(k)'
  BY <1>1, <1>3, <1>4, <1>5 DEF Due, Pending, Leaving
<1>11. Progress
  BY <1>4, <1>10, ClusterStill DEF Progress, Will
<1> QED BY <1>6, <1>8, <1>9, <1>11, OutsideStep

\* A change of a pod is announced to the services that select it, before or after.
LEMMA ChangePodConverges ==
    ASSUME Settled, ConvergenceInv, RegistryInv', NEW CONSTANT p \in Pods, ChangePod(p)
    PROVE  ConvergenceInv'
<1>0. PICK q : q = podEvents[p]
  OBVIOUS
<1> DEFINE old == pod[p]
<1>1. PICK n \in (PodObjs[p] \cup {Absent}) \ {pod[p]} :
           /\ pod' = [pod EXCEPT ![p] = n]
           /\ podEvents' = [podEvents EXCEPT ![p] = Append(@, ObjectNotice(pod[p], n))]
  BY DEF ChangePod
<1>2. PICK e : e = ObjectNotice(old, n)
  OBVIOUS
<1>3. /\ q \in Seq(Events(PodSet)) /\ old \in PodSet \cup {Absent}
      /\ n \in PodSet \cup {Absent} /\ n # old /\ Absent \notin PodSet
  <2>1. q \in Seq(Events(PodSet)) /\ old \in PodSet \cup {Absent}
    BY <1>0 DEF ConvergenceInv, RegistryInv, TypeInv, TypeOK
  <2>2. n \in PodSet \cup {Absent} /\ n # old
    BY DEF PodSet
  <2>3. Absent \notin PodSet
    BY ObjectsAssumption
  <2> QED BY <2>1, <2>2, <2>3
<1>4. /\ e \in Events(PodSet) /\ (e.type = "Add" <=> old = Absent)
      /\ e.type = "Delete" => e.obj = old
      /\ n = PodAfter(e) /\ (n # Absent => e.obj = n)
  BY <1>2, <1>3 DEF ObjectNotice, Events, PodAfter
<1>5. /\ podEvents'[p] = Append(q, e) /\ pod'[p] = n
      /\ \A k \in Pods \ {p} : podEvents'[k] = podEvents[k] /\ pod'[k] = pod[k]
  BY <1>0, <1>1, <1>2 DEF ConvergenceInv, RegistryInv, TypeInv, TypeOK
<1>6. UNCHANGED <<svc, node, svcEvents, nodeEvents, stServices, stPods, stUpstreams, lastKnown,
                  dirty, processing, waiting, wk, nginx>>
  BY DEF ChangePod
<1>7. PodInv(p)'
  <2>0. PICK r, l : r = Append(q, e) /\ l = Len(q)
    OBVIOUS
  <2>1. /\ DOMAIN q = 1..l /\ DOMAIN r = 1..(l + 1) /\ l \in Nat /\ Len(r) = l + 1
        /\ \A i \in 1..l : r[i] = q[i]
        /\ r[l + 1] = e
    BY <1>3, <1>4, <2>0, Appended
  <2>2. PodInv(p)
    BY DEF ConvergenceInv
  <2>3. podEvents'[p] = r /\ podEvents[p] = q /\ stPods' = stPods
    BY <1>0, <1>5, <1>6, <2>0
  <2>4. \A i \in 1..(l + 1) : PodBefore(p, i)' = PodBefore(p, i)
    <3> SUFFICES ASSUME NEW i \in 1..(l + 1), i # 1 PROVE r[i - 1] = q[i - 1]
      BY <2>3 DEF PodBefore
    <3> QED BY <2>1
  <2>5. PodBefore(p, l + 1) = old
    BY <2>0, <2>2, <2>3 DEF PodInv
  <2>6. PodBefore(p, l + 2)' = n
    <3>1. l + 2 # 1 /\ (l + 2) - 1 = l + 1
      BY <2>1
    <3> QED BY <1>4, <2>1, <2>3, <3>1 DEF PodBefore
  <2>7. ASSUME NEW i \in 1..(l + 1)
        PROVE  /\ r[i].type = "Add" <=> PodBefore(p, i) = Absent
               /\ r[i].type = "Delete" => r[i].obj = PodBefore(p, i)
    <3>1. CASE i = l + 1
      BY <1>4, <2>1, <2>5, <3>1
    <3>2. CASE i \in 1..l
      BY <2>1, <2>2, <2>3, <3>2 DEF PodInv
    <3> QED BY <2>1, <3>1, <3>2
  <2>8. Len(podEvents[p])' + 1 = l + 2
    BY <2>1, <2>3
  <2> QED BY <1>5, <2>1, <2>3, <2>4, <2>6, <2>7, <2>8 DEF PodInv
<1>8. ASSUME NEW CONSTANT k \in Pods \ {p} PROVE PodInv(k)'
  <2>1. podEvents'[k] = podEvents[k] /\ pod'[k] = pod[k] /\ stPods'[k] = stPods[k] /\ PodInv(k)
    BY <1>5, <1>6 DEF ConvergenceInv
  <2> QED BY <2>1 DEF PodInv, PodBefore
<1>9. /\ podEvents'[p] # << >>
      /\ \A i \in DOMAIN q : i \in DOMAIN podEvents'[p] /\ podEvents'[p][i] = q[i]
      /\ \E i \in DOMAIN podEvents'[p] : podEvents'[p][i] = e
  BY <1>3, <1>4, <1>5, Appended
<1>10. \A s \in Services, k \in Pods : Will(s, k) => Will(s, k)'
  BY <1>0, <1>5, <1>6, <1>9 DEF Will
<1>11. ASSUME NEW s \in Services, svc[s] # Absent,
              \/ old # Absent /\ Selects(svc[s], old)
              \/ n # Absent /\ Selects(svc[s], n)
       PROVE  Will(s, p)'
  <2>1. CASE n # Absent /\ Selects(svc[s], n)
    BY <1>4, <1>6, <1>9, <1>11, <2>1 DEF Will
  <2>2. CASE old # Absent /\ Selects(svc[s], old)
    <3>1. \/ stPods[p] = old
          \/ \E i \in DOMAIN q : q[i].obj = old
      BY <1>0, <2>2, PodSeen
    <3> QED BY <1>6, <1>9, <1>11, <2>2, <3>1 DEF Will
  <2> QED BY <1>11, <2>1, <2>2
<1>12. ASSUME NEW CONSTANT t \in Targets, ~Excused(t)' PROVE Still(t)
  <2>1. On(t)' = On(t) /\ \A s \in On(t) : svc'[s] = svc[s]
    BY <1>6 DEF On
  <2>2. ASSUME NEW s \in On(t), NEW k \in Pods, NEW x \in Addrs
        PROVE  Gives(s, k, x)' <=> Gives(s, k, x)
    <3>1. CASE k # p
      BY <1>5, <1>6, <3>1 DEF Gives, Serving, AddrsOf
    <3>2. CASE k = p
      <4>1. s \in Mine(t) /\ svc[s] # Absent /\ s \in Services
        BY OnMine DEF ConvergenceInv, On
      <4>2. ~Will(s, p)'
        BY <1>12, <4>1 DEF Excused
      <4>3. /\ old # Absent => ~Selects(svc[s], old)
            /\ n # Absent => ~Selects(svc[s], n)
        BY <1>11, <4>1, <4>2
      <4> QED BY <1>5, <1>6, <3>2, <4>3 DEF Gives, Serving
    <3> QED BY <3>1, <3>2
  <2> QED BY <2>1, <2>2 DEF Still, Unmoved
<1>13. /\ OwnObjects' /\ \A s \in Services : AddInv(s)'
       /\ \A s \in Services : Due(s) => Due(s)'
  <2>1. PICK D : D = {}
    OBVIOUS
  <2> QED BY <1>6, <2>1, QueueOnly
<1>14. Progress
  BY <1>6, <1>10, <1>12, <1>13 DEF Progress
<1> QED BY <1>7, <1>8, <1>13, <1>14, OutsideStep

\* A change of a node is announced to the services of the pods on it.
LEMMA ChangeNodeConverges ==
    ASSUME Settled, ConvergenceInv, RegistryInv', NEW CONSTANT n \in Nodes, ChangeNode(n)
    PROVE  ConvergenceInv'
<1>1. PICK m \in (NodeObjs[n] \cup {Absent}) \ {node[n]} :
           /\ node' = [node EXCEPT ![n] = m]
           /\ nodeEvents' = [nodeEvents EXCEPT ![n] = Append(@, ObjectNotice(node[n], m))]
  BY DEF ChangeNode
<1>2. /\ \A k \in Nodes \ {n} : node'[k] = node[k] /\ nodeEvents'[k] = nodeEvents[k]
      /\ nodeEvents'[n] # << >>
  <2>1. PICK e : e = ObjectNotice(node[n], m)
    OBVIOUS
  <2>2. e \in Events(NodeSet) /\ nodeEvents[n] \in Seq(Events(NodeSet))
    <3>1. node[n] \in NodeSet \cup {Absent} /\ m \in NodeSet \cup {Absent} /\ m # node[n]
      BY <1>1 DEF ConvergenceInv, RegistryInv, TypeInv, TypeOK, NodeSet
    <3> QED BY <2>1, <3>1 DEF ObjectNotice, Events, ConvergenceInv, RegistryInv, TypeInv, TypeOK
  <2>3. nodeEvents'[n] = Append(nodeEvents[n], e)
    BY <1>1, <2>1 DEF ConvergenceInv, RegistryInv, TypeInv, TypeOK
  <2>4. nodeEvents'[n] # << >>
    BY <2>2, <2>3, Appended
  <2> QED BY <1>1, <2>4 DEF ConvergenceInv, RegistryInv, TypeInv, TypeOK
<1>3. UNCHANGED <<svc, pod, svcEvents, podEvents, stServices, stPods, stUpstreams, lastKnown,
                  dirty, processing, waiting, wk, nginx>>
  BY DEF ChangeNode
<1>4. \A p \in Pods : PodInv(p)'
  BY <1>3 DEF ConvergenceInv, PodInv, PodBefore
<1>5. \A s \in Services, p \in Pods : Will(s, p) => Will(s, p)'
  BY <1>2, <1>3 DEF Will
<1>6. ASSUME NEW CONSTANT t \in Targets, ~Excused(t)' PROVE Still(t)
  <2>1. On(t)' = On(t) /\ \A s \in On(t) : svc'[s] = svc[s]
    BY <1>3 DEF On
  <2>2. ASSUME NEW s \in On(t), NEW p \in Pods, NEW x \in Addrs
        PROVE  Gives(s, p, x)' <=> Gives(s, p, x)
    <3>1. (p \in Serving(svc[s]))' <=> p \in Serving(svc[s])
      BY <1>3 DEF Serving
    <3>2. CASE p \in Serving(svc[s]) /\ pod[p].node = n
      <4>1. s \in Mine(t) /\ svc[s] # Absent /\ s \in Services
        BY OnMine DEF ConvergenceInv, On
      <4>2. pod[p] # Absent /\ Selects(svc[s], pod[p])
        BY <3>2 DEF Serving
      <4>3. \/ podEvents[p] = << >> /\ stPods[p] = pod[p]
            \/ \E i \in DOMAIN podEvents[p] : podEvents[p][i].obj = pod[p]
        BY <4>2, PodSeen
      <4>4. (\E i \in DOMAIN podEvents[p] : podEvents[p][i].obj = pod[p]) => podEvents[p] # << >>
        BY EmptySeq
      <4>5. Will(s, p)'
        BY <1>2, <1>3, <3>2, <4>1, <4>2, <4>3, <4>4 DEF Will
      <4> QED BY <1>6, <4>1, <4>5 DEF Excused
    <3>3. CASE p \in Serving(svc[s]) /\ pod[p].node # n
      <4>1. pod[p].node \in Nodes \ {n}
        <5>1. pod[p] \in PodSet /\ pod[p].node # NoNode
          BY <3>3 DEF Serving, ConvergenceInv, RegistryInv, TypeInv, TypeOK
        <5> QED BY <3>3, <5>1, PodsAssumption
      <4>2. node'[pod[p].node] = node[pod[p].node]
        BY <1>2, <4>1
      <4> QED BY <1>3, <3>1, <4>2 DEF Gives, AddrsOf
    <3> QED BY <1>3, <3>1, <3>2, <3>3 DEF Gives
  <2> QED BY <2>1, <2>2 DEF Still, Unmoved
<1>7. /\ OwnObjects' /\ \A s \in Services : AddInv(s)'
      /\ \A s \in Services : Due(s) => Due(s)'
  <2>1. PICK D : D = {}
    OBVIOUS
  <2> QED BY <1>3, <2>1, QueueOnly
<1>8. Progress
  BY <1>3, <1>5, <1>6, <1>7 DEF Progress
<1> QED BY <1>4, <1>7, <1>8, OutsideStep

\* The first notification is taken, the others move up.
LEMMA Taken ==
    ASSUME NEW S, NEW q \in Seq(S), q # << >>
    PROVE  /\ Head(q) = q[1] /\ 1 \in DOMAIN q /\ DOMAIN q = 1..Len(q)
           /\ Tail(q) \in Seq(S) /\ Len(q) \in Nat /\ Len(Tail(q)) = Len(q) - 1
           /\ DOMAIN Tail(q) = 1..(Len(q) - 1)
           /\ \A i \in DOMAIN Tail(q) : Tail(q)[i] = q[i + 1] /\ i + 1 \in DOMAIN q
<1>1. Len(q) \in Nat /\ Len(q) # 0
  BY EmptySeq
<1>2. Tail(q) \in Seq(S) /\ Len(Tail(q)) = Len(q) - 1
  BY <1>1
<1> QED BY <1>1, <1>2

\* A service event puts the service into the queue.
LEMMA ServiceEventConverges ==
    ASSUME Settled, ConvergenceInv, RegistryInv', NEW CONSTANT s \in Services,
           handleServiceEvent(s)
    PROVE  ConvergenceInv'
<1>1. PICK q : q = svcEvents[s]
  OBVIOUS
<1>2. q \in Seq(Events(ServiceObjs)) /\ q # << >>
  BY <1>1 DEF handleServiceEvent, ConvergenceInv, RegistryInv, TypeInv, TypeOK
<1>3. /\ svcEvents'[s] = Tail(q) /\ lastKnown'[s] = Remember(lastKnown[s], q[1])
      /\ \A k \in Services \ {s} : /\ svcEvents'[k] = svcEvents[k] /\ lastKnown'[k] = lastKnown[k]
                                   /\ stServices'[k] = stServices[k]
  BY <1>1, <1>2, Taken DEF handleServiceEvent, ConvergenceInv, RegistryInv, TypeInv, TypeOK
<1>4. /\ dirty' = dirty \cup {s}
      /\ UNCHANGED <<svc, pod, node, podEvents, nodeEvents, stPods, stUpstreams, processing,
                     waiting, wk, nginx>>
  BY DEF handleServiceEvent
<1>5. /\ AddPending(s) <=> \E i \in DOMAIN q : q[i].type = "Add"
      /\ AddPending(s)' <=> \E i \in DOMAIN Tail(q) : Tail(q)[i].type = "Add"
  BY <1>1, <1>3 DEF AddPending
<1>6. ~AddPending(s)'
  <2>1. \A i \in DOMAIN q : q[i].type = "Add" => i = 1
    BY <1>1, <1>5 DEF ConvergenceInv, AddInv
  <2>2. \A i \in DOMAIN Tail(q) : Tail(q)[i].type # "Add"
    <3> SUFFICES ASSUME NEW i \in DOMAIN Tail(q), Tail(q)[i].type = "Add" PROVE FALSE
      OBVIOUS
    <3>1. q[i + 1].type = "Add" /\ i + 1 \in DOMAIN q /\ i \in 1..(Len(q) - 1) /\ Len(q) \in Nat
      BY <1>2, Taken
    <3> QED BY <2>1, <3>1
  <2> QED BY <1>5, <2>2
<1>7. q[1].obj \in SvcObjs[s] /\ q[1].obj # Absent
  <2>1. 1 \in DOMAIN q
    BY <1>2, Taken
  <2>2. q[1].obj \in SvcObjs[s]
    BY <1>1, <2>1 DEF ConvergenceInv, OwnObjects
  <2> QED BY <2>2, HomeUnique
<1>8. AddPending(s) => lastKnown'[s] # Absent
  BY <1>1, <1>3, <1>7 DEF ConvergenceInv, AddInv, Remember
<1>9. lastKnown[s] # Absent => lastKnown'[s] # Absent
  BY <1>3 DEF Remember
<1>10. OwnObjects'
  <2>1. \A i \in DOMAIN Tail(q) : Tail(q)[i].obj \in SvcObjs[s]
    BY <1>1, <1>2, Taken DEF ConvergenceInv, OwnObjects
  <2>2. lastKnown'[s] \in SvcObjs[s] \cup {Absent}
    BY <1>3, <1>7 DEF ConvergenceInv, OwnObjects, Remember
  <2> QED BY <1>3, <1>4, <2>1, <2>2 DEF ConvergenceInv, OwnObjects
<1>11. AddInv(s)'
  BY <1>4, <1>6, <1>8, <1>9 DEF ConvergenceInv, AddInv
<1>12. \A k \in Services : AddInv(k)'
  BY <1>3, <1>4, <1>11 DEF ConvergenceInv, AddInv, AddPending
<1>13. \A p \in Pods : PodInv(p)'
  BY <1>4 DEF ConvergenceInv, PodInv, PodBefore
<1>14. Due(s) => Due(s)'
  <2>1. AddPending(s) => ~Leaving(s)
    BY DEF ConvergenceInv, AddInv, RegistryInv, OneWorkerPerKey, Leaving, Busy, FlightPCs
  <2>2. Leaving(s)' <=> Leaving(s)
    BY <1>4 DEF Leaving
  <2> QED BY <1>4, <1>8, <1>9, <2>1, <2>2 DEF Due, Pending
<1>15. \A k \in Services : Due(k) => Due(k)'
  BY <1>3, <1>4, <1>14 DEF Due, Pending, AddPending, Leaving
<1>16. Progress
  BY <1>3, <1>4, <1>9, <1>15, ClusterStill DEF Progress, Will
<1> QED BY <1>10, <1>12, <1>13, <1>16, OutsideStep

\* Services that an event queues become due; what it queues is registered.
LEMMA Queued ==
    ASSUME Settled, ConvergenceInv, NEW s \in Services, svc[s] # Absent, NEW P, NEW o \in P,
           Selects(svc[s], o), ~Owed(s)
    PROVE  s \in ServicesOf(P) /\ lastKnown[s] # Absent /\ ~Leaving(s)
BY Registered DEF ServicesOf

\* A pod event queues the services that select the pod, before or after.
LEMMA PodEventConverges ==
    ASSUME Settled, ConvergenceInv, RegistryInv', NEW CONSTANT p \in Pods, handlePodEvent(p)
    PROVE  ConvergenceInv'
<1>1. PICK q, e : q = podEvents[p] /\ e = q[1]
  OBVIOUS
<1>2. q \in Seq(Events(PodSet)) /\ q # << >> /\ Head(q) = e
  BY <1>1, Taken DEF handlePodEvent, ConvergenceInv, RegistryInv, TypeInv, TypeOK
<1>3. PICK D : D = ServicesOf(EventPods(p, e))
  OBVIOUS
<1>4. /\ podEvents'[p] = Tail(q) /\ stPods'[p] = PodAfter(e)
      /\ \A k \in Pods \ {p} : podEvents'[k] = podEvents[k] /\ stPods'[k] = stPods[k]
  BY <1>1, <1>2 DEF handlePodEvent, PodAfter, ConvergenceInv, RegistryInv, TypeInv, TypeOK
<1>5. /\ dirty' = dirty \cup D
      /\ UNCHANGED <<svc, pod, node, svcEvents, nodeEvents, stServices, stUpstreams, lastKnown,
                     processing, waiting, wk, nginx>>
  BY <1>1, <1>2, <1>3 DEF handlePodEvent
<1>6. PICK l : l = Len(q)
  OBVIOUS
<1>7. /\ 1 \in DOMAIN q /\ DOMAIN q = 1..l /\ l \in Nat /\ l >= 1
      /\ Len(Tail(q)) = l - 1 /\ DOMAIN Tail(q) = 1..(l - 1)
      /\ \A i \in 1..(l - 1) : Tail(q)[i] = q[i + 1]
  <2>1. /\ 1 \in DOMAIN q /\ DOMAIN q = 1..l /\ l \in Nat
        /\ Len(Tail(q)) = l - 1 /\ DOMAIN Tail(q) = 1..(l - 1)
        /\ \A i \in 1..(l - 1) : Tail(q)[i] = q[i + 1]
    BY <1>2, <1>6, Taken
  <2> QED BY <2>1
<1>8. PodInv(p)'
  <2>1. PICK r : r = Tail(q)
    OBVIOUS
  <2>2. /\ Len(r) = l - 1 /\ DOMAIN r = 1..(l - 1)
        /\ \A i \in 1..(l - 1) : r[i] = q[i + 1]
        /\ podEvents'[p] = r /\ podEvents[p] = q
    BY <1>1, <1>4, <1>7, <2>1
  <2>3. PodInv(p)
    BY DEF ConvergenceInv
  <2>4. ASSUME NEW i \in 1..l PROVE PodBefore(p, i)' = PodBefore(p, i + 1)
    <3>1. i + 1 # 1 /\ (i + 1) - 1 = i
      BY <1>7
    <3>2. CASE i = 1
      BY <1>1, <1>4, <2>2, <3>1, <3>2 DEF PodBefore
    <3>3. CASE i # 1
      <4>1. r[i - 1] = q[i]
        BY <1>7, <2>2, <3>3
      <4> QED BY <2>2, <3>1, <3>3, <4>1 DEF PodBefore
    <3> QED BY <3>2, <3>3
  <2>5. ASSUME NEW i \in 1..(l - 1)
        PROVE  /\ r[i].type = "Add" <=> PodBefore(p, i + 1) = Absent
               /\ r[i].type = "Delete" => r[i].obj = PodBefore(p, i + 1)
    <3>1. i + 1 \in 1..l
      BY <1>7
    <3> QED BY <1>7, <2>2, <2>3, <3>1 DEF PodInv
  <2>6. pod'[p] = PodBefore(p, l + 1)
    BY <1>5, <1>6, <2>2, <2>3 DEF PodInv
  <2>7. l \in 1..l /\ Len(podEvents[p])' + 1 = l /\ 1..(l - 1) \subseteq 1..l
    BY <1>7, <2>2
  <2> QED BY <2>2, <2>4, <2>5, <2>6, <2>7 DEF PodInv
<1>9. ASSUME NEW CONSTANT k \in Pods \ {p} PROVE PodInv(k)'
  <2>1. podEvents'[k] = podEvents[k] /\ pod'[k] = pod[k] /\ stPods'[k] = stPods[k] /\ PodInv(k)
    BY <1>4, <1>5, <1>9 DEF ConvergenceInv
  <2> QED BY <2>1 DEF PodInv, PodBefore
<1>10. \A s \in D : stServices[s] # Absent
  BY <1>3 DEF ServicesOf
<1>11. /\ OwnObjects' /\ \A s \in Services : AddInv(s)'
       /\ \A s \in Services : (Due(s) => Due(s)') /\ (Owed(s) => Owed(s)')
       /\ \A s \in D : lastKnown[s] # Absent /\ ~Leaving(s) => Due(s)'
  BY <1>5, <1>10, QueueOnly
\* The copy that the event replaces is among its pods.
<1>12. stPods[p] # Absent => stPods[p] \in EventPods(p, e)
  <2>1. /\ e.type = "Add" <=> stPods[p] = Absent
        /\ e.type = "Delete" => e.obj = stPods[p]
    BY <1>1, <1>7 DEF ConvergenceInv, PodInv, PodBefore
  <2>2. e.type \in {"Add", "Update", "Delete"}
    <3>1. \A i \in DOMAIN q : q[i] \in Events(PodSet)
      BY <1>2
    <3>2. e \in Events(PodSet)
      BY <1>1, <1>7, <3>1
    <3> QED BY <3>2 DEF Events
  <2> QED BY <2>1, <2>2 DEF EventPods
<1>13. ASSUME NEW s \in Services, Will(s, p) PROVE Will(s, p)' \/ Owed(s)'
  <2>1. CASE Owed(s)
    BY <1>11, <2>1
  <2>2. CASE ~Owed(s) /\ \E o \in EventPods(p, e) : Selects(svc[s], o)
    <3>1. s \in D /\ lastKnown[s] # Absent /\ ~Leaving(s)
      BY <1>3, <1>13, <2>2, Queued DEF Will
    <3> QED BY <1>11, <3>1 DEF Owed
  <2>3. CASE \A o \in EventPods(p, e) : ~Selects(svc[s], o)
    <3>1. ~(stPods[p] # Absent /\ Selects(svc[s], stPods[p])) /\ ~Selects(svc[s], e.obj)
      BY <1>12, <2>3 DEF EventPods
    <3>2. PICK i \in DOMAIN q : Selects(svc[s], q[i].obj)
      BY <1>1, <1>13, <3>1 DEF Will
    <3>3. i # 1
      BY <1>1, <3>1, <3>2
    <3>4. i - 1 \in DOMAIN Tail(q) /\ Tail(q)[i - 1] = q[i]
      BY <1>7, <3>3
    <3>5. Tail(q) # << >>
      BY <3>4, EmptySeq
    <3> QED BY <1>4, <1>5, <1>13, <3>2, <3>4, <3>5 DEF Will
  <2> QED BY <2>1, <2>2, <2>3
<1>14. \A s \in Services, k \in Pods \ {p} : Will(s, k) => Will(s, k)'
  BY <1>4, <1>5 DEF Will
<1>15. Progress
  BY <1>5, <1>11, <1>13, <1>14, ClusterStill DEF Progress
<1> QED BY <1>8, <1>9, <1>11, <1>15, OutsideStep

\* A node event queues the services of the pods on it.
LEMMA NodeEventConverges ==
    ASSUME Settled, ConvergenceInv, RegistryInv', NEW CONSTANT n \in Nodes, handleNodeEvent(n)
    PROVE  ConvergenceInv'
<1>1. PICK D : D = ServicesOf(PodsOn(n))
  OBVIOUS
<1>2. \A k \in Nodes \ {n} : nodeEvents'[k] = nodeEvents[k]
  BY DEF handleNodeEvent, ConvergenceInv, RegistryInv, TypeInv, TypeOK
<1>3. /\ dirty' = dirty \cup D
      /\ UNCHANGED <<svc, pod, node, svcEvents, podEvents, stServices, stPods, stUpstreams,
                     lastKnown, processing, waiting, wk, nginx>>
  BY <1>1 DEF handleNodeEvent
<1>4. \A p \in Pods : PodInv(p)'
  BY <1>3 DEF ConvergenceInv, PodInv, PodBefore
<1>5. \A s \in D : stServices[s] # Absent
  BY <1>1 DEF ServicesOf
<1>6. /\ OwnObjects' /\ \A s \in Services : AddInv(s)'
      /\ \A s \in Services : (Due(s) => Due(s)') /\ (Owed(s) => Owed(s)')
      /\ \A s \in D : lastKnown[s] # Absent /\ ~Leaving(s) => Due(s)'
  BY <1>3, <1>5, QueueOnly
<1>7. ASSUME NEW s \in Services, NEW p \in Pods, Will(s, p) PROVE Will(s, p)' \/ Owed(s)'
  <2>1. CASE Owed(s)
    BY <1>6, <2>1
  <2>2. CASE ~Owed(s) /\ stPods[p] # Absent /\ Selects(svc[s], stPods[p]) /\ stPods[p].node = n
    <3>1. stPods[p] \in PodsOn(n)
      BY <2>2 DEF PodsOn
    <3>2. s \in D /\ lastKnown[s] # Absent /\ ~Leaving(s)
      BY <1>1, <1>7, <2>2, <3>1, Queued DEF Will
    <3> QED BY <1>6, <3>2 DEF Owed
  <2>3. CASE ~(stPods[p] # Absent /\ Selects(svc[s], stPods[p]) /\ stPods[p].node = n)
    BY <1>2, <1>3, <1>7, <2>3 DEF Will
  <2> QED BY <2>1, <2>2, <2>3
<1>8. Progress
  BY <1>3, <1>6, <1>7, ClusterStill DEF Progress
<1> QED BY <1>4, <1>6, <1>8, OutsideStep

\* A key that comes back from its backoff is still due.
LEMMA BackoffConverges ==
    ASSUME Settled, ConvergenceInv, RegistryInv', NEW CONSTANT s \in Services, BackoffElapsed(s)
    PROVE  ConvergenceInv'
<1>1. UNCHANGED <<svc, pod, node, svcEvents, podEvents, nodeEvents, stServices, stPods,
                  stUpstreams, lastKnown, processing, wk, nginx>>
  BY DEF BackoffElapsed
<1>2. PICK D : D = {}
  OBVIOUS
<1>3. dirty' \cup waiting' = dirty \cup waiting \cup D
  BY <1>2 DEF BackoffElapsed
<1>4. /\ OwnObjects' /\ \A k \in Services : AddInv(k)'
      /\ \A k \in Services : Due(k) => Due(k)'
  BY <1>1, <1>2, <1>3, QueueOnly
<1>5. \A p \in Pods : PodInv(p)'
  BY <1>1 DEF ConvergenceInv, PodInv, PodBefore
<1>6. Progress
  BY <1>1, <1>4, ClusterStill DEF Progress, Will
<1> QED BY <1>4, <1>5, <1>6, OutsideStep

-----------------------------------------------------------------------------
(* Steps of the worker.  Nothing that the upstreams should serve moves.     *)

LEMMA HomeOne == ASSUME Settled, NEW s, NEW t, NEW u, s \in Mine(t), s \in Mine(u) PROVE t = u
BY DEF Settled, Mine

\* An upstream that nobody writes stays excused or served.
LEMMA UpstreamStays ==
    ASSUME NEW CONSTANT t, UpstreamInv(t), UNCHANGED <<svc, pod, node, podEvents, nodeEvents, stPods>>,
           nginx'[t] = nginx[t], stUpstreams'[t] = stUpstreams[t],
           InFlight(t) => InFlight(t)', \A s \in Mine(t) : Owed(s) => Owed(s)'
    PROVE  UpstreamInv(t)'
<1>1. Still(t)
  BY ClusterStill
<1>2. Excused(t) => Excused(t)'
  BY DEF Excused, Will
<1>3. Served(t) => Served(t)'
  BY <1>1, StillWanted DEF Served, NetKeeps, Still
<1>4. Matches(t) => Matches(t)'
  BY DEF Matches, Reported
<1> QED BY <1>2, <1>3, <1>4 DEF UpstreamInv

\* A worker that is at another service, of another upstream, than k.
Elsewhere(v, k) == wk[v].key # k /\ \A t : k \in Mine(t) => wk[v].key \notin Mine(t)

\* A step on service k leaves what is known of such a worker.
LEMMA OtherWorker ==
    ASSUME Settled, NEW CONSTANT k, NEW CONSTANT v \in Workers, Busy(v), WorkerInv(v),
           WorkerOK(wk[v]), wk'[v] = wk[v], Elsewhere(v, k),
           UNCHANGED <<svc, pod, node, podEvents, nodeEvents, stPods>>,
           \A s \in Services \ {k} : /\ lastKnown'[s] = lastKnown[s]
                                     /\ Due(s) => Due(s)'
                                     /\ Owed(s) => Owed(s)',
           \A t \in Targets : k \in Mine(t) \/ stUpstreams'[t] = stUpstreams[t]
    PROVE  WorkerInv(v)'
<1>1. PICK x : x = wk[v]
  OBVIOUS
<1>2. /\ x.key \in Services \ {k} /\ wk'[v] = x /\ WorkerOK(x)
      /\ \A t : x.key \in Mine(t) => k \notin Mine(t)
  BY <1>1 DEF Elsewhere, Busy, WorkerOK
<1>3. lastKnown'[x.key] = lastKnown[x.key] /\ svc' = svc
  BY <1>2
<1>4. ASSUME NEW CONSTANT t, x.key \in Mine(t)
      PROVE  /\ Excused(t) => Excused(t)'
             /\ Wanted(t)' = Wanted(t)
             /\ \A c \in Mine(t) : BuiltOf({c})' = BuiltOf({c}) /\ (Due(c) => Due(c)')
  <2>1. Still(t) /\ k \notin Mine(t)
    BY <1>2, <1>4, ClusterStill
  <2>2. \A s \in Mine(t) : (Owed(s) => Owed(s)') /\ (Due(s) => Due(s)')
    BY <2>1 DEF Mine
  <2>3. Excused(t) => Excused(t)'
    BY <2>2 DEF Excused, Will
  <2>4. ASSUME NEW CONSTANT c PROVE BuiltOf({c})' = BuiltOf({c})
    BY BuiltKept DEF Unmoved, Gives, Serving, AddrsOf
  <2> QED BY <2>1, <2>2, <2>3, <2>4, StillWanted
<1>5. ASSUME x.pc \in {"build", "merge"}
      PROVE  /\ x.cur \in SvcObjs[x.curKey] /\ x.curKey \in Services
             /\ x.key \in Mine(Target(x.cur)) /\ x.curKey \in Mine(Target(x.cur))
             /\ x.cur = svc[x.curKey] \/ Due(x.curKey)
  <2>1. x.curKey \in Services
    BY <1>2, <1>5 DEF WorkerOK
  <2>2. x.cur \in SvcObjs[x.curKey] /\ x.key \in Mine(Target(x.cur))
    BY <1>1, <1>5 DEF WorkerInv
  <2>3. x.cur = svc[x.curKey] \/ Due(x.curKey)
    BY <1>1, <1>5 DEF WorkerInv
  <2> QED BY <2>1, <2>2, <2>3, HomeUnique
<1>6. ASSUME x.pc \in {"build", "merge"} PROVE x.cur = svc'[x.curKey] \/ Due(x.curKey)'
  BY <1>3, <1>4, <1>5, <1>6
<1>7. ASSUME x.pc = "merge" PROVE Excused(x.to)' \/ x.want = BuiltOf({x.curKey})'
  <2>1. x.to = Target(x.cur) /\ (Excused(x.to) \/ x.want = BuiltOf({x.curKey}))
    BY <1>1, <1>7 DEF WorkerInv
  <2> QED BY <1>4, <1>5, <1>7, <2>1
<1>8. ASSUME x.pc \in CallPCs
      PROVE  /\ Excused(x.to)' \/ x.want = Wanted(x.to)'
             /\ x.want = Reported(x.to)'
  <2>1. /\ x.key \in Mine(x.to) /\ (Excused(x.to) \/ x.want = Wanted(x.to))
        /\ x.want = Reported(x.to)
    BY <1>1, <1>8 DEF WorkerInv, FlightPCs
  <2>2. x.to \in Targets
    BY <1>2, <1>8, NamesAssumption DEF WorkerOK, Targets
  <2>3. stUpstreams'[x.to] = stUpstreams[x.to]
    BY <1>2, <2>1, <2>2
  <2> QED BY <1>4, <2>1, <2>3 DEF Reported
<1>9. /\ Due(wk[v].curKey)' <=> Due(x.curKey)'
      /\ Excused(wk[v].to)' <=> Excused(x.to)'
      /\ Wanted(wk[v].to)' = Wanted(x.to)' /\ Reported(wk[v].to)' = Reported(x.to)'
      /\ BuiltOf({wk[v].curKey})' = BuiltOf({x.curKey})'
  BY <1>2 DEF Due, AddPending, Pending, Leaving, Excused, Wanted, On, BuiltOf, Reported
<1> QED BY <1>1, <1>2, <1>3, <1>6, <1>7, <1>8, <1>9 DEF WorkerInv, FlightPCs

\* The worker that takes a key is early, so that the key stays owed.
LEMMA GetConverges ==
    ASSUME Settled, ConvergenceInv, RegistryInv', NEW CONSTANT w \in Workers,
           NEW CONSTANT s \in Services, Get(w, s)
    PROVE  ConvergenceInv'
<1>1. /\ wk'[w].pc = "get" /\ wk'[w].key = s /\ wk'[w].svc = Absent /\ wk'[w].last = Absent
      /\ wk[w].pc = "idle"
      /\ \A v \in Workers \ {w} : wk'[v] = wk[v]
  BY DEF Get, IdleWorker, ConvergenceInv, RegistryInv, TypeInv, TypeOK
<1>2. ASSUME NEW v \in Workers \ {w}, Busy(v) PROVE Elsewhere(v, s) /\ WorkerOK(wk[v])
  <2>1. Busy(v)' /\ Busy(w)' /\ wk'[v].key = wk[v].key
    BY <1>1, <1>2 DEF Busy
  <2>2. wk[v].key # s /\ WorkerOK(wk[v]) /\ wk[v].key \in Services
    BY <1>1, <1>2, <2>1 DEF ConvergenceInv, RegistryInv, TypeInv, OneWorkerPerKey, WorkerOK, Busy
  <2> QED BY <2>2, Apart DEF Elsewhere
<1>3. /\ UNCHANGED <<svc, pod, node, svcEvents, podEvents, nodeEvents, stServices, stPods,
                     stUpstreams, lastKnown, waiting, nginx>>
      /\ dirty' = dirty \ {s} /\ processing' = processing \cup {s} /\ s \in dirty
  BY DEF Get
<1>4. ASSUME NEW k \in Services PROVE AddInv(k)'
  <2>1. AddPending(s) => FALSE
    BY <1>3 DEF ConvergenceInv, AddInv
  <2> QED BY <1>3, <2>1 DEF ConvergenceInv, AddInv, AddPending
<1>5. ASSUME NEW k \in Services \ {s} PROVE (Due(k)' <=> Due(k)) /\ (Owed(k)' <=> Owed(k))
  <2>1. (Early(k)' <=> Early(k)) /\ (Leaving(k)' <=> Leaving(k))
    BY <1>1 DEF Leaving, Early, FlightPCs, EarlyPCs
  <2>2. (AddPending(k)' <=> AddPending(k)) /\ (Pending(k)' <=> Pending(k))
    BY <1>3 DEF AddPending, Pending
  <2> QED BY <1>3, <2>1, <2>2 DEF Owed, Due
<1>6. ASSUME Owed(s) PROVE Owed(s)'
  <2>1. lastKnown[s] # Absent
    BY <1>3, <1>6 DEF Owed, Due, ConvergenceInv, AddInv
  <2>2. Early(s)'
    BY <1>1 DEF Early, EarlyPCs
  <2> QED BY <1>3, <2>1, <2>2 DEF Owed
<1>7. ASSUME NEW CONSTANT v \in Workers, Busy(v)' PROVE WorkerInv(v)'
  <2>1. CASE v = w
    BY <1>1, <2>1 DEF WorkerInv, FlightPCs
  <2>2. CASE v # w
    <3>1. Busy(v) /\ wk'[v] = wk[v]
      BY <1>1, <1>7, <2>2 DEF Busy
    <3>2. WorkerInv(v)
      BY <3>1 DEF ConvergenceInv
    <3> QED BY <1>2, <1>3, <1>5, <2>2, <3>1, <3>2, OtherWorker
  <2> QED BY <2>1, <2>2
<1>8. ASSUME NEW CONSTANT t \in LBs \X Ups PROVE UpstreamInv(t)'
  <2>1. InFlight(t) => InFlight(t)'
    BY <1>1 DEF InFlight, FlightPCs
  <2> QED BY <1>3, <1>5, <1>6, <2>1, UpstreamStays DEF ConvergenceInv, Mine
<1>9. OwnObjects' /\ \A p \in Pods : PodInv(p)'
  BY <1>3 DEF ConvergenceInv, OwnObjects, PodInv, PodBefore
<1> QED BY <1>4, <1>7, <1>8, <1>9 DEF ConvergenceInv

\* A worker that failed leaves its key waiting; one that is done owes nothing.
LEMMA DoneConverges ==
    ASSUME Settled, ConvergenceInv, RegistryInv', NEW CONSTANT w \in Workers, processNextItem(w)
    PROVE  ConvergenceInv'
<1>1. PICK k \in Services : k = wk[w].key
  BY DEF processNextItem, ConvergenceInv, RegistryInv, TypeInv, WorkerOK
<1>2. /\ wk'[w].pc = "idle" /\ wk[w].pc \in {"done", "fail"}
      /\ \A v \in Workers \ {w} : wk'[v] = wk[v]
  BY DEF processNextItem, IdleWorker, ConvergenceInv, RegistryInv, TypeInv, TypeOK
<1>3. ASSUME NEW v \in Workers \ {w}, Busy(v) PROVE Elsewhere(v, k) /\ WorkerOK(wk[v])
  <2>1. wk[v].key # k /\ WorkerOK(wk[v]) /\ wk[v].key \in Services
    BY <1>1, <1>2, <1>3 DEF ConvergenceInv, RegistryInv, TypeInv, OneWorkerPerKey, WorkerOK, Busy
  <2> QED BY <2>1, Apart DEF Elsewhere
<1>4. /\ UNCHANGED <<svc, pod, node, svcEvents, podEvents, nodeEvents, stServices, stPods,
                     stUpstreams, lastKnown, dirty, nginx>>
      /\ waiting' = waiting \cup Retry(w) /\ processing' = processing \ {k}
  BY <1>1 DEF processNextItem
<1>5. k \in processing /\ WorkerInv(w)
  BY <1>1, <1>2 DEF ConvergenceInv, RegistryInv, OneWorkerPerKey, Busy
<1>6. Retry(w) \subseteq {k} /\ (wk[w].pc = "fail" => k \in waiting')
  BY <1>1, <1>4 DEF Retry
<1>7. ASSUME NEW s \in Services PROVE AddInv(s)'
  BY <1>4, <1>5, <1>6 DEF ConvergenceInv, AddInv, AddPending
<1>8. ASSUME NEW s \in Services \ {k} PROVE (Due(s) => Due(s)') /\ (Owed(s) => Owed(s)')
  <2>1. (Early(s)' <=> Early(s)) /\ (Leaving(s)' <=> Leaving(s))
    BY <1>1, <1>2 DEF Leaving, Early, FlightPCs, EarlyPCs
  <2>2. (AddPending(s)' <=> AddPending(s)) /\ (Pending(s) => Pending(s)')
    BY <1>4 DEF AddPending, Pending
  <2> QED BY <1>4, <2>1, <2>2 DEF Owed, Due
<1>9. ASSUME Owed(k) PROVE Owed(k)'
  <2>1. ~Leaving(k)' /\ (Early(k) => wk[w].pc = "fail")
    BY <1>1, <1>2, <1>3 DEF Leaving, Early, FlightPCs, EarlyPCs, Elsewhere, Busy
  <2>2. CASE Due(k)
    BY <1>4, <2>1, <2>2 DEF Owed, Due, AddPending, Pending
  <2>3. CASE Early(k) /\ lastKnown[k] # Absent
    BY <1>4, <1>6, <2>1, <2>3 DEF Owed, Due, Pending
  <2> QED BY <1>9, <2>2, <2>3 DEF Owed
<1>10. ASSUME NEW CONSTANT t \in LBs \X Ups PROVE UpstreamInv(t)'
  <2>1. InFlight(t) => InFlight(t)'
    BY <1>2 DEF InFlight, FlightPCs
  <2> QED BY <1>4, <1>8, <1>9, <2>1, UpstreamStays DEF ConvergenceInv, Mine
<1>11. ASSUME NEW CONSTANT v \in Workers, Busy(v)' PROVE WorkerInv(v)'
  <2>1. v # w
    BY <1>2, <1>11 DEF Busy
  <2>2. Busy(v) /\ wk'[v] = wk[v]
    BY <1>2, <1>11, <2>1 DEF Busy
  <2>3. WorkerInv(v)
    BY <2>2 DEF ConvergenceInv
  <2> QED BY <1>3, <1>4, <1>8, <2>1, <2>2, <2>3, OtherWorker
<1>12. OwnObjects' /\ \A p \in Pods : PodInv(p)'
  BY <1>4 DEF ConvergenceInv, OwnObjects, PodInv, PodBefore
<1> QED BY <1>7, <1>10, <1>11, <1>12 DEF ConvergenceInv

\* syncHandler changes no lister, no event and no copy of a pod.
LEMMA HandlerRest ==
    ASSUME NEW w \in Workers, syncHandler(w)
    PROVE  UNCHANGED <<svc, pod, node, svcEvents, podEvents, nodeEvents, stPods, dirty, processing,
                       waiting>>
<1>1. CASE GetService(w) \/ ReadLast(w) \/ ListFails(w) \/ BuildOwn(w)
  BY <1>1 DEF GetService, ReadLast, ListFails, CallFails, BuildOwn, WorkerOnly
<1>2. CASE \E o \in Services : HandOver(w, o)
  BY <1>2 DEF HandOver, WorkerOnly
<1>3. CASE Drain(w) \/ ForgetService(w) \/ RecordService(w)
  BY <1>3 DEF Drain, ForgetService, RecordService
<1>4. CASE MergeShared(w)
  BY <1>4 DEF MergeShared, WorkerOnly
<1>5. CASE PushList(w) \/ PushStore(w) \/ PushApply(w) \/ PushFails(w)
  BY <1>5 DEF PushList, PushStore, PushApply, PushFails, WorkerOnly
<1> QED BY <1>1, <1>2, <1>3, <1>4, <1>5 DEF syncHandler

\* What every step of syncHandler on service k may rely on.
Step(w, k) ==
    /\ k \in Services /\ wk[w].key = k /\ wk'[w].key = k
    /\ k \in processing /\ ~AddPending(k)
    /\ WorkerInv(w) /\ SyncInv(w) /\ wk[w] \in WorkerType /\ WorkerOK(wk[w]) /\ Busy(w)
    /\ wk \in [Workers -> WorkerType] /\ nginx \in [LBs \X Ups -> Backends]
    /\ stUpstreams \in [Targets -> Backends \cup {Absent}]
    /\ lastKnown \in [Services -> ServiceObjs \cup {Absent}]
    /\ \A v \in Workers \ {w} :
         /\ wk'[v] = wk[v]
         /\ Busy(v) => Elsewhere(v, k) /\ WorkerInv(v) /\ WorkerOK(wk[v])
    /\ Early(k) => wk[w].pc \in EarlyPCs
    /\ Leaving(k)' => wk'[w].cont = "forget" /\ wk'[w].pc \in FlightPCs \cup {"forget"}
    /\ UNCHANGED <<svc, pod, node, svcEvents, podEvents, nodeEvents, stPods, dirty, processing,
                   waiting>>
    /\ \A s \in Services \ {k} : lastKnown'[s] = lastKnown[s] /\ stServices'[s] = stServices[s]
    /\ \A s \in Services \ {k} : (Due(s)' <=> Due(s)) /\ (Owed(s)' <=> Owed(s))
    /\ \A t : Still(t)
    /\ OwnObjects /\ \A t \in LBs \X Ups : UpstreamInv(t)

\* What every step of syncHandler has in common: one worker moves, on one key, and nobody
\* else is at its upstream.
LEMMA StepFacts ==
    ASSUME Settled, ConvergenceInv, NEW CONSTANT w \in Workers, syncHandler(w)
    PROVE  \E k \in Services : Step(w, k)
<1>1. HandlerFrame(w)
  BY HandlerKeeps DEF ConvergenceInv, RegistryInv
<1>2. PICK k \in Services : k = wk[w].key
  BY <1>1 DEF HandlerFrame, Busy, ConvergenceInv, RegistryInv, TypeInv, WorkerOK
<1>3. k \in processing /\ ~AddPending(k)
  BY <1>1, <1>2 DEF HandlerFrame, ConvergenceInv, RegistryInv, OneWorkerPerKey, AddInv
<1>4. UNCHANGED <<svc, pod, node, svcEvents, podEvents, nodeEvents, stPods, dirty, processing,
                  waiting>>
  BY HandlerRest
<1>5. ASSUME NEW v \in Workers \ {w}
      PROVE  wk'[v] = wk[v] /\ (Busy(v) => Elsewhere(v, k) /\ WorkerInv(v) /\ WorkerOK(wk[v]))
  <2>1. wk'[v] = wk[v] /\ Busy(w)
    BY <1>1, <1>5 DEF HandlerFrame
  <2>2. ASSUME Busy(v) PROVE Elsewhere(v, k) /\ WorkerInv(v) /\ WorkerOK(wk[v])
    <3>1. WorkerInv(v) /\ WorkerOK(wk[v])
      BY <1>5, <2>2 DEF ConvergenceInv, RegistryInv, TypeInv
    <3>2. wk[v].key # k /\ wk[v].key \in Services
      BY <1>2, <1>5, <2>1, <2>2, <3>1 DEF ConvergenceInv, RegistryInv, OneWorkerPerKey, WorkerOK, Busy
    <3> QED BY <1>2, <1>5, <3>1, <3>2, Apart DEF Elsewhere
  <2> QED BY <2>1, <2>2
<1>6. /\ wk'[w].key = k /\ WorkerInv(w) /\ SyncInv(w) /\ wk[w] \in WorkerType
      /\ WorkerOK(wk[w]) /\ Busy(w)
  BY <1>1, <1>2 DEF HandlerFrame, ConvergenceInv, RegistryInv, TypeInv, TypeOK
<1>7. \A s \in Services \ {k} : lastKnown'[s] = lastKnown[s] /\ stServices'[s] = stServices[s]
  BY <1>1, <1>2 DEF HandlerFrame
<1>8. ASSUME NEW s \in Services \ {k} PROVE (Due(s)' <=> Due(s)) /\ (Owed(s)' <=> Owed(s))
  <2>1. (Early(s)' <=> Early(s)) /\ (Leaving(s)' <=> Leaving(s))
    BY <1>2, <1>5, <1>6 DEF Early, Leaving
  <2>2. (AddPending(s)' <=> AddPending(s)) /\ (Pending(s)' <=> Pending(s))
    BY <1>4 DEF AddPending, Pending
  <2> QED BY <1>7, <2>1, <2>2 DEF Due, Owed
<1>9. \A t : Still(t)
  BY <1>4, ClusterStill
<1>10. /\ wk \in [Workers -> WorkerType] /\ nginx \in [LBs \X Ups -> Backends]
       /\ stUpstreams \in [Targets -> Backends \cup {Absent}]
       /\ lastKnown \in [Services -> ServiceObjs \cup {Absent}]
       /\ OwnObjects /\ \A t \in LBs \X Ups : UpstreamInv(t)
  BY DEF ConvergenceInv, RegistryInv, TypeInv, TypeOK
<1>11. /\ Early(k) => wk[w].pc \in EarlyPCs
       /\ Leaving(k)' => wk'[w].cont = "forget" /\ wk'[w].pc \in FlightPCs \cup {"forget"}
  BY <1>2, <1>5 DEF Early, Leaving, EarlyPCs, FlightPCs, Elsewhere, Busy
<1> QED BY <1>2, <1>3, <1>4, <1>5, <1>6, <1>7, <1>8, <1>9, <1>10, <1>11 DEF Step

\* The part of a step that is not about the upstream of service k.
LEMMA StepElsewhere ==
    ASSUME Settled, NEW CONSTANT w \in Workers, NEW CONSTANT k, Step(w, k),
           NEW CONSTANT t \in LBs \X Ups, k \notin Mine(t),
           nginx'[t] = nginx[t], stUpstreams'[t] = stUpstreams[t]
    PROVE  UpstreamInv(t)'
<1>1. wk[w].pc \in FlightPCs => wk[w].to # t
  BY DEF Step, WorkerInv
<1>2. InFlight(t) => InFlight(t)'
  BY <1>1 DEF Step, InFlight
<1>3. \A s \in Mine(t) : Owed(s) => Owed(s)'
  BY DEF Step, Mine
<1> QED BY <1>2, <1>3, UpstreamStays DEF Step

\* What is left to show of a step of syncHandler.
LEMMA StepConverges ==
    ASSUME Settled, ConvergenceInv, RegistryInv', NEW CONSTANT w \in Workers,
           NEW CONSTANT k, Step(w, k),
           lastKnown'[k] \in SvcObjs[k] \cup {Absent}, svc[k] = Absent \/ lastKnown'[k] # Absent,
           WorkerInv(w)',
           \A t \in LBs \X Ups : \/ k \notin Mine(t) /\ nginx'[t] = nginx[t]
                                 \/ k \in Mine(t) /\ UpstreamInv(t)',
           \A t \in Targets : k \in Mine(t) \/ stUpstreams'[t] = stUpstreams[t]
    PROVE  ConvergenceInv'
<1>1. OwnObjects' /\ \A p \in Pods : PodInv(p)'
  BY DEF Step, ConvergenceInv, OwnObjects, PodInv, PodBefore
<1>2. ASSUME NEW s \in Services PROVE AddInv(s)'
  BY DEF Step, ConvergenceInv, AddInv, AddPending
<1>3. \A t \in LBs \X Ups : UpstreamInv(t)'
  BY StepElsewhere, NamesAssumption DEF Targets
<1>4. ASSUME NEW CONSTANT v \in Workers, Busy(v)' PROVE WorkerInv(v)'
  <2>1. CASE v # w
    <3>1. wk'[v] = wk[v] /\ Busy(v) /\ Elsewhere(v, k) /\ WorkerInv(v) /\ WorkerOK(wk[v])
      BY <1>4, <2>1 DEF Step, Busy
    <3>2. /\ UNCHANGED <<svc, pod, node, podEvents, nodeEvents, stPods>>
          /\ \A s \in Services \ {k} : /\ lastKnown'[s] = lastKnown[s]
                                       /\ Due(s) => Due(s)'
                                       /\ Owed(s) => Owed(s)'
      BY DEF Step
    <3> QED BY <3>1, <3>2, OtherWorker
  <2> QED BY <2>1
<1> QED BY <1>1, <1>2, <1>3, <1>4 DEF ConvergenceInv

\* As long as the worker has yet to build, the upstream is owed.
LEMMA StepEarly ==
    ASSUME NEW CONSTANT w \in Workers, NEW CONSTANT k, Step(w, k), lastKnown'[k] # Absent,
           wk'[w].pc \in EarlyPCs, NEW CONSTANT t, k \in Mine(t)
    PROVE  UpstreamInv(t)'
<1>1. Owed(k)'
  BY DEF Step, Owed, Early
<1> QED BY <1>1 DEF UpstreamInv, Excused

\* A worker on a service that is not known owes nothing.
LEMMA StepUnknown ==
    ASSUME NEW CONSTANT w \in Workers, NEW CONSTANT k, Step(w, k), lastKnown[k] = Absent,
           wk[w].pc \notin FlightPCs, nginx' = nginx, stUpstreams' = stUpstreams,
           NEW CONSTANT t \in LBs \X Ups
    PROVE  UpstreamInv(t)'
<1>1. ~Owed(k) /\ (InFlight(t) => InFlight(t)')
  BY DEF Step, Owed, Due, InFlight
<1>2. \A s \in Mine(t) : Owed(s) => Owed(s)'
  BY <1>1 DEF Step, Mine
<1> QED BY <1>1, <1>2, UpstreamStays DEF Step

\* Reading the service keeps the invariant.
LEMMA GetServiceConverges ==
    ASSUME Settled, ConvergenceInv, RegistryInv', NEW CONSTANT w \in Workers, NEW CONSTANT k,
           Step(w, k), GetService(w)
    PROVE  ConvergenceInv'
<1>1. /\ wk[w].pc = "get" /\ wk'[w].pc = "last" /\ wk'[w].svc = svc[k] /\ wk'[w].last = wk[w].last
      /\ UNCHANGED <<lastKnown, nginx, stUpstreams>>
  BY DEF GetService, WorkerOnly, Step, WorkerType
<1>2. svc[k] \in SvcObjs[k] \cup {Absent} /\ lastKnown[k] \in SvcObjs[k] \cup {Absent}
  BY DEF Step, OwnObjects
<1>3. WorkerInv(w)'
  BY <1>1, <1>2 DEF WorkerInv, Step, FlightPCs
<1>4. svc[k] = Absent \/ lastKnown[k] # Absent
  BY DEF Step, ConvergenceInv, AddInv
<1>5. \A t \in LBs \X Ups : k \in Mine(t) => UpstreamInv(t)'
  BY <1>1, StepEarly, StepUnknown DEF EarlyPCs, FlightPCs
<1> QED BY <1>1, <1>2, <1>3, <1>4, <1>5, StepConverges

\* So does reading lastKnownServices,
LEMMA ReadLastConverges ==
    ASSUME Settled, ConvergenceInv, RegistryInv', NEW CONSTANT w \in Workers, NEW CONSTANT k,
           Step(w, k), ReadLast(w)
    PROVE  ConvergenceInv'
<1>1. PICK last, to, cont : /\ last = lastKnown[k]
                            /\ to = AfterLast(wk[w].svc, last)
                            /\ cont = IF wk[w].svc = Absent THEN "forget" ELSE "record"
  OBVIOUS
<1>2. /\ wk' = [wk EXCEPT ![w] = [wk[w] EXCEPT !.pc = to, !.last = last, !.cont = cont]]
      /\ UNCHANGED <<lastKnown, nginx, stUpstreams>> /\ wk[w].pc = "last"
  BY <1>1 DEF ReadLast, WorkerOnly, Step
<1>3. wk'[w].pc = to /\ wk'[w].last = last /\ wk'[w].cont = cont /\ wk'[w].svc = wk[w].svc
  BY <1>2 DEF Step, WorkerType
<1>4. /\ wk[w].svc \in SvcObjs[k] \cup {Absent} /\ last \in SvcObjs[k] \cup {Absent}
      /\ wk[w].svc = Absent => svc[k] = Absent
      /\ Absent \notin SvcObjs[k]
  BY <1>1, <1>2, HomeUnique DEF Step, WorkerInv, OwnObjects
<1>5. /\ to \in {"done", "check", "record"}
      /\ to = "done" => last = Absent /\ wk[w].svc = Absent
      /\ to = "check" => last # Absent /\ wk[w].svc = Absent
  <2>1. CASE wk[w].svc = Absent
    <3>1. last # Absent => Named(last)
      BY <1>4, HomeUnique DEF Step
    <3> QED BY <1>1, <2>1, <3>1 DEF AfterLast
  <2>2. CASE wk[w].svc # Absent
    <3>1. last # Absent => Target(last) = Target(wk[w].svc)
      BY <1>4, <2>2 DEF Step, Settled
    <3> QED BY <1>1, <2>2, <3>1 DEF AfterLast, MustDrain
  <2> QED BY <2>1, <2>2
<1>6. WorkerInv(w)'
  BY <1>1, <1>2, <1>3, <1>4, <1>5 DEF WorkerInv, Step, FlightPCs
<1>7. svc[k] = Absent \/ lastKnown[k] # Absent
  BY DEF Step, ConvergenceInv, AddInv
<1>8. \A t \in LBs \X Ups : k \in Mine(t) => UpstreamInv(t)'
  BY <1>1, <1>2, <1>3, <1>5, StepEarly, StepUnknown DEF EarlyPCs, FlightPCs
<1> QED BY <1>1, <1>2, <1>4, <1>6, <1>7, <1>8, StepConverges

\* handing the upstream over to a service that still uses it,
LEMMA HandOverConverges ==
    ASSUME Settled, ConvergenceInv, RegistryInv', NEW CONSTANT w \in Workers, NEW CONSTANT k,
           Step(w, k), NEW CONSTANT o \in Services, HandOver(w, o)
    PROVE  ConvergenceInv'
<1>1. /\ wk[w].pc = "check" /\ wk'[w].pc = "build" /\ wk'[w].svc = wk[w].svc
      /\ wk'[w].last = wk[w].last /\ wk'[w].cont = wk[w].cont
      /\ wk'[w].cur = svc[o] /\ wk'[w].curKey = o
      /\ UNCHANGED <<lastKnown, nginx, stUpstreams>>
  BY DEF HandOver, WorkerOnly, Step, WorkerType
<1>2. o # k /\ svc[o] # Absent /\ Target(svc[o]) = Target(wk[w].last)
  BY DEF HandOver, Others, Step
<1>3. svc[o] \in SvcObjs[o] /\ wk[w].last \in SvcObjs[k] /\ wk[w].cont = "forget"
  BY <1>1, <1>2 DEF Step, OwnObjects, WorkerInv
<1>4. k \in Mine(Target(svc[o]))
  BY <1>2, <1>3, HomeUnique DEF Step
<1>5. WorkerInv(w)'
  BY <1>1, <1>2, <1>3, <1>4 DEF WorkerInv, Step, FlightPCs
<1>6. lastKnown[k] # Absent /\ lastKnown[k] \in SvcObjs[k] \cup {Absent}
  BY <1>1 DEF Step, WorkerInv, OwnObjects
<1>7. \A t \in LBs \X Ups : k \in Mine(t) => UpstreamInv(t)'
  BY <1>1, <1>6, StepEarly DEF EarlyPCs
<1> QED BY <1>1, <1>5, <1>6, <1>7, StepConverges

\* recording the service in both registries,
LEMMA RecordConverges ==
    ASSUME Settled, ConvergenceInv, RegistryInv', NEW CONSTANT w \in Workers, NEW CONSTANT k,
           Step(w, k), RecordService(w)
    PROVE  ConvergenceInv'
<1>1. /\ wk[w].pc = "record" /\ wk'[w].pc = "build" /\ wk'[w].svc = wk[w].svc
      /\ wk'[w].last = wk[w].last /\ wk'[w].cont = "done"
      /\ wk'[w].cur = wk[w].svc /\ wk'[w].curKey = k
      /\ lastKnown'[k] = wk[w].svc /\ UNCHANGED <<nginx, stUpstreams>>
  BY DEF RecordService, Step, WorkerType
<1>2. wk[w].svc \in SvcObjs[k] /\ wk[w].svc # Absent /\ k \in Mine(Target(wk[w].svc))
  <2>1. wk[w].svc # Absent
    BY <1>1, ObjectsAssumption DEF Step, WorkerOK
  <2>2. wk[w].svc \in SvcObjs[k]
    BY <2>1 DEF Step, WorkerInv
  <2> QED BY <2>1, <2>2, HomeUnique DEF Step
<1>3. wk[w].svc = svc'[k] \/ Due(k)'
  <2>1. CASE ~Pending(k)
    BY <1>1, <2>1 DEF Step, SyncInv
  <2>2. CASE Pending(k)
    <3>1. ~Leaving(k)' /\ Pending(k)'
      BY <1>1, <2>2 DEF Leaving, Step, Pending, FlightPCs
    <3> QED BY <1>1, <1>2, <3>1 DEF Due
  <2> QED BY <2>1, <2>2
<1>4. wk'[w].cur = svc'[wk'[w].curKey] \/ Due(wk[w].curKey)'
  BY <1>1, <1>3 DEF Due, AddPending, Pending, Leaving
<1>5. WorkerInv(w)'
  BY <1>1, <1>2, <1>4 DEF WorkerInv, Step, FlightPCs
<1>6. \A t \in LBs \X Ups : k \in Mine(t) => UpstreamInv(t)'
  BY <1>1, <1>2, StepEarly DEF EarlyPCs
<1> QED BY <1>1, <1>2, <1>5, <1>6, StepConverges

\* The worker goes to pc; what it knows of its service stays.
Leads(w, pc) == /\ wk'[w].pc = pc /\ wk'[w].svc = wk[w].svc /\ wk'[w].last = wk[w].last
                /\ wk'[w].cont = wk[w].cont /\ wk'[w].to = wk[w].to /\ wk'[w].want = wk[w].want

\* So it does on the way out of a step without a call of the adapter,
LEMMA GotoLeads ==
    ASSUME NEW w \in Workers, NEW k, Step(w, k), NEW pc, wk' = [wk EXCEPT ![w] = Goto(w, pc)]
    PROVE  Leads(w, pc)
BY DEF Leads, Step, WorkerType, Goto

\* and in such a call.
LEMMA CallLeads ==
    ASSUME NEW w \in Workers, NEW k, Step(w, k), NEW pc, NEW list,
           wk' = [wk EXCEPT ![w] = [wk[w] EXCEPT !.pc = pc, !.list = list]]
    PROVE  Leads(w, pc)
BY DEF Leads, Step, WorkerType

\* A step that fails leaves the upstream owed, whatever it wrote there.
LEMMA FailConverges ==
    ASSUME Settled, ConvergenceInv, RegistryInv', NEW CONSTANT w \in Workers, NEW CONSTANT k,
           Step(w, k), Leads(w, "fail"),
           wk[w].pc \in {"check", "build"} \cup FlightPCs,
           UNCHANGED <<lastKnown, stUpstreams>>,
           \A t \in LBs \X Ups : k \notin Mine(t) => nginx'[t] = nginx[t]
    PROVE  ConvergenceInv'
<1>1. wk'[w].pc = "fail" /\ wk'[w].svc = wk[w].svc /\ wk'[w].last = wk[w].last
  BY DEF Leads
<1>2. lastKnown[k] # Absent /\ lastKnown[k] \in SvcObjs[k] \cup {Absent}
  BY DEF Step, WorkerInv, OwnObjects, FlightPCs
<1>3. WorkerInv(w)'
  BY <1>1, <1>2 DEF WorkerInv, Step, FlightPCs
<1>4. \A t \in LBs \X Ups : k \in Mine(t) => UpstreamInv(t)'
  BY <1>1, <1>2, StepEarly DEF EarlyPCs
<1> QED BY <1>2, <1>3, <1>4, StepConverges

\* a listing that fails, after which the key is queued again,
LEMMA ListFailsConverges ==
    ASSUME Settled, ConvergenceInv, RegistryInv', NEW CONSTANT w \in Workers, NEW CONSTANT k,
           Step(w, k), ListFails(w)
    PROVE  ConvergenceInv'
<1>1. wk' = [wk EXCEPT ![w] = Goto(w, "fail")]
  BY DEF ListFails, CallFails, WorkerOnly
<1>2. Leads(w, "fail")
  BY <1>1, GotoLeads
<1> QED BY <1>2, FailConverges DEF ListFails, CallFails, WorkerOnly, FlightPCs

\* A drain of an upstream that nobody uses any more.
LEMMA DrainConverges ==
    ASSUME Settled, ConvergenceInv, RegistryInv', NEW CONSTANT w \in Workers, NEW CONSTANT k,
           Step(w, k), Drain(w)
    PROVE  ConvergenceInv'
<1>1. PICK h : h = Target(wk[w].last)
  OBVIOUS
<1>2. /\ wk[w].pc = "check" /\ wk'[w].pc = "push" /\ wk'[w].svc = wk[w].svc
      /\ wk'[w].last = wk[w].last /\ wk'[w].cont = wk[w].cont
      /\ wk'[w].to = h /\ wk'[w].want = Empty
      /\ Others(k, h) = {} /\ stUpstreams' = [stUpstreams EXCEPT ![h] = Absent]
      /\ UNCHANGED <<lastKnown, nginx>>
  BY <1>1 DEF Drain, Step, WorkerType
<1>3. /\ wk[w].last \in SvcObjs[k] /\ wk[w].cont = "forget" /\ svc[k] = Absent
      /\ lastKnown[k] # Absent /\ lastKnown[k] \in SvcObjs[k] \cup {Absent} /\ k \in Services
  BY <1>2 DEF Step, WorkerInv, OwnObjects
<1>4. k \in Mine(h) /\ h \in Targets
  BY <1>1, <1>3, HomeUnique, ObjectType
<1>5. Wanted(h)' = Empty
  <2>1. On(h) = {}
    BY <1>2, <1>3, OthersOn DEF Step, On
  <2>2. On(h)' = {}
    BY <2>1 DEF Step, Still
  <2> QED BY <2>2 DEF Wanted, Empty
<1>6. Reported(h)' = Empty
  BY <1>2, <1>4 DEF Reported, Step, Empty
<1>7. /\ Wanted(wk[w].to)' = Wanted(h)' /\ Reported(wk[w].to)' = Reported(h)'
  BY <1>2 DEF Wanted, On, BuiltOf, Reported
<1>8. WorkerInv(w)'
  BY <1>2, <1>3, <1>4, <1>5, <1>6, <1>7 DEF WorkerInv, Step, FlightPCs
<1>9. \A t \in LBs \X Ups : k \in Mine(t) => UpstreamInv(t)'
  BY <1>2, <1>4, HomeOne DEF UpstreamInv, InFlight, FlightPCs
<1>10. \A t \in Targets : k \notin Mine(t) => stUpstreams'[t] = stUpstreams[t]
  BY <1>2, <1>4 DEF Step
<1> QED BY <1>2, <1>3, <1>8, <1>9, <1>10, StepConverges

\* A deleted service is forgotten once its backends have been taken away.
LEMMA ForgetConverges ==
    ASSUME Settled, ConvergenceInv, RegistryInv', NEW CONSTANT w \in Workers, NEW CONSTANT k,
           Step(w, k), ForgetService(w)
    PROVE  ConvergenceInv'
<1>1. /\ wk[w].pc = "forget" /\ wk'[w].pc = "done" /\ wk'[w].svc = wk[w].svc
      /\ wk'[w].last = wk[w].last /\ lastKnown'[k] = Absent /\ UNCHANGED <<nginx, stUpstreams>>
  BY DEF ForgetService, Step, WorkerType
<1>2. wk[w].cont = "forget" /\ svc[k] = Absent
  BY <1>1 DEF Step, WorkerInv
<1>3. ~Owed(k)
  <2>1. Leaving(k) /\ ~Early(k)
    BY <1>1, <1>2 DEF Step, Leaving, Early, EarlyPCs, FlightPCs
  <2> QED BY <2>1 DEF Step, Owed, Due
<1>4. WorkerInv(w)'
  BY <1>1, <1>2 DEF WorkerInv, Step, FlightPCs
<1>5. ASSUME NEW CONSTANT t \in LBs \X Ups PROVE UpstreamInv(t)'
  <2>1. InFlight(t) => InFlight(t)'
    BY <1>1 DEF Step, InFlight, FlightPCs
  <2>2. \A s \in Mine(t) : Owed(s) => Owed(s)'
    BY <1>3 DEF Step, Mine
  <2> QED BY <1>1, <2>1, <2>2, UpstreamStays DEF Step
<1> QED BY <1>1, <1>2, <1>4, <1>5, StepConverges

\* buildUpstream of the service itself, or of the one that keeps the upstream.
LEMMA BuildOwnConverges ==
    ASSUME Settled, ConvergenceInv, RegistryInv', NEW CONSTANT w \in Workers, NEW CONSTANT k,
           Step(w, k), BuildOwn(w)
    PROVE  ConvergenceInv'
<1>1. PICK c \in Services : c = wk[w].curKey
  BY DEF BuildOwn, Step, WorkerOK
<1>2. PICK o : o = wk[w].cur
  OBVIOUS
<1>3. /\ wk[w].pc = "build" /\ o \in SvcObjs[c] /\ k \in Mine(Target(o))
      /\ wk[w].cont \in {"forget", "done"}
      /\ wk[w].cont = "done" => c = k
      /\ wk[w].cont = "forget" => c # k
      /\ o = svc[c] \/ Due(c)
      /\ wk[w].cont = "forget" => wk[w].svc = Absent
  BY <1>1, <1>2 DEF BuildOwn, Step, WorkerInv
<1>4. Named(o) /\ o.port # 0 /\ c \in Mine(Target(o))
  BY <1>3, HomeUnique
<1>5. CASE wk' = [wk EXCEPT ![w] = Goto(w, "fail")] /\ UNCHANGED <<lastKnown, stUpstreams, nginx>>
  BY <1>3, <1>5, GotoLeads, FailConverges
<1>6. ASSUME WorkerOnly(w, [wk[w] EXCEPT !.pc = "merge", !.to = Target(o),
                                         !.want = Built([s \in {c} |-> o])])
      PROVE  ConvergenceInv'
  <2>1. PICK h, b : h = Target(o) /\ b = Built([s \in {c} |-> o])
    OBVIOUS
  <2>2. /\ wk' = [wk EXCEPT ![w] = [wk[w] EXCEPT !.pc = "merge", !.to = h, !.want = b]]
        /\ UNCHANGED <<lastKnown, stUpstreams, nginx>>
    BY <1>6, <2>1 DEF WorkerOnly
  <2>3. /\ wk'[w].pc = "merge" /\ wk'[w].svc = wk[w].svc /\ wk'[w].last = wk[w].last
        /\ wk'[w].cont = wk[w].cont /\ wk'[w].cur = o /\ wk'[w].curKey = c
        /\ wk'[w].to = h /\ wk'[w].want = b
    BY <1>1, <1>2, <2>2 DEF Step, WorkerType
  <2>4. o = svc'[c] \/ Due(c)'
    <3>1. CASE o = svc[c]
      BY <3>1 DEF Step
    <3>2. CASE Due(c) /\ c # k
      BY <1>3, <3>2 DEF Step
    <3>3. CASE Due(c) /\ c = k
      <4>1. ~Leaving(k)'
        BY <1>3, <2>3, <3>3 DEF Leaving, Step
      <4> QED BY <2>2, <3>3, <4>1 DEF Due, Step, AddPending, Pending
    <3> QED BY <1>3, <3>1, <3>2, <3>3
  <2>5. Excused(h)' \/ b = BuiltOf({c})'
    <3>1. CASE Due(c)'
      BY <1>4, <2>1, <3>1 DEF Excused, Owed
    <3>2. CASE o = svc'[c]
      <4>1. b = BuiltOf({c})
        <5>1. o = svc[c]
          BY <3>2 DEF Step
        <5>2. [s \in {c} |-> o] = [s \in {c} |-> svc[s]]
          BY <5>1
        <5> QED BY <2>1, <5>2 DEF BuiltOf
      <4>2. BuiltOf({c})' = BuiltOf({c})
        BY BuiltKept DEF Step, Unmoved, Gives, Serving, AddrsOf
      <4> QED BY <4>1, <4>2
    <3> QED BY <2>4, <3>1, <3>2
  <2>6. /\ wk'[w].cur = svc'[wk'[w].curKey] \/ Due(wk[w].curKey)'
        /\ Excused(wk[w].to)' \/ wk'[w].want = BuiltOf({wk[w].curKey})'
    <3>1. /\ Due(wk[w].curKey)' <=> Due(c)'
          /\ Excused(wk[w].to)' <=> Excused(h)'
          /\ BuiltOf({wk[w].curKey})' = BuiltOf({c})'
      BY <2>3 DEF Due, AddPending, Pending, Leaving, Excused, BuiltOf
    <3> QED BY <2>3, <2>4, <2>5, <3>1
  <2>7. lastKnown[k] # Absent /\ lastKnown[k] \in SvcObjs[k] \cup {Absent}
    BY <1>3 DEF Step, WorkerInv, OwnObjects
  <2>8. WorkerInv(w)'
    BY <1>3, <2>1, <2>2, <2>3, <2>6, <2>7 DEF WorkerInv, Step, FlightPCs
  <2>9. \A t \in LBs \X Ups : k \in Mine(t) => UpstreamInv(t)'
    BY <1>3, <2>1, <2>3, HomeOne DEF UpstreamInv, InFlight, FlightPCs
  <2> QED BY <2>2, <2>7, <2>8, <2>9, StepConverges
<1> QED BY <1>1, <1>2, <1>4, <1>5, <1>6 DEF BuildOwn, WorkerOnly

\* On the way to the load balancer nothing that is owed is lost.
LEMMA ExcusedThrough ==
    ASSUME NEW CONSTANT w \in Workers, NEW CONSTANT k, Step(w, k), UNCHANGED lastKnown,
           wk[w].pc \in FlightPCs, wk'[w].cont = wk[w].cont, NEW CONSTANT t, Excused(t)
    PROVE  Excused(t)'
<1>1. ~Early(k) /\ (Leaving(k)' => Leaving(k))
  BY DEF Step, Early, Leaving, EarlyPCs, FlightPCs
<1>2. Owed(k) => Owed(k)'
  BY <1>1 DEF Step, Owed, Due, AddPending, Pending
<1>3. \A s \in Services : Owed(s) => Owed(s)'
  BY <1>2 DEF Step
<1> QED BY <1>3 DEF Step, Excused, Will, Mine

\* Own and shared backends together are those of the upstream.
LEMMA MergedIs ==
    ASSUME Settled, NEW CONSTANT w \in Workers, NEW CONSTANT k, Step(w, k), wk[w].pc = "merge",
           NEW CONSTANT h, h = wk[w].to, ~Excused(h)
    PROVE  On(h) # {} /\ Merged(w) = BuiltOf(On(h))
<1>1. PICK c \in Services : c = wk[w].curKey
  BY DEF Step, WorkerOK
<1>2. /\ wk[w].cur \in SvcObjs[c] /\ h = Target(wk[w].cur) /\ (wk[w].cur = svc[c] \/ Due(c))
      /\ wk[w].want = BuiltOf({c})
  BY <1>1 DEF Step, WorkerInv
<1>3. c \in Mine(h) /\ wk[w].cur # Absent
  BY <1>2, HomeUnique
<1>4. wk[w].cur = svc[c]
  BY <1>2, <1>3 DEF Excused, Owed
<1>5. c \in On(h)
  BY <1>3, <1>4, OnMine DEF Step
<1>6. Others(c, h) = On(h) \ {c}
  BY OthersOn DEF Step
<1>7. PICK D : D = On(h) \ {c}
  OBVIOUS
<1>8. D \in SUBSET Services /\ c \in Services \ D /\ D \cup {c} = On(h)
  BY <1>5, <1>7 DEF On
<1>9. mergeBackends(BuiltOf({c}), BuiltOf(D)) = BuiltOf(D \cup {c})
  BY <1>8, BuiltMerged
<1>10. Merged(w) = mergeBackends(BuiltOf({c}), BuiltOf(D))
  BY <1>1, <1>2, <1>6, <1>7 DEF Merged, BuiltOf
<1> QED BY <1>5, <1>8, <1>9, <1>10

\* What leaves the way to the load balancer without a failure is served.
LEMMA FlightEnds ==
    ASSUME Settled, ConvergenceInv, RegistryInv', NEW CONSTANT w \in Workers, NEW CONSTANT k,
           Step(w, k), Leads(w, wk[w].cont), wk[w].pc \in FlightPCs,
           NEW CONSTANT h, h = wk[w].to, UNCHANGED <<lastKnown, stUpstreams>>,
           \A t \in LBs \X Ups : t # h => nginx'[t] = nginx[t],
           h \in LBs \X Ups => Excused(h) \/ (Served(h)' /\ Matches(h)')
    PROVE  ConvergenceInv'
<1>1. /\ wk'[w].pc = wk[w].cont /\ wk'[w].svc = wk[w].svc /\ wk'[w].last = wk[w].last
      /\ wk'[w].cont = wk[w].cont /\ wk[w].cont \in {"forget", "done"} /\ k \in Mine(h)
      /\ wk[w].cont = "forget" => wk[w].svc = Absent
  BY DEF Step, Leads, WorkerInv, FlightPCs
<1>2. lastKnown[k] # Absent /\ lastKnown[k] \in SvcObjs[k] \cup {Absent}
  BY DEF Step, WorkerInv, OwnObjects, FlightPCs
<1>3. WorkerInv(w)'
  BY <1>1, <1>2 DEF WorkerInv, Step, FlightPCs
<1>4. h \in LBs \X Ups => UpstreamInv(h)'
  BY <1>1, ExcusedThrough DEF UpstreamInv
<1>5. \A t \in LBs \X Ups : k \in Mine(t) => UpstreamInv(t)'
  BY <1>1, <1>4, HomeOne
<1> QED BY <1>1, <1>2, <1>3, <1>5, StepConverges

\* merging the backends of the services that share the upstream,
LEMMA MergeSharedConverges ==
    ASSUME Settled, ConvergenceInv, RegistryInv', NEW CONSTANT w \in Workers, NEW CONSTANT k,
           Step(w, k), MergeShared(w)
    PROVE  ConvergenceInv'
<1>1. PICK h \in Targets : h = wk[w].to
  BY DEF MergeShared, Step, WorkerOK
<1>2. PICK b : b = Merged(w)
  OBVIOUS
<1>3. wk[w].pc = "merge" /\ k \in Mine(h)
  BY <1>1 DEF MergeShared, Step, WorkerInv, FlightPCs
<1>4. ~Excused(h) => On(h) # {} /\ b = BuiltOf(On(h))
  BY <1>1, <1>2, <1>3, MergedIs
<1>5. CASE WorkerOnly(w, Goto(w, "fail"))
  BY <1>3, <1>5, GotoLeads, FailConverges DEF WorkerOnly, FlightPCs
<1>6. CASE SafetyNet(h[1], b) /\ WorkerOnly(w, Goto(w, wk[w].cont))
  <2>1. ~Excused(h) => Served(h)' /\ Matches(h)'
    <3> SUFFICES ASSUME ~Excused(h) PROVE Served(h)' /\ Matches(h)'
      OBVIOUS
    <3>1. Still(h) /\ BuiltOf(On(h))' = BuiltOf(On(h))
      BY StillWanted DEF Step
    <3>2. On(h)' # {} /\ SafetyNet(h[1], BuiltOf(On(h))')
      BY <1>4, <1>6, <3>1 DEF Still
    <3>3. ~Netless(h[1])
      BY <1>6 DEF Netless, SafetyNet
    <3> QED BY <3>2, <3>3 DEF Served, NetKeeps, Matches, SafetyNet, Empty
  <2>2. wk[w].pc \in FlightPCs /\ UNCHANGED <<lastKnown, stUpstreams, nginx>>
        /\ Leads(w, wk[w].cont)
    <3>1. PICK c : c = wk[w].cont
      OBVIOUS
    <3>2. wk' = [wk EXCEPT ![w] = Goto(w, c)]
      BY <1>6, <3>1 DEF WorkerOnly
    <3>3. Leads(w, c)
      BY <3>2, GotoLeads
    <3> QED BY <1>3, <1>6, <3>1, <3>3 DEF FlightPCs, WorkerOnly
  <2> QED BY <1>1, <2>1, <2>2, FlightEnds
<1>7. ASSUME /\ stUpstreams' = [stUpstreams EXCEPT ![h] = OrDefault(h[1], b)]
             /\ wk' = [wk EXCEPT ![w].pc = "push", ![w].want = OrDefault(h[1], b)]
             /\ UNCHANGED <<lastKnown, nginx>>
      PROVE  ConvergenceInv'
  <2>1. PICK d : d = OrDefault(h[1], b)
    OBVIOUS
  <2>2. /\ wk'[w].pc = "push" /\ wk'[w].svc = wk[w].svc /\ wk'[w].last = wk[w].last
        /\ wk'[w].cont = wk[w].cont /\ wk'[w].to = h /\ wk'[w].want = d
        /\ wk[w].cont \in {"forget", "done"} /\ (wk[w].cont = "forget" => wk[w].svc = Absent)
    BY <1>1, <1>3, <1>7, <2>1 DEF Step, WorkerType, WorkerInv, FlightPCs
  <2>3. Excused(h)' \/ d = Wanted(h)'
    <3>1. CASE Excused(h)
      BY <1>3, <1>7, <2>2, <3>1, ExcusedThrough DEF FlightPCs
    <3>2. CASE ~Excused(h)
      <4>1. Wanted(h)' = Wanted(h)
        BY StillWanted DEF Step
      <4> QED BY <1>4, <2>1, <3>2, <4>1 DEF Wanted
    <3> QED BY <3>1, <3>2
  <2>4. Reported(h)' = d
    <3>1. d \in Backends
      BY <1>2, <2>1, MergedType, DefaultType DEF ConvergenceInv, RegistryInv
    <3>2. d # Absent
      BY <3>1, ObjectsAssumption
    <3>3. stUpstreams'[h] = d
      BY <1>7, <2>1 DEF Step
    <3> QED BY <3>2, <3>3 DEF Reported
  <2>5. /\ Excused(wk[w].to)' \/ wk'[w].want = Wanted(wk[w].to)'
        /\ wk'[w].want = Reported(wk[w].to)'
    <3>1. /\ Excused(wk[w].to)' <=> Excused(h)'
          /\ Wanted(wk[w].to)' = Wanted(h)' /\ Reported(wk[w].to)' = Reported(h)'
      BY <2>2 DEF Excused, Wanted, On, BuiltOf, Reported
    <3> QED BY <2>2, <2>3, <2>4, <3>1
  <2>6. lastKnown[k] # Absent /\ lastKnown[k] \in SvcObjs[k] \cup {Absent}
    BY <1>3 DEF Step, WorkerInv, OwnObjects, FlightPCs
  <2>7. WorkerInv(w)'
    BY <1>3, <1>7, <2>2, <2>5, <2>6 DEF WorkerInv, Step, FlightPCs
  <2>8. \A t \in LBs \X Ups : k \in Mine(t) => UpstreamInv(t)'
    BY <1>3, <2>2, HomeOne DEF UpstreamInv, InFlight, FlightPCs
  <2>9. \A t \in Targets : k \notin Mine(t) => stUpstreams'[t] = stUpstreams[t]
    BY <1>3, <1>7 DEF Step
  <2> QED BY <1>7, <2>6, <2>7, <2>8, <2>9, StepConverges
<1> QED BY <1>1, <1>2, <1>5, <1>6, <1>7 DEF MergeShared

\* Until the requests are sent, the call of the adapter changes nothing but its listing.
LEMMA CallConverges ==
    ASSUME Settled, ConvergenceInv, RegistryInv', NEW CONSTANT w \in Workers, NEW CONSTANT k,
           Step(w, k), wk[w].pc \in CallPCs, NEW CONSTANT pc \in CallPCs, Leads(w, pc),
           UNCHANGED <<lastKnown, nginx, stUpstreams>>
    PROVE  ConvergenceInv'
<1>1. PICK h : h = wk[w].to
  OBVIOUS
<1>2. /\ wk'[w].pc = pc /\ wk'[w].svc = wk[w].svc /\ wk'[w].last = wk[w].last
      /\ wk'[w].cont = wk[w].cont /\ wk'[w].to = h /\ wk'[w].want = wk[w].want
      /\ wk[w].cont \in {"forget", "done"} /\ (wk[w].cont = "forget" => wk[w].svc = Absent)
      /\ k \in Mine(h)
  BY <1>1 DEF Leads, Step, WorkerInv, FlightPCs
<1>3. Excused(h)' \/ wk[w].want = Wanted(h)'
  <2>1. CASE Excused(h)
    BY <1>2, <2>1, ExcusedThrough DEF FlightPCs
  <2>2. CASE ~Excused(h)
    <3>1. Wanted(h)' = Wanted(h)
      BY StillWanted DEF Step
    <3> QED BY <1>1, <2>2, <3>1 DEF Step, WorkerInv
  <2> QED BY <2>1, <2>2
<1>4. Reported(h)' = wk[w].want
  BY <1>1 DEF Step, WorkerInv, Reported
<1>5. /\ Excused(wk[w].to)' \/ wk'[w].want = Wanted(wk[w].to)'
      /\ wk'[w].want = Reported(wk[w].to)'
  <2>1. /\ Excused(wk[w].to)' <=> Excused(h)'
        /\ Wanted(wk[w].to)' = Wanted(h)' /\ Reported(wk[w].to)' = Reported(h)'
    BY <1>2 DEF Excused, Wanted, On, BuiltOf, Reported
  <2> QED BY <1>2, <1>3, <1>4, <2>1
<1>6. lastKnown[k] # Absent /\ lastKnown[k] \in SvcObjs[k] \cup {Absent}
  BY DEF Step, WorkerInv, OwnObjects, FlightPCs
<1>7. WorkerInv(w)'
  BY <1>2, <1>5, <1>6 DEF WorkerInv, Step, FlightPCs
<1>8. \A t \in LBs \X Ups : k \in Mine(t) => UpstreamInv(t)'
  BY <1>2, HomeOne DEF UpstreamInv, InFlight, FlightPCs
<1> QED BY <1>6, <1>7, <1>8, StepConverges

\* So it is when it lists,
LEMMA PushListConverges ==
    ASSUME Settled, ConvergenceInv, RegistryInv', NEW CONSTANT w \in Workers, NEW CONSTANT k,
           Step(w, k), PushList(w)
    PROVE  ConvergenceInv'
<1>1. wk[w].pc = "push" /\ UNCHANGED <<lastKnown, nginx, stUpstreams>>
  BY DEF PushList, WorkerOnly
<1>2. CASE wk' = [wk EXCEPT ![w] = Goto(w, "fail")]
  <2>1. Leads(w, "fail")
    BY <1>2, GotoLeads
  <2> QED BY <1>1, <2>1, FailConverges DEF FlightPCs
<1>3. CASE wk' # [wk EXCEPT ![w] = Goto(w, "fail")]
  <2>1. PICK pc, list : /\ pc = IF cache[wk[w].to[1]] = Absent THEN "store" ELSE "apply"
                        /\ list = refreshCache(wk[w].to[1])
    OBVIOUS
  <2>2. wk' = [wk EXCEPT ![w] = [wk[w] EXCEPT !.pc = pc, !.list = list]]
    BY <1>3, <2>1 DEF PushList, WorkerOnly
  <2>3. Leads(w, pc) /\ pc \in CallPCs
    BY <2>1, <2>2, CallLeads
  <2> QED BY <1>1, <2>3, CallConverges
<1> QED BY <1>2, <1>3

\* and when it stores the listing.
LEMMA PushStoreConverges ==
    ASSUME Settled, ConvergenceInv, RegistryInv', NEW CONSTANT w \in Workers, NEW CONSTANT k,
           Step(w, k), PushStore(w)
    PROVE  ConvergenceInv'
<1>1. wk[w].pc = "store" /\ UNCHANGED <<lastKnown, nginx, stUpstreams>>
  BY DEF PushStore
<1>2. wk' = [wk EXCEPT ![w] = Goto(w, "apply")]
  BY DEF PushStore, Goto
<1>3. Leads(w, "apply")
  BY <1>2, GotoLeads
<1> QED BY <1>1, <1>3, CallConverges

\* Writing what differs from a current listing leaves exactly what is wanted.
LEMMA WriteAll ==
    ASSUME NEW want \in Backends, NEW b \in Backends PROVE Write(b, want, Differing(want, b)) = want
BY DEF Write, Differing, Backends

\* With every listing up to date and no late request, the requests of a call that
\* succeeds leave what it wants.
LEMMA PushApplied ==
    ASSUME Settled, ListInv, NEW CONSTANT w \in Workers, NEW CONSTANT k, Step(w, k), PushApply(w)
    PROVE  \E h \in LBs \X Ups :
             /\ h = wk[w].to /\ nginx'[h] = wk[w].want /\ wk[w].want = Reported(h)
             /\ \A t \in LBs \X Ups : t # h => nginx'[t] = nginx[t]
<1>1. PICK h \in LBs \X Ups : h = wk[w].to
  BY DEF PushApply, Step, WorkerOK
<1>2. \A L \in Lost(Difference(w)) : L = {}
  BY DEF Settled, Lost
<1>3. nginx' = [nginx EXCEPT ![h] = Write(@, wk[w].want, Difference(w))]
  BY <1>1, <1>2 DEF PushApply, Send
<1>4. wk[w].list[h[2]] = nginx[h]
  <2>1. wk[w].list = Listing(h[1]) /\ h[2] \in Ups /\ h = <<h[1], h[2]>>
    BY <1>1 DEF ListInv, InCall, PushApply
  <2> QED BY <2>1 DEF Listing
<1>5. Difference(w) = Differing(wk[w].want, nginx[h])
  BY <1>1, <1>4 DEF Difference
<1>6. wk[w].want \in Backends /\ nginx[h] \in Backends /\ wk[w].want = Reported(h)
  BY <1>1 DEF Step, WorkerType, WorkerInv, PushApply
<1>7. nginx'[h] = wk[w].want /\ \A t \in LBs \X Ups : t # h => nginx'[t] = nginx[t]
  BY <1>3, <1>5, <1>6, WriteAll DEF Step
<1> QED BY <1>1, <1>6, <1>7

\* Applying the difference,
LEMMA PushApplyConverges ==
    ASSUME Settled, ConvergenceInv, ListInv, RegistryInv', NEW CONSTANT w \in Workers,
           NEW CONSTANT k, Step(w, k), PushApply(w)
    PROVE  ConvergenceInv'
<1>1. PICK h \in LBs \X Ups : /\ h = wk[w].to /\ nginx'[h] = wk[w].want
                              /\ wk[w].want = Reported(h)
                              /\ \A t \in LBs \X Ups : t # h => nginx'[t] = nginx[t]
  BY PushApplied
<1>2. wk[w].pc = "apply" /\ UNCHANGED <<lastKnown, stUpstreams>>
  BY DEF PushApply
<1>3. Leads(w, wk[w].cont)
  <2>1. PICK c, list : c = wk[w].cont /\ list = IdleWorker.list
    OBVIOUS
  <2>2. wk' = [wk EXCEPT ![w] = [wk[w] EXCEPT !.pc = c, !.list = list]]
    BY <2>1 DEF PushApply
  <2> QED BY <2>1, <2>2, CallLeads
<1>4. Excused(h) \/ wk[w].want = Wanted(h)
  BY <1>1, <1>2 DEF Step, WorkerInv
<1>5. ~Excused(h) => Served(h)' /\ Matches(h)'
  <2>1. Wanted(h)' = Wanted(h) /\ Reported(h)' = Reported(h)
    BY <1>2, StillWanted DEF Step, Reported
  <2> QED BY <1>1, <1>4, <2>1 DEF Served, Matches
<1> QED BY <1>1, <1>2, <1>3, <1>5, FlightEnds DEF FlightPCs

\* and a call that fails, after which the key is queued again.
LEMMA PushFailsConverges ==
    ASSUME Settled, ConvergenceInv, RegistryInv', NEW CONSTANT w \in Workers, NEW CONSTANT k,
           Step(w, k), PushFails(w)
    PROVE  ConvergenceInv'
<1>1. PICK h \in LBs \X Ups : h = wk[w].to
  BY DEF PushFails
<1>2. /\ wk[w].pc \in CallPCs /\ UNCHANGED <<lastKnown, stUpstreams>>
      /\ \A t \in LBs \X Ups : t # h => nginx'[t] = nginx[t]
  BY <1>1 DEF PushFails, Send, Step
<1>3. Leads(w, "fail")
  <2>1. PICK list : list = IdleWorker.list
    OBVIOUS
  <2>2. wk' = [wk EXCEPT ![w] = [wk[w] EXCEPT !.pc = "fail", !.list = list]]
    BY <2>1 DEF PushFails
  <2> QED BY <2>2, CallLeads
<1>4. k \in Mine(h)
  BY <1>1, <1>2 DEF Step, WorkerInv, FlightPCs
<1> QED BY <1>2, <1>3, <1>4, FailConverges DEF FlightPCs

\* Every step of syncHandler keeps the invariant.
LEMMA HandlerConverges ==
    ASSUME Settled, ConvergenceInv, ListInv, RegistryInv', NEW CONSTANT w \in Workers,
           syncHandler(w)
    PROVE  ConvergenceInv'
<1>1. PICK k \in Services : Step(w, k)
  BY StepFacts
<1>2. CASE GetService(w) \/ ReadLast(w)
  BY <1>1, <1>2, GetServiceConverges, ReadLastConverges
<1>3. CASE \E o \in Services : HandOver(w, o)
  BY <1>1, <1>3, HandOverConverges
<1>4. CASE Drain(w) \/ ListFails(w) \/ ForgetService(w) \/ RecordService(w)
  BY <1>1, <1>4, DrainConverges, ListFailsConverges, ForgetConverges, RecordConverges
<1>5. CASE BuildOwn(w) \/ MergeShared(w)
  BY <1>1, <1>5, BuildOwnConverges, MergeSharedConverges
<1>6. CASE PushList(w) \/ PushStore(w) \/ PushApply(w) \/ PushFails(w)
  BY <1>1, <1>6, PushListConverges, PushStoreConverges, PushApplyConverges, PushFailsConverges
<1> QED BY <1>2, <1>3, <1>4, <1>5, <1>6 DEF syncHandler

-----------------------------------------------------------------------------
(* What GetState reports, also where the safety net keeps an upstream.       *)

InCallTo(t) == \E w \in Workers : wk[w].to = t /\ wk[w].pc \in CallPCs

\* As long as nothing has failed, an upstream nobody is about to write is reported as
\* it is served, although the listers may ask for something else meanwhile.
StateInv == \A t \in LBs \X Ups : InCallTo(t) \/ (faults = 0 => nginx[t] = Reported(t))

\* A step that neither writes nor ends a call keeps it.
LEMMA StateKept ==
    ASSUME StateInv, UNCHANGED <<nginx, stUpstreams>>, faults' = 0 => faults = 0,
           \A w \in Workers : wk[w].pc \in CallPCs => wk'[w] = wk[w]
    PROVE  StateInv'
BY DEF StateInv, InCallTo, Reported

\* The faults are counted, never forgotten.
LEMMA HandlerFaults ==
    ASSUME TypeInv, NEW w \in Workers, syncHandler(w)
    PROVE  faults \in Nat /\ (faults' = faults \/ faults' = faults + 1)
<1> SUFFICES faults' = faults \/ faults' = faults + 1
  BY BoundsAssumption DEF TypeInv, TypeOK
<1>1. CASE GetService(w) \/ ReadLast(w) \/ BuildOwn(w) \/ ListFails(w) \/ PushList(w)
  BY <1>1 DEF GetService, ReadLast, BuildOwn, ListFails, CallFails, PushList, NoFault, Fault
<1>2. CASE \E o \in Services : HandOver(w, o)
  BY <1>2 DEF HandOver, NoFault
<1>3. CASE Drain(w) \/ ForgetService(w) \/ RecordService(w) \/ PushStore(w)
  BY <1>3 DEF Drain, ForgetService, RecordService, PushStore
<1>4. CASE MergeShared(w)
  BY <1>4 DEF MergeShared, NoFault
<1>5. CASE PushApply(w) \/ PushFails(w)
  BY <1>5 DEF PushApply, PushFails, NoFault, Fault
<1> QED BY <1>1, <1>2, <1>3, <1>4, <1>5 DEF syncHandler

\* syncHandler writes state.Upstreams and then the load balancer.
LEMMA StateHandler ==
    ASSUME Settled, ConvergenceInv, ListInv, StateInv, NEW CONSTANT w \in Workers, syncHandler(w)
    PROVE  StateInv'
<1>1. PICK k \in Services : Step(w, k)
  BY StepFacts
<1>2. faults \in Nat /\ (faults' = 0 => faults = 0)
  BY HandlerFaults DEF ConvergenceInv, RegistryInv
<1>3. \A v \in Workers \ {w} : wk'[v] = wk[v]
  BY <1>1 DEF Step
<1>4. CASE wk[w].pc \notin CallPCs /\ UNCHANGED <<nginx, stUpstreams>>
  BY <1>2, <1>3, <1>4, StateKept
\* The worker has reported h and goes on to write it.
<1>5. ASSUME NEW CONSTANT h, wk'[w].to = h, wk'[w].pc \in CallPCs, UNCHANGED nginx,
             wk[w].pc \notin CallPCs \/ wk[w].to = h,
             \A t \in Targets : t # h => stUpstreams'[t] = stUpstreams[t]
      PROVE  StateInv'
  <2> SUFFICES ASSUME NEW t \in LBs \X Ups, ~InCallTo(t)', faults' = 0
               PROVE  (nginx[t] = Reported(t))'
    BY DEF StateInv
  <2>1. t # h /\ ~InCallTo(t) /\ t \in Targets
    BY <1>3, <1>5, NamesAssumption DEF InCallTo, Targets
  <2>2. nginx[t] = Reported(t) /\ stUpstreams'[t] = stUpstreams[t]
    BY <1>2, <1>5, <2>1 DEF StateInv
  <2> QED BY <1>5, <2>2 DEF Reported
<1>6. CASE GetService(w) \/ ReadLast(w) \/ ListFails(w) \/ BuildOwn(w)
  BY <1>4, <1>6 DEF GetService, ReadLast, ListFails, CallFails, BuildOwn, WorkerOnly
<1>7. CASE \E o \in Services : HandOver(w, o)
  BY <1>4, <1>7 DEF HandOver, WorkerOnly
<1>8. CASE ForgetService(w) \/ RecordService(w)
  BY <1>4, <1>8 DEF ForgetService, RecordService
<1>9. CASE Drain(w)
  <2>1. PICK h : h = Target(wk[w].last)
    OBVIOUS
  <2>2. /\ wk[w].pc = "check" /\ wk'[w].pc = "push" /\ wk'[w].to = h /\ UNCHANGED nginx
        /\ stUpstreams' = [stUpstreams EXCEPT ![h] = Absent]
    BY <1>1, <1>9, <2>1 DEF Drain, Step, WorkerType
  <2> QED BY <1>1, <1>5, <2>2 DEF Step
<1>10. CASE MergeShared(w)
  <2>1. CASE UNCHANGED stUpstreams
    BY <1>4, <1>10, <2>1 DEF MergeShared, WorkerOnly
  <2>2. CASE stUpstreams' # stUpstreams
    <3>1. PICK h, d : h = wk[w].to /\ d = OrDefault(h[1], Merged(w))
      OBVIOUS
    <3>2. /\ stUpstreams' = [stUpstreams EXCEPT ![h] = d] /\ UNCHANGED nginx
          /\ wk' = [wk EXCEPT ![w].pc = "push", ![w].want = d] /\ wk[w].pc = "merge"
      BY <1>10, <2>2, <3>1 DEF MergeShared, WorkerOnly
    <3>3. wk'[w].pc = "push" /\ wk'[w].to = h
      BY <1>1, <3>1, <3>2 DEF Step, WorkerType
    <3> QED BY <1>1, <1>5, <3>2, <3>3 DEF Step
  <2> QED BY <2>1, <2>2
<1>11. CASE PushList(w)
  <2>1. wk[w].pc = "push" /\ UNCHANGED <<nginx, stUpstreams>>
    BY <1>11 DEF PushList, WorkerOnly
  <2>2. CASE wk[w].to[1] \notin LBs
    <3> SUFFICES ASSUME NEW t \in LBs \X Ups, ~InCallTo(t)', faults' = 0
                 PROVE  (nginx[t] = Reported(t))'
      BY DEF StateInv
    <3>1. ~InCallTo(t)
      BY <1>3, <2>2 DEF InCallTo
    <3> QED BY <1>2, <2>1, <3>1 DEF StateInv, Reported
  <2>3. CASE wk[w].to[1] \in LBs
    <3>1. PICK pc, list : /\ pc = IF cache[wk[w].to[1]] = Absent THEN "store" ELSE "apply"
                          /\ list = refreshCache(wk[w].to[1])
      OBVIOUS
    <3>2. wk' = [wk EXCEPT ![w] = [wk[w] EXCEPT !.pc = pc, !.list = list]]
      BY <1>11, <2>3, <3>1 DEF PushList, WorkerOnly
    <3>3. wk'[w].pc \in CallPCs /\ wk'[w].to = wk[w].to
      BY <1>1, <3>1, <3>2, CallLeads DEF Leads
    <3> QED BY <1>5, <2>1, <3>3
  <2> QED BY <2>2, <2>3
<1>12. CASE PushStore(w)
  <2>1. wk'[w].pc = "apply" /\ wk'[w].to = wk[w].to /\ UNCHANGED <<nginx, stUpstreams>>
    BY <1>1, <1>12 DEF PushStore, Step, WorkerType
  <2> QED BY <1>5, <2>1
<1>13. CASE PushApply(w)
  <2>1. PICK h \in LBs \X Ups : /\ h = wk[w].to /\ nginx'[h] = wk[w].want
                                /\ wk[w].want = Reported(h)
                                /\ \A t \in LBs \X Ups : t # h => nginx'[t] = nginx[t]
    BY <1>1, <1>13, PushApplied
  <2>2. UNCHANGED stUpstreams
    BY <1>13 DEF PushApply
  <2> SUFFICES ASSUME NEW t \in LBs \X Ups, ~InCallTo(t)', faults' = 0
               PROVE  (nginx[t] = Reported(t))'
    BY DEF StateInv
  <2>3. CASE t = h
    BY <2>1, <2>2, <2>3 DEF Reported
  <2>4. CASE t # h
    <3>1. ~InCallTo(t)
      BY <1>3, <2>1, <2>4 DEF InCallTo
    <3> QED BY <1>2, <2>1, <2>2, <2>4, <3>1 DEF StateInv, Reported
  <2> QED BY <2>3, <2>4
<1>14. CASE PushFails(w)
  <2>1. faults' # 0
    BY <1>2, <1>14 DEF PushFails, Fault
  <2> QED BY <2>1 DEF StateInv
<1> QED BY <1>6, <1>7, <1>8, <1>9, <1>10, <1>11, <1>12, <1>13, <1>14 DEF syncHandler

\* Nobody else touches either.
LEMMA StateStep ==
    ASSUME Settled, ConvergenceInv, ListInv, StateInv,
           [CalmEnvironment \/ Reactive \/ Restart]_vars
    PROVE  StateInv'
<1>1. CASE UNCHANGED <<wk, nginx, stUpstreams, faults>>
  BY <1>1, StateKept
<1>2. CASE \/ \E s \in Services : \/ ChangeService(s) \/ ResyncService(s)
                                  \/ handleServiceEvent(s) \/ BackoffElapsed(s)
           \/ \E p \in Pods : ChangePod(p) \/ handlePodEvent(p)
           \/ \E n \in Nodes : ChangeNode(n) \/ handleNodeEvent(n)
           \/ UNCHANGED vars
  BY <1>1, <1>2 DEF ChangeService, ResyncService, handleServiceEvent, BackoffElapsed, ChangePod,
     handlePodEvent, ChangeNode, handleNodeEvent, vars
<1>3. CASE Outside
  BY <1>1, <1>3 DEF Outside, CacheExpires, ListInv
<1>4. ASSUME NEW w \in Workers, NEW s \in Services, Get(w, s) PROVE StateInv'
  <2>1. /\ UNCHANGED <<nginx, stUpstreams, faults>> /\ wk[w].pc = "idle"
        /\ \A v \in Workers \ {w} : wk'[v] = wk[v]
    BY <1>4 DEF Get
  <2> QED BY <2>1, StateKept
<1>5. ASSUME NEW w \in Workers, processNextItem(w) PROVE StateInv'
  <2>1. /\ UNCHANGED <<nginx, stUpstreams, faults>> /\ wk[w].pc \in {"done", "fail"}
        /\ \A v \in Workers \ {w} : wk'[v] = wk[v]
    BY <1>5 DEF processNextItem
  <2> QED BY <2>1, StateKept
<1>6. ASSUME NEW CONSTANT w \in Workers, syncHandler(w) PROVE StateInv'
  BY <1>6, StateHandler
<1>7. ~Restart
  BY BoundsAssumption DEF Restart, Settled, ConvergenceInv, RegistryInv, TypeInv, TypeOK
<1> QED BY <1>2, <1>3, <1>4, <1>5, <1>6, <1>7 DEF CalmEnvironment, Reactive, processEvents

-----------------------------------------------------------------------------
(* The theorems.                                                            *)

\* Initially there is no service, and no upstream serves anything.
LEMMA ConvergenceInit == ASSUME Settled, Init PROVE ConvergenceInv
<1>1. RegistryInv
  BY RegistryInit
<1>2. OwnObjects
  BY EmptySeq DEF Init, OwnObjects
<1>3. \A s \in Services : AddInv(s)
  BY DEF Init, AddInv, AddPending
<1>4. \A p \in Pods : PodInv(p)
  BY DEF Init, PodInv, PodBefore
<1>5. \A w \in Workers : ~Busy(w)
  BY DEF Init, Busy, IdleWorker
<1>6. ASSUME NEW t \in LBs \X Ups PROVE UpstreamInv(t)
  <2>1. On(t) = {} /\ nginx[t] = Empty /\ t \in Targets
    BY NamesAssumption DEF Init, On, Targets
  <2>2. Wanted(t) = Empty /\ Reported(t) = Empty
    BY <2>1 DEF Init, Wanted, Reported
  <2> QED BY <2>1, <2>2 DEF UpstreamInv, Served, Matches
<1> QED BY <1>1, <1>2, <1>3, <1>4, <1>5, <1>6 DEF ConvergenceInv

\* A step that changes at most the cached listings keeps it.
LEMMA ConvergenceStutter ==
    ASSUME Settled, ConvergenceInv, RegistryInv', UNCHANGED <<cluster, events, state, queue, wk, nginx>>
    PROVE  ConvergenceInv'
<1>1. UNCHANGED <<svc, pod, node, svcEvents, podEvents, nodeEvents, stServices, stPods, stUpstreams,
                  lastKnown, dirty, processing, waiting, wk, nginx>>
  OBVIOUS
<1>2. OwnObjects' /\ \A s \in Services : AddInv(s)'
  BY <1>1 DEF ConvergenceInv, OwnObjects, AddInv, AddPending
<1>3. \A p \in Pods : PodInv(p)'
  BY <1>1 DEF ConvergenceInv, PodInv, PodBefore
<1>4. Progress
  BY <1>1, ClusterStill DEF Progress, Due, AddPending, Pending, Leaving, Will
<1> QED BY <1>2, <1>3, <1>4, OutsideStep

\* Every step of a calm cluster and of the event driven half keeps it.
LEMMA ConvergenceStep ==
    ASSUME Settled, ConvergenceInv, ListInv, [CalmEnvironment \/ Reactive \/ Restart]_vars
    PROVE  ConvergenceInv'
<1>0. CalmEnvironment => Environment
  BY DEF CalmEnvironment, Environment
<1>1. RegistryInv'
  BY <1>0, RegistryStep DEF ConvergenceInv
<1>2. ASSUME NEW CONSTANT s \in Services,
             (ReturnsSettled(s) /\ ChangeService(s)) \/ ResyncService(s)
      PROVE  ConvergenceInv'
  BY <1>1, <1>2, ChangeServiceConverges, ResyncConverges
<1>3. ASSUME NEW CONSTANT p \in Pods, ChangePod(p) \/ handlePodEvent(p) PROVE ConvergenceInv'
  BY <1>1, <1>3, ChangePodConverges, PodEventConverges
<1>4. ASSUME NEW CONSTANT n \in Nodes, ChangeNode(n) \/ handleNodeEvent(n) PROVE ConvergenceInv'
  BY <1>1, <1>4, ChangeNodeConverges, NodeEventConverges
<1>5. ASSUME NEW CONSTANT s \in Services, handleServiceEvent(s) \/ BackoffElapsed(s)
      PROVE  ConvergenceInv'
  BY <1>1, <1>5, ServiceEventConverges, BackoffConverges
<1>6. ASSUME NEW CONSTANT w \in Workers, NEW CONSTANT s \in Services, Get(w, s)
      PROVE  ConvergenceInv'
  BY <1>1, <1>6, GetConverges
<1>7. ASSUME NEW CONSTANT w \in Workers, syncHandler(w) \/ processNextItem(w)
      PROVE  ConvergenceInv'
  BY <1>1, <1>7, HandlerConverges, DoneConverges
<1>8. ~Restart
  BY BoundsAssumption DEF Restart, Settled, ConvergenceInv, RegistryInv, TypeInv, TypeOK
<1>9. CASE UNCHANGED vars \/ Outside
  BY <1>1, <1>9, ConvergenceStutter DEF vars, Outside, CacheExpires, ListInv
<1>10. CASE CalmEnvironment
  BY <1>2, <1>3, <1>4, <1>9, <1>10 DEF CalmEnvironment
<1>11. CASE Reactive
  BY <1>3, <1>4, <1>5, <1>6, <1>7, <1>11 DEF Reactive, processEvents
<1> QED BY <1>8, <1>9, <1>10, <1>11

\* A controller that has nothing left to do owes nothing.
LEMMA QuietServed ==
    ASSUME ConvergenceInv, Quiet, NEW t \in LBs \X Ups PROVE Served(t) /\ Matches(t)
<1>1. \A w \in Workers : ~Busy(w)
  BY DEF Quiet, ConvergenceInv, RegistryInv, OneWorkerPerKey, TypeInv, WorkerOK, Busy
<1>2. ~InFlight(t)
  BY <1>1 DEF InFlight, Busy, FlightPCs
<1>3. ASSUME NEW s \in Services PROVE ~Owed(s)
  <2>1. ~Pending(s) /\ svcEvents[s] = << >>
    BY DEF Quiet, Pending
  <2>2. ~AddPending(s)
    BY <2>1, EmptySeq DEF AddPending
  <2>3. ~Early(s)
    BY <1>1 DEF Early, Busy, EarlyPCs
  <2> QED BY <2>1, <2>2, <2>3 DEF Owed, Due
<1>4. \A s \in Services, p \in Pods : ~Will(s, p)
  BY DEF Quiet, Will
<1>5. ~Excused(t)
  BY <1>3, <1>4 DEF Excused, Mine
<1> QED BY <1>2, <1>5 DEF ConvergenceInv, UpstreamInv

\* Nor is it about to write.
LEMMA QuietReported ==
    ASSUME ConvergenceInv, StateInv, Quiet, NEW t \in LBs \X Ups
    PROVE  faults = 0 => nginx[t] = Reported(t)
<1>1. \A w \in Workers : ~Busy(w)
  BY DEF Quiet, ConvergenceInv, RegistryInv, OneWorkerPerKey, TypeInv, WorkerOK, Busy
<1>2. ~InCallTo(t)
  BY <1>1 DEF InCallTo, Busy
<1> QED BY <1>2 DEF StateInv

\* Everything that holds in the setting of the theorems.
SettledInv == ConvergenceInv /\ StateInv /\ ListInv /\ (Unshared => OwnInv)

\* It holds of the initial state,
LEMMA SettledInit == ASSUME Settled, Init PROVE SettledInv
<1>1. StateInv
  <2> SUFFICES ASSUME NEW t \in LBs \X Ups PROVE nginx[t] = Reported(t)
    BY DEF StateInv
  <2>1. t \in Targets
    BY NamesAssumption DEF Targets
  <2> QED BY <2>1 DEF Init, Reported
<1> QED BY <1>1, ConvergenceInit, ListInit, OwnInit DEF SettledInv

\* and after every step.
LEMMA SettledStep ==
    ASSUME Settled, SettledInv, [CalmEnvironment \/ Reactive \/ Restart]_vars PROVE SettledInv'
<1>1. [Environment \/ Reactive \/ Restart]_vars
  BY DEF CalmEnvironment, Environment
<1>2. AtLoadBalancers /\ TypeInv
  BY DEF SettledInv, ConvergenceInv, RegistryInv, AtLoadBalancers
<1>3. ListInv'
  BY <1>1, <1>2, ListStep DEF SettledInv, Settled, OnTime
<1>4. Unshared => OwnInv'
  BY <1>1, <1>2, OwnStep DEF SettledInv
<1>5. ConvergenceInv' /\ StateInv'
  BY ConvergenceStep, StateStep DEF SettledInv
<1>6. Unshared' = Unshared
  BY DEF Unshared
<1> QED BY <1>3, <1>4, <1>5, <1>6 DEF SettledInv

\* Once the event loop, the queue and the workers are at rest, every upstream
\* serves exactly the backends of its services, and one the safety net keeps what
\* GetState reports, however many services, pods and nodes there are, in whatever
\* order their changes, the events, the failures and the retries came, and although
\* the calls for all upstreams of a load balancer share its cached listing.
THEOREM Converges == ASSUME Settled PROVE CalmSpec => []QuietConverged
<1>1. Init => SettledInv
  BY SettledInit
<1>2. SettledInv /\ [CalmEnvironment \/ Reactive \/ Restart]_vars => SettledInv'
  BY SettledStep
<1>3. SettledInv => QuietConverged
  <2> SUFFICES ASSUME SettledInv, Quiet, NEW t \in LBs \X Ups PROVE Converged(t)
    BY DEF QuietConverged
  <2>1. Served(t)
    BY QuietServed DEF SettledInv
  <2>2. faults = 0 => nginx[t] = Reported(t)
    BY QuietReported DEF SettledInv
  <2> QED BY <2>1, <2>2 DEF Served, Converged
<1> QED BY <1>1, <1>2, <1>3, PTL DEF CalmSpec

\* In the same setting state.Upstreams then says what every load balancer serves, where
\* none has a safety net, or where no request fails.
THEOREM StateMatches ==
    ASSUME Settled, (\A lb \in LBs : Netless(lb)) \/ MaxFaults = 0
    PROVE  CalmSpec => []QuietStateMatches
<1>1. Init => SettledInv
  BY SettledInit
<1>2. SettledInv /\ [CalmEnvironment \/ Reactive \/ Restart]_vars => SettledInv'
  BY SettledStep
<1>3. SettledInv => QuietStateMatches
  <2> SUFFICES ASSUME SettledInv, Quiet, NEW t \in LBs \X Ups PROVE nginx[t] = Reported(t)
    BY DEF QuietStateMatches
  <2>1. Matches(t)
    BY QuietServed DEF SettledInv
  <2>2. faults = 0 => nginx[t] = Reported(t)
    BY QuietReported DEF SettledInv
  <2>3. MaxFaults = 0 => faults = 0
    BY DEF SettledInv, ConvergenceInv, RegistryInv, TypeInv, TypeOK
  <2> QED BY <2>1, <2>2, <2>3 DEF Matches
<1> QED BY <1>1, <1>2, <1>3, PTL DEF CalmSpec
=============================================================================
