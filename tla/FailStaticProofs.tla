-------------------------- MODULE FailStaticProofs --------------------------
(***************************************************************************)
(* Proof that a reconciliation pass leaves alone the upstreams it could not *)
(* read completely.                                                         *)
(***************************************************************************)
EXTENDS RegistryProofs

USE DEF cluster, events, state, queue, bounds, balancers

\* An upstream with a failed lookup stays in desiredState (so that the prune skips
\* it) and preserved (so that it is not pushed), from the lookup to the end.
PassOK(y) ==
    /\ y.failed \subseteq y.preserve \cap y.desired
    /\ y.pc \in {"idle", "register", "build"} => y.left = {}
    /\ y.left \cap y.preserve = {}
    /\ y.pc = "apply" => y.up \notin y.preserve
    /\ y.pc = "store" => y.up = Absent \/ y.up \notin y.preserve
    /\ y.pc \notin {"store", "apply"} => y.up = Absent

PassInv == TypeInv /\ \A r \in Syncers : PassOK(sy[r])

\* No pass is under way initially.
LEMMA PassInit == Init => PassInv
BY TypeInvInit DEF Init, PassInv, PassOK, IdleSyncer

\* A reconciler at rest has failed at nothing.
LEMMA PassIdle == PassOK(IdleSyncer)
BY DEF PassOK, IdleSyncer

\* A step of reconciler r that leaves rec in its locals.
LEMMA PassStep ==
    ASSUME PassInv, TypeInv', NEW r \in Syncers, NEW rec, PassOK(rec),
           sy' = [sy EXCEPT ![r] = rec]
    PROVE  PassInv'
BY DEF PassInv, TypeInv, TypeOK

\* What a step of reconciler r does to the pass and to the load balancer.
LEMMA PassKept ==
    ASSUME PassInv, TypeInv', NEW r \in Syncers, syncSingleLoadBalancer(r)
    PROVE  /\ PassInv'
           /\ \A q \in Syncers \ {r} : sy'[q] = sy[q]
           /\ \A u \in sy[r].failed : nginx'[<<sy[r].lb, u>>] = nginx[<<sy[r].lb, u>>]
<1> USE DEF SyncerOnly
<1>1. sy[r] \in SyncerType /\ SyncerOK(sy[r]) /\ PassOK(sy[r]) /\ sy \in [Syncers -> SyncerType]
  BY DEF PassInv, TypeInv, TypeOK
<1>2. CASE SyncList(r)
  <2>1. PICK lb \in SyncLBs[r] :
          SyncerOnly(r, [sy[r] EXCEPT !.pc = "register", !.lb = lb, !.snap = svc])
    BY <1>2 DEF SyncList
  <2>2. PassOK([sy[r] EXCEPT !.pc = "register", !.lb = lb, !.snap = svc])
    BY <1>1, <1>2 DEF SyncList, PassOK, SyncerType
  <2> QED BY <1>1, <2>1, <2>2, PassStep
<1>3. CASE SyncRegister(r)
  <2> DEFINE todo == {s \in OnLB(r) : sy[r].snap[s].up # ""}
             rec == [sy[r] EXCEPT !.pc = "build", !.todo = todo]
  <2>1. sy' = [sy EXCEPT ![r] = rec] /\ nginx' = nginx /\ sy[r].pc = "register"
    BY <1>3 DEF SyncRegister
  <2> HIDE DEF todo
  <2>2. PassOK(rec)
    BY <1>1, <2>1 DEF PassOK, SyncerType
  <2> QED BY <1>1, <2>1, <2>2, PassStep
<1>4. ASSUME NEW s \in Services, SyncBuildFails(r, s)
      PROVE  /\ PassInv' /\ nginx' = nginx
             /\ \A q \in Syncers \ {r} : sy'[q] = sy[q]
  <2> DEFINE u == sy[r].snap[s].up
             rec == [sy[r] EXCEPT !.todo = @ \ {s}, !.desired = @ \cup {u},
                                  !.preserve = PreserveToo(r, u), !.failed = @ \cup {u}]
  <2>1. sy' = [sy EXCEPT ![r] = rec] /\ nginx' = nginx /\ sy[r].pc = "build"
    BY <1>4 DEF SyncBuildFails
  <2>2. PassOK(rec)
    BY <1>1, <2>1 DEF PassOK, SyncerType, PreserveToo
  <2> QED BY <1>1, <2>1, <2>2, PassStep
<1>5. ASSUME NEW s \in Services, SyncBuild(r, s)
      PROVE  /\ PassInv' /\ nginx' = nginx
             /\ \A q \in Syncers \ {r} : sy'[q] = sy[q]
  <2> DEFINE skip == [sy[r] EXCEPT !.todo = @ \ {s}]
             rec == [sy[r] EXCEPT !.todo = @ \ {s}, !.desired = @ \cup {sy[r].snap[s].up},
                                  !.want = SyncAdd(r, s)]
  <2>1. /\ sy' = [sy EXCEPT ![r] = skip] \/ sy' = [sy EXCEPT ![r] = rec]
        /\ nginx' = nginx /\ sy[r].pc = "build"
    BY <1>5 DEF SyncBuild
  <2>2. PassOK(skip) /\ PassOK(rec)
    BY <1>1, <2>1 DEF PassOK, SyncerType
  <2> QED BY <1>1, <2>1, <2>2, PassStep
<1>6. CASE SyncDecide(r)
  <2> DEFINE keep == sy[r].preserve \cup Kept(r)
             want == [u \in Ups |-> IF u \in sy[r].desired \ keep
                                    THEN OrDefault(sy[r].lb, sy[r].want[u]) ELSE Empty]
             rec == [sy[r] EXCEPT !.pc = "push", !.preserve = keep,
                                  !.want = want, !.left = sy[r].desired \ keep]
  <2>1. sy' = [sy EXCEPT ![r] = rec] /\ nginx' = nginx /\ sy[r].pc = "build"
    BY <1>6 DEF SyncDecide
  <2>2. sy[r].preserve \subseteq keep
    OBVIOUS
  <2> HIDE DEF keep, want
  <2>3. PassOK(rec)
    BY <1>1, <2>1, <2>2 DEF PassOK, SyncerType
  <2> QED BY <1>1, <2>1, <2>3, PassStep
<1>7. ASSUME NEW u \in Ups, SyncPushList(r, u)
      PROVE  /\ PassInv' /\ nginx' = nginx
             /\ \A q \in Syncers \ {r} : sy'[q] = sy[q]
  <2> DEFINE pc == IF cache[sy[r].lb] = Absent THEN "store" ELSE "apply"
             list == refreshCache(sy[r].lb)
             rec == [sy[r] EXCEPT !.pc = pc, !.up = u, !.left = @ \ {u}, !.list = list]
  <2>1. /\ sy' = [sy EXCEPT ![r] = rec] /\ nginx' = nginx /\ u \in sy[r].left
        /\ pc \in {"store", "apply"}
    BY <1>7 DEF SyncPushList
  <2> HIDE DEF pc, list
  <2>2. PassOK(rec)
    BY <1>1, <2>1 DEF PassOK, SyncerType
  <2> QED BY <1>1, <2>1, <2>2, PassStep
<1>8. CASE SyncPushApply(r)
  <2> DEFINE rec == [sy[r] EXCEPT !.pc = "push", !.up = Absent, !.list = IdleSyncer.list]
  <2>1. /\ sy' = [sy EXCEPT ![r] = rec] /\ sy[r].pc = "apply"
        /\ \E D, b : nginx' = [nginx EXCEPT ![<<sy[r].lb, sy[r].up>>] = Write(@, b, D)]
    BY <1>8 DEF SyncPushApply
  <2>2. PassOK(rec)
    BY <1>1, <2>1 DEF PassOK, SyncerType
  <2>3. \A u \in sy[r].failed : nginx'[<<sy[r].lb, u>>] = nginx[<<sy[r].lb, u>>]
    <3>1. \A u \in sy[r].failed : u # sy[r].up /\ <<sy[r].lb, u>> \in LBs \X Ups
      BY <1>1, <2>1 DEF PassOK, SyncerOK, SyncerType
    <3> QED BY <2>1, <3>1 DEF PassInv, TypeInv, TypeOK
  <2> QED BY <1>1, <2>1, <2>2, <2>3, PassStep
<1>9. CASE SyncPruneList(r)
  <2> DEFINE pc == IF cache[sy[r].lb] = Absent THEN "store" ELSE "prune"
             list == refreshCache(sy[r].lb)
             rec == [sy[r] EXCEPT !.pc = pc, !.list = list]
  <2>1. /\ sy' = [sy EXCEPT ![r] = rec] \/ sy' = [sy EXCEPT ![r] = IdleSyncer]
        /\ nginx' = nginx /\ pc \in {"store", "prune"} /\ sy[r].pc = "push"
    BY <1>9 DEF SyncPruneList
  <2> HIDE DEF pc, list
  <2>2. PassOK(rec)
    BY <1>1, <2>1 DEF PassOK, SyncerType
  <2> QED BY <1>1, <2>1, <2>2, PassStep, PassIdle
<1>10. CASE SyncPruneApply(r)
  <2>1. sy' = [sy EXCEPT ![r] = IdleSyncer] /\ sy[r].pc = "prune"
    BY <1>10 DEF SyncPruneApply
  <2>2. PICK E \in SUBSET {ux \in Orphans(r) \X Addrs : sy[r].list[ux[1]][ux[2]] # 0} :
          nginx' = [t \in LBs \X Ups |->
                 IF t[1] # sy[r].lb THEN nginx[t]
                 ELSE [x \in Addrs |-> IF <<t[2], x>> \in E THEN 0 ELSE nginx[t][x]]]
    BY <1>10 DEF SyncPruneApply
  <2>3. ASSUME NEW u \in sy[r].failed PROVE nginx'[<<sy[r].lb, u>>] = nginx[<<sy[r].lb, u>>]
    <3> DEFINE t == <<sy[r].lb, u>>
    <3>1. t \in LBs \X Ups /\ \A x \in Addrs : <<u, x>> \notin E
      BY <1>1, <2>1 DEF PassOK, SyncerOK, SyncerType, Orphans
    <3>2. nginx[t] = [x \in Addrs |-> nginx[t][x]]
      BY <3>1 DEF PassInv, TypeInv, TypeOK, Backends
    <3> QED BY <2>2, <3>1, <3>2
  <2> QED BY <1>1, <2>1, <2>3, PassStep, PassIdle
<1>11. CASE SyncStore(r)
  <2> DEFINE pc == IF sy[r].up = Absent THEN "prune" ELSE "apply"
             rec == [sy[r] EXCEPT !.pc = pc]
  <2>1. /\ sy' = [sy EXCEPT ![r] = rec] /\ nginx' = nginx /\ sy[r].pc = "store"
        /\ pc \in {"prune", "apply"} /\ (sy[r].up = Absent <=> pc = "prune")
    BY <1>11 DEF SyncStore
  <2> HIDE DEF pc
  <2>2. PassOK(rec)
    BY <1>1, <2>1 DEF PassOK, SyncerType
  <2> QED BY <1>1, <2>1, <2>2, PassStep
<1> QED BY <1>2, <1>3, <1>4, <1>5, <1>6, <1>7, <1>8, <1>9, <1>10, <1>11
        DEF syncSingleLoadBalancer

\* The event driven half and the cluster do not touch the reconcilers.
LEMMA OthersLeavePass == ASSUME Environment \/ Reactive PROVE sy' = sy
<1>1. CASE Environment
  BY <1>1 DEF Environment, ChangeService, ResyncService, ChangePod, ChangeNode, Outside,
     CacheExpires, CarryOut
<1>2. CASE processEvents \/ (\E s \in Services : BackoffElapsed(s))
  BY <1>2 DEF processEvents, handleServiceEvent, handlePodEvent, handleNodeEvent, BackoffElapsed
<1>3. ASSUME NEW w \in Workers, (\E s \in Services : Get(w, s)) \/ processNextItem(w)
      PROVE  sy' = sy
  BY <1>3 DEF Get, processNextItem
<1>4. ASSUME NEW w \in Workers, syncHandler(w) PROVE sy' = sy
  BY <1>4 DEF syncHandler, GetService, ReadLast, HandOver, Drain, ListFails, CallFails,
     ForgetService, RecordService, BuildOwn, MergeShared, PushList, PushStore, PushApply,
     PushFails, WorkerOnly
<1> QED BY <1>1, <1>2, <1>3, <1>4 DEF Reactive

\* Every step keeps the invariant and is fail static.
LEMMA FailStaticKept ==
    PassInv /\ [Next]_vars => PassInv' /\ [FailStaticStep]_vars
<1> SUFFICES ASSUME PassInv, [Next]_vars PROVE PassInv' /\ [FailStaticStep]_vars
  OBVIOUS
<1>0. TypeInv'
  BY TypeStep DEF PassInv
<1>1. CASE sy' = sy
  BY <1>0, <1>1 DEF PassInv, FailStaticStep
<1>2. CASE Environment \/ Reactive
  BY <1>1, <1>2, OthersLeavePass
<1>3. ASSUME NEW r \in Syncers, syncSingleLoadBalancer(r)
      PROVE  PassInv' /\ FailStaticStep
  BY <1>0, <1>3, PassKept DEF FailStaticStep
<1>4. CASE Restart
  BY <1>0, <1>4, PassIdle DEF Restart, PassInv, FailStaticStep
<1>5. CASE UNCHANGED vars
  BY <1>1, <1>5 DEF vars
<1> QED BY <1>2, <1>3, <1>4, <1>5 DEF Next, Periodic

\* For every number of services, upstreams, load balancers and passes: no pass of
\* syncSingleLoadBalancer, its prune included, writes an upstream for which one of
\* its lookups failed.
THEOREM FailsStatic == Spec => FailStatic
BY PassInit, FailStaticKept, PTL DEF Spec, FailStatic

-----------------------------------------------------------------------------
(* The sync of a service does not empty an upstream.                        *)

\* The worker has no service to sync before the check, and has something to push
\* unless an empty upstream is allowed.
KeepOK(x) ==
    /\ x.pc \in {"get", "last", "check"} => x.cur = Absent
    /\ x.pc \in {"push", "store", "apply"} /\ x.cur # Absent
         => x.want # Empty \/ EmptyAllowed(x.to[1])

KeepInv == AtLoadBalancers /\ ListInv /\ \A w \in Workers : KeepOK(wk[w])

\* Two workers do not meet at a load balancer, and no lookup or request fails.
AloneAndSafe == Alone /\ MaxFaults = 0

\* What is pushed for a service is not empty, unless that is allowed.
LEMMA NotEmpty ==
    ASSUME NEW lb, NEW b \in Backends, ~SafetyNet(lb, b)
    PROVE  OrDefault(lb, b) # Empty \/ EmptyAllowed(lb)
<1>1. CASE b = Empty /\ DefaultBackend(lb) # Absent
  <2>1. PICK d : d = DefaultBackend(lb)
    OBVIOUS
  <2>2. d \in [addr : Addrs, weight : Nat]
    BY <1>1, <2>1, DefaultAssumption DEF DefaultBackend
  <2>3. DefaultBackends(d)[d.addr] # 0
    BY <2>2 DEF DefaultBackends
  <2>4. Empty[d.addr] = 0
    BY <2>2 DEF Empty
  <2> QED BY <1>1, <2>1, <2>3, <2>4 DEF OrDefault
<1>2. CASE ~(b = Empty /\ DefaultBackend(lb) # Absent)
  BY <1>2 DEF OrDefault, SafetyNet
<1> QED BY <1>1, <1>2

\* What a step keeps of KeepInv whatever it does.
KeepFrame == AtLoadBalancers' /\ ListInv'

\* A step that leaves rec in the locals of a worker, and writes nothing.
LEMMA KeepStep ==
    ASSUME KeepInv, KeepFrame, NEW w \in Workers, NEW rec, wk' = [wk EXCEPT ![w] = rec],
           nginx' = nginx, KeepOK(rec)
    PROVE  KeepInv' /\ KeepsSomeStep
<1>1. wk'[w] = rec /\ \A v \in Workers \ {w} : wk'[v] = wk[v]
  BY DEF KeepInv, AtLoadBalancers, TypeInv, TypeOK
<1>2. \A v \in Workers : KeepOK(wk[v])'
  BY <1>1 DEF KeepInv, KeepOK
<1> QED BY <1>2 DEF KeepInv, KeepFrame, KeepsSomeStep

\* The same for a step that ends where nothing is claimed.
LEMMA KeepGoto ==
    ASSUME KeepInv, KeepFrame, NEW w \in Workers, NEW rec, wk' = [wk EXCEPT ![w] = rec],
           nginx' = nginx, rec.pc \notin {"get", "last", "check", "push", "store", "apply"}
    PROVE  KeepInv' /\ KeepsSomeStep
BY KeepStep DEF KeepOK

\* A step of syncHandler keeps KeepInv and takes no last backend away.
LEMMA KeepHandler ==
    ASSUME AloneAndSafe, KeepInv, KeepFrame, NEW w \in Workers, syncHandler(w)
    PROVE  KeepInv' /\ KeepsSomeStep
<1>1. wk[w] \in WorkerType /\ WorkerOK(wk[w]) /\ KeepOK(wk[w]) /\ ~Fault
  BY DEF KeepInv, AtLoadBalancers, TypeInv, TypeOK, AloneAndSafe, Fault
<1>2. CASE GetService(w)
  <2> DEFINE rec == [wk[w] EXCEPT !.pc = "last", !.svc = svc[wk[w].key]]
  <2>1. wk' = [wk EXCEPT ![w] = rec] /\ nginx' = nginx /\ wk[w].pc = "get"
    BY <1>2 DEF GetService, WorkerOnly
  <2>2. KeepOK(rec)
    BY <1>1, <2>1 DEF KeepOK, WorkerType
  <2> HIDE DEF rec
  <2> QED BY <2>1, <2>2, KeepStep
<1>3. CASE ReadLast(w)
  <2> DEFINE last == lastKnown[wk[w].key]
             to == AfterLast(wk[w].svc, last)
             cont == IF wk[w].svc = Absent THEN "forget" ELSE "record"
             rec == [wk[w] EXCEPT !.pc = to, !.last = last, !.cont = cont]
  <2>1. wk' = [wk EXCEPT ![w] = rec] /\ nginx' = nginx /\ wk[w].pc = "last"
    BY <1>3 DEF ReadLast, WorkerOnly
  <2>2. to \in {"done", "check", "forget", "record"}
    BY AfterLastCases
  <2> HIDE DEF last, to, cont
  <2>3. KeepOK(rec)
    BY <1>1, <2>1, <2>2 DEF KeepOK, WorkerType
  <2> HIDE DEF rec
  <2> QED BY <2>1, <2>3, KeepStep
<1>4. ASSUME NEW o \in Services, HandOver(w, o) PROVE KeepInv' /\ KeepsSomeStep
  BY <1>1, <1>4, KeepGoto DEF HandOver, WorkerOnly, WorkerType
<1>5. CASE Drain(w)
  <2> DEFINE rec == [wk[w] EXCEPT !.pc = "push", !.to = Target(wk[w].last), !.want = Empty]
  <2>1. wk' = [wk EXCEPT ![w] = rec] /\ nginx' = nginx /\ wk[w].pc = "check"
    BY <1>5 DEF Drain
  <2>2. KeepOK(rec)
    BY <1>1, <2>1 DEF KeepOK, WorkerType
  <2> HIDE DEF rec
  <2> QED BY <2>1, <2>2, KeepStep
<1>6. CASE ListFails(w)
  BY <1>1, <1>6 DEF ListFails, CallFails
<1>7. CASE ForgetService(w)
  <2> DEFINE rec == [wk[w] EXCEPT !.pc = "done"]
  <2>1. wk' = [wk EXCEPT ![w] = rec] /\ nginx' = nginx /\ rec.pc = "done"
    BY <1>1, <1>7 DEF ForgetService, WorkerType
  <2> HIDE DEF rec
  <2> QED BY <2>1, KeepGoto
<1>8. CASE RecordService(w)
  <2> DEFINE rec == [wk[w] EXCEPT !.pc = "build", !.cur = wk[w].svc,
                                  !.curKey = wk[w].key, !.cont = "done"]
  <2>1. wk' = [wk EXCEPT ![w] = rec] /\ nginx' = nginx /\ rec.pc = "build"
    BY <1>1, <1>8 DEF RecordService, WorkerType
  <2> HIDE DEF rec
  <2> QED BY <2>1, KeepGoto
<1>9. ASSUME NEW pc \in {"fail", wk[w].cont}, WorkerOnly(w, Goto(w, pc))
      PROVE  KeepInv' /\ KeepsSomeStep
  <2>1. Goto(w, pc).pc = pc /\ pc \in {"fail", "record", "forget", "done"}
    BY <1>1, <1>9 DEF Goto, WorkerType
  <2> QED BY <1>9, <2>1, KeepGoto DEF WorkerOnly
<1>10. CASE BuildOwn(w)
  <2>1. CASE \E pc \in {"fail", wk[w].cont} : WorkerOnly(w, Goto(w, pc))
    BY <1>9, <2>1
  <2>2. CASE \E t, b : WorkerOnly(w, [wk[w] EXCEPT !.pc = "merge", !.to = t, !.want = b])
    <3>1. PICK t, b : WorkerOnly(w, [wk[w] EXCEPT !.pc = "merge", !.to = t, !.want = b])
      BY <2>2
    <3>2. [wk[w] EXCEPT !.pc = "merge", !.to = t, !.want = b].pc = "merge"
      BY <1>1 DEF WorkerType
    <3> QED BY <3>1, <3>2, KeepGoto DEF WorkerOnly
  <2> QED BY <1>10, <2>1, <2>2 DEF BuildOwn
<1>11. CASE MergeShared(w)
  <2>1. CASE \E pc \in {"fail", wk[w].cont} : WorkerOnly(w, Goto(w, pc))
    BY <1>9, <2>1
  <2>2. CASE /\ ~SafetyNet(wk[w].to[1], Merged(w)) /\ nginx' = nginx
             /\ wk' = [wk EXCEPT ![w].pc = "push",
                                 ![w].want = OrDefault(wk[w].to[1], Merged(w))]
    <3> DEFINE b == OrDefault(wk[w].to[1], Merged(w))
               rec == [wk[w] EXCEPT !.pc = "push", !.want = b]
    <3>1. b # Empty \/ EmptyAllowed(wk[w].to[1])
      BY <2>2, NotEmpty, MergedType DEF KeepInv, AtLoadBalancers
    <3>2. wk' = [wk EXCEPT ![w] = rec]
      BY <2>2
    <3> HIDE DEF b
    <3>3. KeepOK(rec)
      BY <1>1, <3>1 DEF KeepOK, WorkerType
    <3> HIDE DEF rec
    <3> QED BY <2>2, <3>2, <3>3, KeepStep
  <2> QED BY <1>11, <2>1, <2>2 DEF MergeShared
<1>12. CASE PushList(w)
  <2> DEFINE pc == IF cache[wk[w].to[1]] = Absent THEN "store" ELSE "apply"
             list == refreshCache(wk[w].to[1])
             rec == [wk[w] EXCEPT !.pc = pc, !.list = list]
  <2>1. CASE WorkerOnly(w, Goto(w, "fail"))
    BY <1>9, <2>1
  <2>2. CASE WorkerOnly(w, rec)
    <3>1. /\ wk' = [wk EXCEPT ![w] = rec] /\ nginx' = nginx /\ wk[w].pc = "push"
          /\ pc \in {"store", "apply"}
      BY <1>12, <2>2 DEF PushList, WorkerOnly
    <3> HIDE DEF pc, list
    <3>2. KeepOK(rec)
      BY <1>1, <3>1 DEF KeepOK, WorkerType
    <3> HIDE DEF rec
    <3> QED BY <3>1, <3>2, KeepStep
  <2> QED BY <1>12, <2>1, <2>2 DEF PushList
<1>13. CASE PushStore(w)
  <2> DEFINE rec == [wk[w] EXCEPT !.pc = "apply"]
  <2>1. wk' = [wk EXCEPT ![w] = rec] /\ nginx' = nginx /\ wk[w].pc = "store"
    BY <1>13 DEF PushStore
  <2>2. KeepOK(rec)
    BY <1>1, <2>1 DEF KeepOK, WorkerType
  <2> HIDE DEF rec
  <2> QED BY <2>1, <2>2, KeepStep
<1>14. CASE PushApply(w)
  <2>1. PICK h \in LBs \X Ups : h = wk[w].to
    BY <1>1, <1>14 DEF PushApply, WorkerOK
  <2>2. /\ wk[w].pc = "apply" /\ wk[w].list[h[2]] = nginx[h]
    <3>1. wk[w].pc = "apply" /\ wk[w].list = Listing(h[1])
      BY <1>14, <2>1 DEF PushApply, KeepInv, ListInv, InCall
    <3>2. h = <<h[1], h[2]>> /\ h[2] \in Ups
      OBVIOUS
    <3> QED BY <3>1, <3>2 DEF Listing
  <2>3. nginx' = [nginx EXCEPT ![h] = Write(@, wk[w].want, Differing(wk[w].want, nginx[h]))]
    BY <1>14, <2>1, <2>2 DEF PushApply, Send, Difference
  <2>4. /\ \A v \in Workers \ {w} : wk'[v] = wk[v]
        /\ wk'[w].pc \in {"record", "forget", "done"}
    <3> DEFINE list == IdleWorker.list
    <3>1. /\ wk' = [wk EXCEPT ![w] = [wk[w] EXCEPT !.pc = wk[w].cont, !.list = list]]
          /\ wk \in [Workers -> WorkerType]
      BY <1>14 DEF PushApply, KeepInv, AtLoadBalancers, TypeInv, TypeOK
    <3> HIDE DEF list
    <3> QED BY <1>1, <3>1 DEF WorkerType
  <2>5. nginx'[h] = wk[w].want /\ \A t \in LBs \X Ups : t # h => nginx'[t] = nginx[t]
    <3>1. wk[w].want \in Backends /\ nginx[h] \in Backends /\ nginx \in [LBs \X Ups -> Backends]
      BY <1>1 DEF WorkerType, KeepInv, AtLoadBalancers, TypeInv, TypeOK
    <3>2. Write(nginx[h], wk[w].want, Differing(wk[w].want, nginx[h])) = wk[w].want
      BY <3>1 DEF Write, Differing, Backends
    <3> QED BY <2>3, <3>1, <3>2
  <2>6. \A v \in Workers : KeepOK(wk[v])'
    BY <2>4 DEF KeepInv, KeepOK
  <2>7. KeepsSomeStep
    BY <1>1, <2>1, <2>2, <2>4, <2>5 DEF KeepsSomeStep, KeepOK
  <2> QED BY <2>6, <2>7 DEF KeepInv, KeepFrame
<1>15. CASE PushFails(w)
  BY <1>1, <1>15 DEF PushFails
<1> QED BY <1>2, <1>3, <1>4, <1>5, <1>6, <1>7, <1>8, <1>10, <1>11, <1>12, <1>13, <1>14, <1>15
        DEF syncHandler

\* Nor does any other step of the event driven half.
LEMMA KeepNext ==
    ASSUME AloneAndSafe
    PROVE  KeepInv /\ [Environment \/ Reactive \/ Restart]_vars => KeepInv' /\ [KeepsSomeStep]_vars
<1> SUFFICES ASSUME KeepInv, [Environment \/ Reactive \/ Restart]_vars
             PROVE  KeepInv' /\ KeepsSomeStep
  OBVIOUS
<1>0. KeepFrame
  <2>1. TypeInv' /\ OneWorkerPerKey'
    BY TypeStep, KeysStep DEF KeepInv, AtLoadBalancers, Next
  <2>2. (Unshared => OwnInv)'
    <3>1. Unshared => OwnInv'
      BY OwnStep DEF KeepInv, AtLoadBalancers
    <3> QED BY <3>1 DEF Unshared
  <2>3. ListInv'
    BY ListStep DEF KeepInv, AloneAndSafe, OnTime
  <2> QED BY <2>1, <2>2, <2>3 DEF KeepFrame, AtLoadBalancers
<1>1. CASE wk' = wk /\ nginx' = nginx
  BY <1>0, <1>1 DEF KeepInv, KeepFrame, KeepOK, KeepsSomeStep
<1>2. CASE Environment \/ processEvents \/ (\E s \in Services : BackoffElapsed(s)) \/ UNCHANGED vars
  BY <1>1, <1>2
     DEF Environment, ChangeService, ResyncService, ChangePod, ChangeNode, Outside, CacheExpires,
         CarryOut, KeepInv, ListInv, processEvents, handleServiceEvent, handlePodEvent,
         handleNodeEvent, BackoffElapsed, vars
<1>3. ASSUME NEW w \in Workers, NEW s \in Services, Get(w, s) PROVE KeepInv' /\ KeepsSomeStep
  <2> DEFINE rec == [IdleWorker EXCEPT !.pc = "get", !.key = s]
  <2>1. wk' = [wk EXCEPT ![w] = rec] /\ nginx' = nginx
    BY <1>3 DEF Get
  <2>2. KeepOK(rec)
    BY DEF KeepOK, IdleWorker
  <2> HIDE DEF rec
  <2> QED BY <1>0, <2>1, <2>2, KeepStep
<1>4. ASSUME NEW w \in Workers, processNextItem(w) PROVE KeepInv' /\ KeepsSomeStep
  BY <1>0, <1>4, KeepGoto DEF processNextItem, IdleWorker
<1>5. ASSUME NEW w \in Workers, syncHandler(w) PROVE KeepInv' /\ KeepsSomeStep
  BY <1>0, <1>5, KeepHandler
<1>6. CASE Restart
  BY <1>0, <1>6 DEF Restart, KeepInv, KeepFrame, KeepOK, KeepsSomeStep, IdleWorker
<1> QED BY <1>2, <1>3, <1>4, <1>5, <1>6 DEF Reactive

\* With one worker, or any number of workers where services do not share a load
\* balancer, and as long as no request fails: whatever happens to pods, nodes,
\* services, cached listings and the process, the sync of a service never takes the
\* last backend of an upstream away where allow_empty_upstream is off.
THEOREM KeepsSome == ASSUME AloneAndSafe PROVE ReactiveSpec => PushKeepsSome
<1>1. Init => KeepInv
  <2>1. Init => TypeInv /\ OneWorkerPerKey /\ OwnInv /\ ListInv
    BY TypeInvInit, KeysInit, OwnInit, ListInit
  <2> QED BY <2>1 DEF Init, KeepInv, AtLoadBalancers, KeepOK, IdleWorker
<1>2. KeepInv /\ [Environment \/ Reactive \/ Restart]_vars => KeepInv' /\ [KeepsSomeStep]_vars
  BY KeepNext
<1> QED BY <1>1, <1>2, PTL DEF ReactiveSpec, PushKeepsSome
=============================================================================
