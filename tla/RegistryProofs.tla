--------------------------- MODULE RegistryProofs ---------------------------
(***************************************************************************)
(* Proofs that the work queue gives a service to one worker at a time, and  *)
(* that the two registries of the controller follow the lister.             *)
(***************************************************************************)
EXTENDS ControllerProofs, SequenceTheorems

USE DEF cluster, events, state, queue, bounds, balancers

-----------------------------------------------------------------------------
(* One worker per key.                                                      *)

\* What every step of syncHandler leaves alone: the cluster, the queue, the other
\* workers and the registry entries of the other services.
HandlerFrame(w) ==
    /\ UNCHANGED <<svc, svcEvents, dirty, processing, waiting>>
    /\ \A v \in Workers \ {w} : wk'[v] = wk[v]
    /\ Busy(w) /\ Busy(w)' /\ wk'[w].key = wk[w].key
    /\ \A s \in Services \ {wk[w].key} : /\ lastKnown'[s] = lastKnown[s]
                                         /\ stServices'[s] = stServices[s]

\* A step that replaces the locals of w, and no registry entry but its own.
LEMMA FrameOf ==
    ASSUME TypeInv, NEW w \in Workers, NEW rec, wk' = [wk EXCEPT ![w] = rec],
           wk[w].pc # "idle", rec.pc # "idle", rec.key = wk[w].key,
           UNCHANGED <<svc, svcEvents, dirty, processing, waiting>>,
           \A s \in Services \ {wk[w].key} : /\ lastKnown'[s] = lastKnown[s]
                                             /\ stServices'[s] = stServices[s]
    PROVE  HandlerFrame(w)
BY DEF TypeInv, TypeOK, HandlerFrame, Busy

\* The same for a step that only changes the locals of w.
LEMMA FrameOfOnly ==
    ASSUME TypeInv, NEW w \in Workers, NEW rec, WorkerOnly(w, rec),
           wk[w].pc # "idle", rec.pc # "idle", rec.key = wk[w].key
    PROVE  HandlerFrame(w)
BY FrameOf DEF WorkerOnly

\* Every step of syncHandler stays within that frame.
LEMMA HandlerKeeps == ASSUME TypeInv, NEW w \in Workers, syncHandler(w) PROVE HandlerFrame(w)
<1>1. wk[w] \in WorkerType
  BY DEF TypeInv, TypeOK
<1>2. CASE GetService(w)
  BY <1>1, <1>2, FrameOfOnly DEF GetService, WorkerType
<1>3. CASE ReadLast(w)
  <2> DEFINE last == lastKnown[wk[w].key]
             to == AfterLast(wk[w].svc, last)
             cont == IF wk[w].svc = Absent THEN "forget" ELSE "record"
             rec == [wk[w] EXCEPT !.pc = to, !.last = last, !.cont = cont]
  <2>1. WorkerOnly(w, rec) /\ wk[w].pc = "last"
    BY <1>3 DEF ReadLast
  <2>2. to # "idle"
    BY AfterLastCases
  <2> HIDE DEF last, to, cont
  <2>3. rec.pc = to /\ rec.key = wk[w].key
    BY <1>1 DEF WorkerType
  <2> QED BY <2>1, <2>2, <2>3, FrameOfOnly
<1>4. ASSUME NEW o \in Services, HandOver(w, o) PROVE HandlerFrame(w)
  BY <1>1, <1>4, FrameOfOnly DEF HandOver, WorkerType
<1>5. CASE Drain(w)
  <2> DEFINE rec == [wk[w] EXCEPT !.pc = "push", !.to = Target(wk[w].last), !.want = Empty]
  <2>1. wk' = [wk EXCEPT ![w] = rec] /\ rec.pc = "push" /\ rec.key = wk[w].key
    BY <1>1, <1>5 DEF Drain, WorkerType
  <2> HIDE DEF rec
  <2> QED BY <1>5, <2>1, FrameOf DEF Drain
<1>6. CASE ListFails(w)
  BY <1>1, <1>6, FrameOfOnly DEF ListFails, CallFails, Goto, WorkerType
<1>7. CASE ForgetService(w)
  <2> DEFINE rec == [wk[w] EXCEPT !.pc = "done"]
  <2>1. wk' = [wk EXCEPT ![w] = rec] /\ rec.pc = "done" /\ rec.key = wk[w].key
    BY <1>1, <1>7 DEF ForgetService, WorkerType
  <2> HIDE DEF rec
  <2> QED BY <1>7, <2>1, FrameOf DEF ForgetService, TypeInv, TypeOK
<1>8. CASE RecordService(w)
  <2> DEFINE rec == [wk[w] EXCEPT !.pc = "build", !.cur = wk[w].svc,
                                  !.curKey = wk[w].key, !.cont = "done"]
  <2>1. wk' = [wk EXCEPT ![w] = rec] /\ rec.pc = "build" /\ rec.key = wk[w].key
    BY <1>1, <1>8 DEF RecordService, WorkerType
  <2> HIDE DEF rec
  <2> QED BY <1>8, <2>1, FrameOf DEF RecordService, TypeInv, TypeOK
<1>9. CASE BuildOwn(w)
  BY <1>1, <1>9, FrameOfOnly DEF BuildOwn, Goto, WorkerType
<1>10. CASE MergeShared(w)
  <2> DEFINE rec == [wk[w] EXCEPT !.pc = "push", !.want = OrDefault(wk[w].to[1], Merged(w))]
  <2>1. CASE \E pc \in {"fail", wk[w].cont} : WorkerOnly(w, Goto(w, pc))
    BY <1>1, <1>10, <2>1, FrameOfOnly DEF MergeShared, Goto, WorkerType
  <2>2. CASE wk' = [wk EXCEPT ![w] = rec] /\ UNCHANGED <<cluster, events, stServices,
                                                        lastKnown, queue>>
    <3>1. rec.pc = "push" /\ rec.key = wk[w].key
      BY <1>1 DEF WorkerType
    <3> HIDE DEF rec
    <3> QED BY <1>10, <2>2, <3>1, FrameOf DEF MergeShared
  <2> QED BY <1>10, <2>1, <2>2 DEF MergeShared
<1>11. CASE PushList(w)
  <2> DEFINE pc == IF cache[wk[w].to[1]] = Absent THEN "store" ELSE "apply"
             list == refreshCache(wk[w].to[1])
             rec == [wk[w] EXCEPT !.pc = pc, !.list = list]
  <2>1. pc # "idle" /\ (WorkerOnly(w, rec) \/ WorkerOnly(w, Goto(w, "fail"))) /\ wk[w].pc = "push"
    BY <1>11 DEF PushList
  <2> HIDE DEF pc, list
  <2> QED BY <1>1, <2>1, FrameOfOnly DEF Goto, WorkerType
<1>12. CASE PushStore(w)
  <2>1. wk' = [wk EXCEPT ![w] = Goto(w, "apply")]
    BY <1>12 DEF PushStore, Goto
  <2>2. Goto(w, "apply").pc # "idle" /\ Goto(w, "apply").key = wk[w].key
    BY <1>1 DEF Goto, WorkerType
  <2> QED BY <1>12, <2>1, <2>2, FrameOf DEF PushStore
<1>13. ASSUME NEW pc \in {"fail", wk[w].cont}, PushApply(w) \/ PushFails(w),
              wk' = [wk EXCEPT ![w].pc = pc, ![w].list = IdleWorker.list]
       PROVE  HandlerFrame(w)
  <2> DEFINE list == IdleWorker.list
             rec == [wk[w] EXCEPT !.pc = pc, !.list = list]
  <2>1. wk' = [wk EXCEPT ![w] = rec]
    BY <1>13
  <2> HIDE DEF list
  <2>2. rec.pc # "idle" /\ rec.key = wk[w].key
    BY <1>1, <1>13 DEF WorkerType
  <2> HIDE DEF rec
  <2> QED BY <1>13, <2>1, <2>2, FrameOf DEF PushApply, PushFails
<1>14. CASE PushApply(w) \/ PushFails(w)
  BY <1>13, <1>14 DEF PushApply, PushFails
<1> QED BY <1>2, <1>3, <1>4, <1>5, <1>6, <1>7, <1>8, <1>9, <1>10, <1>11, <1>12, <1>14
        DEF syncHandler

\* Keys stay as they are when no worker takes or leaves one.
LEMMA KeysKept ==
    ASSUME OneWorkerPerKey, processing' = processing,
           \A v \in Workers : wk'[v].key = wk[v].key /\ (Busy(v)' <=> Busy(v))
    PROVE  OneWorkerPerKey'
BY DEF OneWorkerPerKey, Busy

\* Get hands out a key that nobody has.
LEMMA GetKeys ==
    ASSUME TypeInv, OneWorkerPerKey, NEW w \in Workers, NEW s \in Services, Get(w, s)
    PROVE  OneWorkerPerKey'
<1>1. /\ wk'[w].pc = "get" /\ wk'[w].key = s
      /\ \A v \in Workers \ {w} : wk'[v] = wk[v]
  BY DEF Get, IdleWorker, TypeInv, TypeOK
<1>2. /\ processing' = processing \cup {s} /\ s \notin processing /\ wk[w].pc = "idle"
  BY DEF Get
<1> QED BY <1>1, <1>2 DEF OneWorkerPerKey, Busy

\* Done frees the key of this worker and no other.
LEMMA DoneKeys ==
    ASSUME TypeInv, OneWorkerPerKey, NEW w \in Workers, processNextItem(w)
    PROVE  OneWorkerPerKey'
<1>1. /\ wk'[w].pc = "idle"
      /\ \A v \in Workers \ {w} : wk'[v] = wk[v]
  BY DEF processNextItem, IdleWorker, TypeInv, TypeOK
<1>2. /\ processing' = processing \ {wk[w].key} /\ wk[w].pc # "idle"
  BY DEF processNextItem
<1> QED BY <1>1, <1>2 DEF OneWorkerPerKey, Busy

\* After a restart nobody has a key.
LEMMA RestartKeys == ASSUME Restart PROVE OneWorkerPerKey'
BY DEF Restart, IdleWorker, OneWorkerPerKey, Busy

\* OneWorkerPerKey is inductive, given the types.
LEMMA KeysStep == TypeInv /\ OneWorkerPerKey /\ [Next]_vars => OneWorkerPerKey'
<1> SUFFICES ASSUME TypeInv, OneWorkerPerKey, [Next]_vars PROVE OneWorkerPerKey'
  OBVIOUS
<1>1. CASE UNCHANGED <<wk, processing>>
  BY <1>1 DEF OneWorkerPerKey, Busy
<1>2. ASSUME NEW w \in Workers, NEW s \in Services, Get(w, s) PROVE OneWorkerPerKey'
  BY <1>2, GetKeys
<1>3. ASSUME NEW w \in Workers, processNextItem(w) PROVE OneWorkerPerKey'
  BY <1>3, DoneKeys
<1>4. ASSUME NEW w \in Workers, syncHandler(w) PROVE OneWorkerPerKey'
  <2>1. HandlerFrame(w)
    BY <1>4, HandlerKeeps
  <2> QED BY <2>1, KeysKept DEF HandlerFrame, Busy
<1>5. CASE Restart
  BY <1>5, RestartKeys
<1>6. CASE Environment
  BY <1>1, <1>6 DEF Environment, ChangeService, ResyncService, ChangePod, ChangeNode, Outside,
                    CacheExpires, CarryOut
<1>7. CASE processEvents \/ \E s \in Services : BackoffElapsed(s)
  BY <1>1, <1>7 DEF processEvents, handleServiceEvent, handlePodEvent, handleNodeEvent,
                    BackoffElapsed
<1>8. CASE Periodic
  <2> USE DEF SyncerOnly
  <2>1. PICK r \in Syncers : syncSingleLoadBalancer(r)
    BY <1>8 DEF Periodic
  <2>2. CASE SyncList(r) \/ SyncRegister(r)
    BY <1>1, <2>2 DEF SyncList, SyncRegister
  <2>3. CASE \E s \in Services : SyncBuildFails(r, s) \/ SyncBuild(r, s)
    BY <1>1, <2>3 DEF SyncBuildFails, SyncBuild
  <2>4. CASE SyncDecide(r) \/ \E u \in Ups : SyncPushList(r, u)
    BY <1>1, <2>4 DEF SyncDecide, SyncPushList
  <2>5. CASE SyncStore(r) \/ SyncPushApply(r) \/ SyncPruneList(r) \/ SyncPruneApply(r)
    BY <1>1, <2>5 DEF SyncStore, SyncPushApply, SyncPruneList, SyncPruneApply
  <2> QED BY <2>1, <2>2, <2>3, <2>4, <2>5 DEF syncSingleLoadBalancer
<1>9. CASE UNCHANGED vars
  BY <1>1, <1>9 DEF vars
<1> QED BY <1>2, <1>3, <1>4, <1>5, <1>6, <1>7, <1>8, <1>9 DEF Next, Reactive

\* Initially nobody has a key.
LEMMA KeysInit == Init => OneWorkerPerKey
BY DEF Init, IdleWorker, OneWorkerPerKey, Busy

\* No service is ever on two workers, however many workers there are and whatever
\* the event loop adds to the queue meanwhile: processNextItem may read and write
\* lastKnownServices[key] in separate critical sections.
THEOREM WorkersExclusive == Spec => []OneWorkerPerKey
<1>1. Init => TypeInv /\ OneWorkerPerKey
  BY TypeInvInit, KeysInit
<1>2. TypeInv /\ OneWorkerPerKey /\ [Next]_vars => TypeInv' /\ OneWorkerPerKey'
  BY TypeStep, KeysStep
<1> QED BY <1>1, <1>2, PTL DEF Spec

-----------------------------------------------------------------------------
(* The registries.  RegistryAgrees speaks of services at rest; the facts    *)
(* that carry it through a sync are about the notifications still to come,  *)
(* and about what the worker that has the service has read and written.     *)

\* The last notification that is under way says what the lister has now.
Announced(s) ==
    svcEvents[s] # << >> =>
        LET e == svcEvents[s][Len(svcEvents[s])] IN
          svc[s] = IF e.type = "Delete" THEN Absent ELSE e.obj

\* A service that is gone and forgotten is not in state.Services either: nothing
\* would take it out later.
NoGhost(s) ==
    svcEvents[s] = << >> /\ svc[s] = Absent /\ lastKnown[s] = Absent => stServices[s] = Absent

Syncing == {"build", "merge", "push", "store", "apply"}

\* A worker whose service did not change since it was taken has read its current
\* object, and after RecordService or ForgetService the registries hold it.
SyncInv(w) ==
    LET x == wk[w] IN
      /\ x.pc = "check" => x.cont # "done"
      /\ x.pc = "forget" \/ (x.pc \in Syncing \cup {"check"} /\ x.cont = "forget")
           => x.svc = Absent
      /\ ~Pending(x.key) =>
           /\ x.pc \notin {"idle", "get"} => x.svc = svc[x.key]
           /\ x.pc = "done" \/ (x.pc \in Syncing /\ x.cont = "done")
                => lastKnown[x.key] = svc[x.key] /\ stServices[x.key] = svc[x.key]

RegistryInv ==
    /\ TypeInv
    /\ OneWorkerPerKey
    /\ \A s \in Services : Announced(s) /\ NoGhost(s)
    /\ \A w \in Workers : Busy(w) => SyncInv(w)
    /\ RegistryAgrees

\* Initially there is no service anywhere.
LEMMA RegistryInit == Init => RegistryInv
<1> SUFFICES ASSUME Init PROVE RegistryInv
  OBVIOUS
<1>1. TypeInv /\ OneWorkerPerKey
  BY TypeInvInit, KeysInit
<1> QED BY <1>1 DEF Init, RegistryInv, Announced, NoGhost, Busy, IdleWorker, RegistryAgrees

\* A step of syncHandler keeps the invariant when it keeps the two parts that
\* speak of its own service.
LEMMA OwnService ==
    ASSUME RegistryInv, TypeInv', OneWorkerPerKey', NEW w \in Workers, HandlerFrame(w),
           SyncInv(w)', NoGhost(wk[w].key)'
    PROVE  RegistryInv'
<1> DEFINE k == wk[w].key
<1>1. k \in Services /\ k \in processing
  BY DEF RegistryInv, OneWorkerPerKey, HandlerFrame, TypeInv, WorkerOK, Busy
<1>2. \A s \in Services : Pending(s)' <=> Pending(s)
  BY DEF HandlerFrame, Pending
<1>3. \A s \in Services : Announced(s)'
  BY DEF HandlerFrame, Announced, RegistryInv
<1>4. \A s \in Services : NoGhost(s)'
  BY DEF HandlerFrame, NoGhost, RegistryInv
<1>5. ASSUME NEW v \in Workers \ {w}, Busy(v)' PROVE SyncInv(v)'
  <2>1. wk'[v] = wk[v] /\ Busy(v)
    BY <1>5 DEF HandlerFrame, Busy
  <2>2. wk[v].key \in Services \ {k}
    BY <2>1 DEF RegistryInv, OneWorkerPerKey, HandlerFrame, TypeInv, WorkerOK, Busy
  <2>3. SyncInv(v)
    BY <2>1 DEF RegistryInv
  <2> QED BY <1>2, <2>1, <2>2, <2>3 DEF SyncInv, HandlerFrame
<1>6. RegistryAgrees'
  BY <1>1, <1>2 DEF RegistryInv, RegistryAgrees, HandlerFrame
<1> QED BY <1>3, <1>4, <1>5, <1>6 DEF RegistryInv

\* Every step of syncHandler keeps what its worker knows of its own service.
LEMMA HandlerSync ==
    ASSUME RegistryInv, NEW w \in Workers, syncHandler(w)
    PROVE  SyncInv(w)' /\ NoGhost(wk[w].key)'
<1> DEFINE k == wk[w].key
<1>0. HandlerFrame(w)
  BY HandlerKeeps DEF RegistryInv
<1>1. /\ wk[w] \in WorkerType /\ k \in Services /\ SyncInv(w) /\ NoGhost(k)
      /\ wk'[w] \in WorkerType
  <2>1. TypeOK'
    BY ReactiveType DEF RegistryInv, Reactive, TypeInv
  <2> QED BY <1>0, <2>1 DEF RegistryInv, TypeInv, TypeOK, WorkerOK, HandlerFrame, Busy
<1>2. Pending(k)' <=> Pending(k)
  BY <1>0 DEF HandlerFrame, Pending
<1>3. wk'[w].key = k /\ svc' = svc /\ svcEvents' = svcEvents
  BY <1>0 DEF HandlerFrame
<1>4. CASE GetService(w)
  <2>1. wk'[w].pc = "last" /\ wk'[w].svc = svc[k] /\ UNCHANGED <<lastKnown, stServices>>
    BY <1>1, <1>4 DEF GetService, WorkerOnly, WorkerType, RegistryInv, TypeInv, TypeOK
  <2> QED BY <1>1, <1>2, <1>3, <2>1 DEF SyncInv, NoGhost, Syncing
<1>5. CASE ReadLast(w)
  <2> DEFINE last == lastKnown[k]
             to == AfterLast(wk[w].svc, last)
             cont == IF wk[w].svc = Absent THEN "forget" ELSE "record"
             rec == [wk[w] EXCEPT !.pc = to, !.last = last, !.cont = cont]
  <2>1. /\ wk' = [wk EXCEPT ![w] = rec] /\ UNCHANGED <<lastKnown, stServices>>
        /\ wk[w].pc = "last"
    BY <1>5 DEF ReadLast, WorkerOnly
  <2>2. /\ to \in {"done", "check", "forget", "record"}
        /\ to = "done" => wk[w].svc = Absent /\ lastKnown[k] = Absent
        /\ to = "forget" => wk[w].svc = Absent
    BY AfterLastCases
  <2>3. cont # "done" /\ (cont = "forget" => wk[w].svc = Absent)
    OBVIOUS
  <2> HIDE DEF last, to, cont
  <2>4. wk'[w].pc = to /\ wk'[w].svc = wk[w].svc /\ wk'[w].cont = cont
    BY <1>1, <2>1 DEF WorkerType, RegistryInv, TypeInv, TypeOK
  <2>5. ~Pending(k) => wk[w].svc = svc[k]
    BY <1>1, <2>1 DEF SyncInv
  <2>6. ~Pending(k) /\ to = "done" => lastKnown[k] = svc[k] /\ stServices[k] = svc[k]
    BY <1>1, <2>2, <2>5 DEF NoGhost, Pending
  <2> QED BY <1>1, <1>2, <1>3, <2>1, <2>2, <2>3, <2>4, <2>5, <2>6
          DEF SyncInv, NoGhost, Syncing
<1>6. ASSUME NEW o \in Services, HandOver(w, o) PROVE SyncInv(w)' /\ NoGhost(k)'
  <2>1. /\ wk[w].pc = "check" /\ wk'[w].pc = "build" /\ wk'[w].svc = wk[w].svc
        /\ wk'[w].cont = wk[w].cont /\ UNCHANGED <<lastKnown, stServices>>
    BY <1>1, <1>6 DEF HandOver, WorkerOnly, WorkerType, RegistryInv, TypeInv, TypeOK
  <2> QED BY <1>1, <1>2, <1>3, <2>1 DEF SyncInv, NoGhost, Syncing
<1>7. CASE Drain(w)
  <2>1. /\ wk[w].pc = "check" /\ wk'[w].pc = "push" /\ wk'[w].svc = wk[w].svc
        /\ wk'[w].cont = wk[w].cont /\ UNCHANGED <<lastKnown, stServices>>
    BY <1>1, <1>7 DEF Drain, WorkerType, RegistryInv, TypeInv, TypeOK
  <2> QED BY <1>1, <1>2, <1>3, <2>1 DEF SyncInv, NoGhost, Syncing
<1>8. CASE ForgetService(w)
  <2>1. /\ wk[w].pc = "forget" /\ wk'[w].pc = "done" /\ wk'[w].svc = wk[w].svc
        /\ lastKnown'[k] = Absent /\ stServices'[k] = Absent
    BY <1>1, <1>8 DEF ForgetService, WorkerType, RegistryInv, TypeInv, TypeOK
  <2> QED BY <1>1, <1>2, <1>3, <2>1 DEF SyncInv, NoGhost, Syncing
<1>9. CASE RecordService(w)
  <2>1. /\ wk[w].pc = "record" /\ wk'[w].pc = "build" /\ wk'[w].svc = wk[w].svc
        /\ wk'[w].cont = "done" /\ lastKnown'[k] = wk[w].svc /\ stServices'[k] = wk[w].svc
    BY <1>1, <1>9 DEF RecordService, WorkerType, RegistryInv, TypeInv, TypeOK
  <2> QED BY <1>1, <1>2, <1>3, <2>1 DEF SyncInv, NoGhost, Syncing
\* The rest of syncUpstreamsForService goes on, fails, or returns to cont.
<1>10. ASSUME /\ wk[w].pc \in Syncing
              /\ wk'[w].pc \in Syncing \cup {"fail", wk[w].cont}
              /\ wk'[w].svc = wk[w].svc /\ wk'[w].cont = wk[w].cont
              /\ UNCHANGED <<lastKnown, stServices>>
       PROVE  SyncInv(w)' /\ NoGhost(k)'
  <2>1. wk[w].cont \in {"record", "forget", "done"}
    BY <1>1 DEF WorkerType
  <2> QED BY <1>1, <1>2, <1>3, <1>10, <2>1 DEF SyncInv, NoGhost, Syncing
<1>11. CASE ListFails(w)
  <2>1. /\ wk[w].pc \in {"check", "build", "merge"} /\ wk'[w].pc = "fail"
        /\ wk'[w].svc = wk[w].svc /\ wk'[w].cont = wk[w].cont
        /\ UNCHANGED <<lastKnown, stServices>>
    BY <1>1, <1>11
       DEF ListFails, CallFails, WorkerOnly, Goto, WorkerType, RegistryInv, TypeInv, TypeOK
  <2> QED BY <1>1, <1>2, <1>3, <2>1 DEF SyncInv, NoGhost, Syncing
<1>12. CASE BuildOwn(w)
  <2> DEFINE t == Target(wk[w].cur)
             b == Built([s \in {wk[w].curKey} |-> wk[w].cur])
  <2>1. wk \in [Workers -> WorkerType]
    BY DEF RegistryInv, TypeInv, TypeOK
  <2>2. CASE \E pc \in {"fail", wk[w].cont} : WorkerOnly(w, Goto(w, pc))
    BY <1>1, <1>10, <1>12, <2>1, <2>2 DEF BuildOwn, WorkerOnly, Goto, WorkerType, Syncing
  <2>3. CASE WorkerOnly(w, [wk[w] EXCEPT !.pc = "merge", !.to = t, !.want = b])
    <3> HIDE DEF b, t
    <3>1. wk'[w] = [wk[w] EXCEPT !.pc = "merge", !.to = t, !.want = b]
      BY <2>1, <2>3 DEF WorkerOnly
    <3>2. wk'[w].pc = "merge" /\ wk'[w].svc = wk[w].svc /\ wk'[w].cont = wk[w].cont
      BY <1>1, <3>1 DEF WorkerType
    <3> QED BY <1>10, <1>12, <2>3, <3>2 DEF BuildOwn, WorkerOnly, Syncing
  <2> QED BY <1>12, <2>2, <2>3 DEF BuildOwn
<1>13. CASE MergeShared(w)
  <2> DEFINE b == OrDefault(wk[w].to[1], Merged(w))
  <2>1. wk \in [Workers -> WorkerType]
    BY DEF RegistryInv, TypeInv, TypeOK
  <2>2. CASE \E pc \in {"fail", wk[w].cont} : WorkerOnly(w, Goto(w, pc))
    BY <1>1, <1>10, <1>13, <2>1, <2>2 DEF MergeShared, WorkerOnly, Goto, WorkerType, Syncing
  <2>3. CASE /\ wk' = [wk EXCEPT ![w].pc = "push", ![w].want = b]
             /\ UNCHANGED <<stServices, lastKnown>>
    <3> HIDE DEF b
    <3>1. wk'[w] = [wk[w] EXCEPT !.pc = "push", !.want = b]
      BY <2>1, <2>3
    <3>2. wk'[w].pc = "push" /\ wk'[w].svc = wk[w].svc /\ wk'[w].cont = wk[w].cont
      BY <1>1, <3>1 DEF WorkerType
    <3> QED BY <1>10, <1>13, <2>3, <3>2 DEF MergeShared, Syncing
  <2> QED BY <1>13, <2>2, <2>3 DEF MergeShared
<1>14. ASSUME NEW pc \in Syncing \cup {"fail", wk[w].cont}, NEW list,
              wk' = [wk EXCEPT ![w] = [wk[w] EXCEPT !.pc = pc, !.list = list]],
              wk[w].pc \in Syncing, UNCHANGED <<lastKnown, stServices>>
       PROVE  SyncInv(w)' /\ NoGhost(k)'
  <2>1. wk'[w] = [wk[w] EXCEPT !.pc = pc, !.list = list]
    BY <1>14 DEF RegistryInv, TypeInv, TypeOK
  <2>2. wk'[w].pc = pc /\ wk'[w].svc = wk[w].svc /\ wk'[w].cont = wk[w].cont
    BY <1>1, <2>1 DEF WorkerType
  <2> QED BY <1>10, <1>14, <2>2
<1>15. CASE PushList(w)
  <2> DEFINE pc == IF cache[wk[w].to[1]] = Absent THEN "store" ELSE "apply"
             list == refreshCache(wk[w].to[1])
  <2>1. CASE wk' = [wk EXCEPT ![w] = Goto(w, "fail")]
    <3>1. wk'[w].pc = "fail" /\ wk'[w].svc = wk[w].svc /\ wk'[w].cont = wk[w].cont
      BY <1>1, <2>1 DEF Goto, WorkerType, RegistryInv, TypeInv, TypeOK
    <3> QED BY <1>10, <1>15, <3>1 DEF PushList, WorkerOnly, Syncing
  <2>2. CASE wk' = [wk EXCEPT ![w] = [wk[w] EXCEPT !.pc = pc, !.list = list]]
    <3>1. pc \in Syncing /\ wk[w].pc \in Syncing /\ UNCHANGED <<lastKnown, stServices>>
      BY <1>15 DEF PushList, WorkerOnly, Syncing
    <3> HIDE DEF pc, list
    <3> QED BY <1>14, <2>2, <3>1
  <2> QED BY <1>15, <2>1, <2>2 DEF PushList, WorkerOnly
<1>16. CASE PushStore(w)
  <2>1. wk'[w].pc = "apply" /\ wk'[w].svc = wk[w].svc /\ wk'[w].cont = wk[w].cont
    BY <1>1, <1>16 DEF PushStore, WorkerType, RegistryInv, TypeInv, TypeOK
  <2> QED BY <1>10, <1>16, <2>1 DEF PushStore, Syncing
<1>17. CASE PushApply(w) \/ PushFails(w)
  <2> DEFINE list == IdleWorker.list
  <2>1. PICK pc \in {"fail", wk[w].cont} :
             wk' = [wk EXCEPT ![w] = [wk[w] EXCEPT !.pc = pc, !.list = list]]
    BY <1>17 DEF PushApply, PushFails
  <2>2. wk[w].pc \in Syncing /\ UNCHANGED <<lastKnown, stServices>>
    BY <1>17 DEF PushApply, PushFails, Syncing
  <2> HIDE DEF list
  <2> QED BY <1>14, <2>1, <2>2
<1> QED BY <1>4, <1>5, <1>6, <1>7, <1>8, <1>9, <1>11, <1>12, <1>13, <1>15, <1>16, <1>17
        DEF syncHandler

\* A new notification, or the handling of one, makes the service pending; what
\* other services and workers know does not change.
LEMMA OtherServices ==
    ASSUME RegistryInv, TypeInv', OneWorkerPerKey', NEW s \in Services,
           UNCHANGED <<wk, processing, waiting>>, dirty \subseteq dirty',
           Pending(s)', Announced(s)', NoGhost(s)',
           \A k \in Services \ {s} :
             /\ svc'[k] = svc[k] /\ svcEvents'[k] = svcEvents[k]
             /\ lastKnown'[k] = lastKnown[k] /\ stServices'[k] = stServices[k]
    PROVE  RegistryInv'
<1>1. \A k \in Services \ {s} : Pending(k) => Pending(k)'
  BY DEF Pending
<1>2. \A k \in Services \ {s} : Announced(k)' /\ NoGhost(k)'
  BY DEF RegistryInv, Announced, NoGhost
<1>3. ASSUME NEW w \in Workers, Busy(w)' PROVE SyncInv(w)'
  <2>1. Busy(w) /\ SyncInv(w) /\ wk'[w] = wk[w] /\ wk[w].key \in Services
    BY <1>3 DEF RegistryInv, Busy, TypeInv, WorkerOK
  <2>2. CASE wk[w].key = s
    BY <2>1, <2>2 DEF SyncInv
  <2>3. CASE wk[w].key # s
    BY <1>1, <2>1, <2>3 DEF SyncInv
  <2> QED BY <2>2, <2>3
<1>4. RegistryAgrees'
  BY <1>1 DEF RegistryInv, RegistryAgrees
<1> QED BY <1>2, <1>3, <1>4 DEF RegistryInv

\* A change of a service is announced, so that its entry is pending.
LEMMA ChangeServiceRegistry ==
    ASSUME RegistryInv, TypeInv', OneWorkerPerKey', NEW s \in Services, ChangeService(s)
    PROVE  RegistryInv'
<1>1. PICK n \in (SvcObjs[s] \cup {Absent}) \ {svc[s]} : \E e \in ServiceNotice(svc[s], n) :
           /\ svc' = [svc EXCEPT ![s] = n]
           /\ svcEvents' = [svcEvents EXCEPT ![s] = Append(@, e)]
  BY DEF ChangeService
<1>2. PICK e \in ServiceNotice(svc[s], n) :
           /\ svc' = [svc EXCEPT ![s] = n]
           /\ svcEvents' = [svcEvents EXCEPT ![s] = Append(@, e)]
  BY <1>1
<1>3. n = IF e.type = "Delete" THEN Absent ELSE e.obj
  BY DEF ServiceNotice
<1>4. svcEvents[s] \in Seq(Events(ServiceObjs)) /\ e \in Events(ServiceObjs)
  <2>1. n \in ServiceObjs \cup {Absent} /\ svc[s] \in ServiceObjs \cup {Absent}
    BY DEF ServiceObjs, RegistryInv, TypeInv, TypeOK
  <2>2. e \in Events(ServiceObjs)
    BY <2>1 DEF ServiceNotice, Events
  <2> QED BY <2>2 DEF RegistryInv, TypeInv, TypeOK
<1>5. svcEvents'[s] = Append(svcEvents[s], e) /\ svc'[s] = n
  BY <1>2 DEF RegistryInv, TypeInv, TypeOK
<1>6. svcEvents'[s] # << >> /\ svcEvents'[s][Len(svcEvents'[s])] = e
  BY <1>4, <1>5
<1>7. Pending(s)' /\ Announced(s)' /\ NoGhost(s)'
  BY <1>3, <1>5, <1>6 DEF Pending, Announced, NoGhost
<1> QED BY <1>2, <1>7, OtherServices DEF ChangeService, RegistryInv, TypeInv, TypeOK

\* A redelivered service is announced as the lister has it.
LEMMA ResyncRegistry ==
    ASSUME RegistryInv, TypeInv', OneWorkerPerKey', NEW s \in Services, ResyncService(s)
    PROVE  RegistryInv'
<1>1. svcEvents'[s] = <<[type |-> "Update", obj |-> svc[s]]>> /\ svc' = svc
  BY DEF ResyncService, RegistryInv, TypeInv, TypeOK
<1>2. Pending(s)' /\ Announced(s)' /\ NoGhost(s)'
  BY <1>1 DEF Pending, Announced, NoGhost
<1> QED BY <1>2, OtherServices DEF ResyncService, RegistryInv, TypeInv, TypeOK

\* handleServiceEvent makes the service pending in the queue.
LEMMA ServiceEventRegistry ==
    ASSUME RegistryInv, TypeInv', OneWorkerPerKey', NEW s \in Services, handleServiceEvent(s)
    PROVE  RegistryInv'
<1> DEFINE q == svcEvents[s]
<1>1. q \in Seq(Events(ServiceObjs)) /\ q # << >> /\ svcEvents'[s] = Tail(q) /\ svc' = svc
  BY DEF handleServiceEvent, RegistryInv, TypeInv, TypeOK
<1>2. Announced(s)
  BY DEF RegistryInv
<1>3. CASE Tail(q) # << >>
  <2>1. Tail(q)[Len(Tail(q))] = q[Len(q)]
    BY <1>1, <1>3
  <2> QED BY <1>1, <1>2, <1>3, <2>1, OtherServices
          DEF handleServiceEvent, Pending, Announced, NoGhost, RegistryInv, TypeInv, TypeOK
<1>4. CASE Tail(q) = << >>
  <2>0. Len(q) = 1
    <3> HIDE DEF q
    <3>1. Len(Tail(q)) = Len(q) - 1 /\ Len(q) \in Nat
      BY <1>1
    <3>2. Len(Tail(q)) = 0
      BY <1>1, <1>4, EmptySeq
    <3> QED BY <3>1, <3>2
  <2>1. Head(q) = q[Len(q)]
    BY <1>1, <2>0
  <2>2. stServices'[s] = svc[s]
    BY <1>1, <1>2, <2>1 DEF handleServiceEvent, Announced, RegistryInv, TypeInv, TypeOK
  <2>3. Pending(s)' /\ Announced(s)' /\ NoGhost(s)'
    BY <1>1, <1>4, <2>2 DEF handleServiceEvent, Pending, Announced, NoGhost
  <2> QED BY <2>3, OtherServices DEF handleServiceEvent, RegistryInv, TypeInv, TypeOK
<1> QED BY <1>3, <1>4

\* Steps that touch neither services nor workers, and make nothing less pending.
LEMMA NoServiceTouched ==
    ASSUME RegistryInv, TypeInv', OneWorkerPerKey',
           UNCHANGED <<svc, svcEvents, stServices, lastKnown, wk, processing>>,
           dirty \cup waiting \subseteq dirty' \cup waiting'
    PROVE  RegistryInv'
<1>1. \A s \in Services : Pending(s) => Pending(s)'
  BY DEF Pending
<1>2. \A s \in Services : Announced(s)' /\ NoGhost(s)'
  BY DEF RegistryInv, Announced, NoGhost
<1>3. ASSUME NEW w \in Workers, Busy(w)' PROVE SyncInv(w)'
  <2>1. Busy(w) /\ SyncInv(w) /\ wk'[w] = wk[w] /\ wk[w].key \in Services
    BY <1>3 DEF RegistryInv, Busy, TypeInv, WorkerOK
  <2> QED BY <1>1, <2>1 DEF SyncInv
<1>4. RegistryAgrees'
  BY <1>1 DEF RegistryInv, RegistryAgrees
<1> QED BY <1>2, <1>3, <1>4 DEF RegistryInv

\* A key that is taken is no longer at rest, and its worker has read nothing.
LEMMA GetRegistry ==
    ASSUME RegistryInv, TypeInv', OneWorkerPerKey', NEW w \in Workers, NEW s \in Services,
           Get(w, s)
    PROVE  RegistryInv'
<1>1. /\ wk'[w].pc = "get" /\ \A v \in Workers \ {w} : wk'[v] = wk[v]
  BY DEF Get, IdleWorker, RegistryInv, TypeInv, TypeOK
<1>2. /\ UNCHANGED <<svc, svcEvents, stServices, lastKnown, waiting>>
      /\ dirty' = dirty \ {s} /\ processing' = processing \cup {s} /\ s \notin processing
  BY DEF Get
<1>3. \A k \in Services \ {s} : Pending(k)' <=> Pending(k)
  BY <1>2 DEF Pending
<1>4. \A k \in Services : Announced(k)' /\ NoGhost(k)'
  BY <1>2 DEF RegistryInv, Announced, NoGhost
<1>5. ASSUME NEW v \in Workers, Busy(v)' PROVE SyncInv(v)'
  <2>1. CASE v = w
    BY <1>1, <2>1 DEF SyncInv, Syncing
  <2>2. CASE v # w
    <3>1. wk'[v] = wk[v] /\ Busy(v) /\ SyncInv(v) /\ wk[v].key \in Services \ {s}
      BY <1>1, <1>2, <1>5, <2>2 DEF RegistryInv, OneWorkerPerKey, TypeInv, WorkerOK, Busy
    <3> QED BY <1>2, <1>3, <3>1 DEF SyncInv
  <2> QED BY <2>1, <2>2
<1>6. RegistryAgrees'
  BY <1>2, <1>3 DEF RegistryInv, RegistryAgrees
<1> QED BY <1>4, <1>5, <1>6 DEF RegistryInv

\* A worker that is done leaves registries that agree, or a retry.
LEMMA DoneRegistry ==
    ASSUME RegistryInv, TypeInv', OneWorkerPerKey', NEW w \in Workers, processNextItem(w)
    PROVE  RegistryInv'
<1>0. PICK k \in Services : k = wk[w].key
  BY DEF processNextItem, RegistryInv, TypeInv, WorkerOK
<1>1. /\ wk'[w].pc = "idle" /\ \A v \in Workers \ {w} : wk'[v] = wk[v]
  BY DEF processNextItem, IdleWorker, RegistryInv, TypeInv, TypeOK
<1>2. /\ UNCHANGED <<svc, svcEvents, stServices, lastKnown, dirty>>
      /\ waiting \subseteq waiting' /\ processing' = processing \ {k}
      /\ wk[w].pc = "done" \/ k \in waiting'
  BY <1>0 DEF processNextItem, Retry
<1>3. SyncInv(w)
  BY DEF processNextItem, RegistryInv, Busy
<1>4. \A s \in Services : Pending(s) => Pending(s)'
  BY <1>2 DEF Pending
<1>5. \A s \in Services : Announced(s)' /\ NoGhost(s)'
  BY <1>2 DEF RegistryInv, Announced, NoGhost
<1>6. ASSUME NEW v \in Workers, Busy(v)' PROVE SyncInv(v)'
  <2>1. v # w /\ wk'[v] = wk[v] /\ Busy(v) /\ SyncInv(v) /\ wk[v].key \in Services
    BY <1>1, <1>6 DEF RegistryInv, Busy, TypeInv, WorkerOK
  <2> QED BY <1>2, <1>4, <2>1 DEF SyncInv
<1>7. RegistryAgrees'
  <2>1. Pending(k)' \/ (lastKnown'[k] = svc'[k] /\ stServices'[k] = svc'[k])
    BY <1>0, <1>2, <1>3, <1>4 DEF SyncInv, Pending
  <2> QED BY <1>2, <1>4, <2>1 DEF RegistryInv, RegistryAgrees
<1> QED BY <1>5, <1>6, <1>7 DEF RegistryInv

\* A restart announces every live service again and forgets the others.
LEMMA RestartRegistry ==
    ASSUME RegistryInv, TypeInv', OneWorkerPerKey', Restart PROVE RegistryInv'
<1>1. \A s \in Services : svcEvents'[s] = IF svc[s] = Absent THEN << >>
                                         ELSE <<[type |-> "Add", obj |-> svc[s]]>>
  BY DEF Restart, AddAll, RegistryInv, TypeInv, TypeOK
<1>2. \A s \in Services : stServices'[s] = Absent /\ lastKnown'[s] = Absent /\ svc'[s] = svc[s]
  BY DEF Restart
<1>3. \A w \in Workers : ~Busy(w)'
  BY DEF Restart, Busy, IdleWorker
<1>4. ASSUME NEW s \in Services
      PROVE  Announced(s)' /\ NoGhost(s)' /\ (Pending(s)' \/ svc[s] = Absent)
  <2>1. CASE svc[s] = Absent
    BY <1>1, <1>2, <2>1 DEF Announced, NoGhost
  <2>2. CASE svc[s] # Absent
    <3> DEFINE e == [type |-> "Add", obj |-> svc[s]]
    <3>1. svcEvents'[s] = <<e>> /\ e.type # "Delete" /\ e.obj = svc[s]
      BY <1>1, <2>2
    <3> HIDE DEF e
    <3>2. svcEvents'[s] # << >> /\ svcEvents'[s][Len(svcEvents'[s])] = e
      BY <3>1
    <3> QED BY <1>2, <3>1, <3>2 DEF Announced, NoGhost, Pending
  <2> QED BY <2>1, <2>2
<1>5. RegistryAgrees'
  BY <1>2, <1>4 DEF RegistryAgrees
<1> QED BY <1>3, <1>4, <1>5 DEF RegistryInv

\* The invariant is inductive for the event driven half.
LEMMA RegistryStep ==
    RegistryInv /\ [Environment \/ Reactive \/ Restart]_vars => RegistryInv'
<1> SUFFICES ASSUME RegistryInv, [Environment \/ Reactive \/ Restart]_vars PROVE RegistryInv'
  OBVIOUS
<1>0. TypeInv' /\ OneWorkerPerKey'
  BY TypeStep, KeysStep DEF RegistryInv, Next
<1>1. ASSUME NEW s \in Services, ChangeService(s) \/ ResyncService(s) PROVE RegistryInv'
  BY <1>0, <1>1, ChangeServiceRegistry, ResyncRegistry
<1>2. ASSUME \/ \E p \in Pods : ChangePod(p) \/ handlePodEvent(p)
             \/ \E n \in Nodes : ChangeNode(n) \/ handleNodeEvent(n)
             \/ \E s \in Services : BackoffElapsed(s)
             \/ Outside \/ UNCHANGED vars
      PROVE RegistryInv'
  BY <1>0, <1>2, NoServiceTouched
     DEF ChangePod, handlePodEvent, ChangeNode, handleNodeEvent, BackoffElapsed, Outside,
         CacheExpires, CarryOut, vars
<1>3. ASSUME NEW s \in Services, handleServiceEvent(s) PROVE RegistryInv'
  BY <1>0, <1>3, ServiceEventRegistry
<1>4. ASSUME NEW w \in Workers, NEW s \in Services, Get(w, s) PROVE RegistryInv'
  BY <1>0, <1>4, GetRegistry
<1>5. ASSUME NEW w \in Workers, syncHandler(w) PROVE RegistryInv'
  BY <1>0, <1>5, HandlerKeeps, HandlerSync, OwnService DEF RegistryInv
<1>6. ASSUME NEW w \in Workers, processNextItem(w) PROVE RegistryInv'
  BY <1>0, <1>6, DoneRegistry
<1>7. CASE Restart
  BY <1>0, <1>7, RestartRegistry
<1> QED BY <1>1, <1>2, <1>3, <1>4, <1>5, <1>6, <1>7
        DEF Environment, Reactive, processEvents

\* Between two reconciliation passes, whatever the order of informer events,
\* syncs, failures, retries and restarts: once a service is neither announced,
\* queued nor on a worker, state.Services and lastKnownServices hold exactly what
\* the lister holds, for every number of services and workers.
THEOREM RegistriesFollowLister == ReactiveSpec => []RegistryAgrees
<1>1. Init => RegistryInv
  BY RegistryInit
<1>2. RegistryInv /\ [Environment \/ Reactive \/ Restart]_vars => RegistryInv'
  BY RegistryStep
<1>3. RegistryInv => RegistryAgrees
  BY DEF RegistryInv
<1> QED BY <1>1, <1>2, <1>3, PTL DEF ReactiveSpec

-----------------------------------------------------------------------------
(* The event driven half implements the follower of Engine.                 *)

\* A step of the engine that changes none of what Engine speaks of.
LEMMA Stutters ==
    ASSUME UNCHANGED <<svc, lastKnown, processing, svcEvents>>,
           dirty' \cup waiting' = dirty \cup waiting
    PROVE  UNCHANGED Abstract!vars
BY DEF Abstract!vars, Pending

\* Pod and node events make the services due that they enqueue.
LEMMA Touches ==
    ASSUME NEW S \in SUBSET Services, UNCHANGED <<svc, lastKnown, processing, svcEvents, waiting>>,
           dirty' = dirty \cup S
    PROVE  Abstract!Next
<1>1. {s \in Services : Pending(s)}' = {s \in Services : Pending(s)} \cup S
  BY DEF Pending
<1> QED BY <1>1 DEF Abstract!Next, Abstract!Touch

\* A change of a service is announced, so that it becomes due with the change.
LEMMA ChangeRefines ==
    ASSUME RegistryInv, NEW s \in Services, ChangeService(s) PROVE Abstract!Next
<1>1. PICK n \in (SvcObjs[s] \cup {Absent}) \ {svc[s]} : \E e \in ServiceNotice(svc[s], n) :
           /\ svc' = [svc EXCEPT ![s] = n]
           /\ svcEvents' = [svcEvents EXCEPT ![s] = Append(@, e)]
  BY DEF ChangeService
<1>2. PICK e \in ServiceNotice(svc[s], n) : svcEvents' = [svcEvents EXCEPT ![s] = Append(@, e)]
  BY <1>1
<1>3. n \in ServiceObjs \cup {Absent} /\ svc[s] \in ServiceObjs \cup {Absent}
  BY DEF ServiceObjs, RegistryInv, TypeInv, TypeOK
<1>4. svcEvents[s] \in Seq(Events(ServiceObjs)) /\ e \in Events(ServiceObjs)
  <2>1. e \in Events(ServiceObjs)
    BY <1>3 DEF ServiceNotice, Events
  <2> QED BY <2>1 DEF RegistryInv, TypeInv, TypeOK
<1>5. svcEvents'[s] = Append(svcEvents[s], e)
  BY <1>2 DEF RegistryInv, TypeInv, TypeOK
<1>6. svcEvents'[s] # << >>
  <2>1. Len(Append(svcEvents[s], e)) # 0
    BY <1>4
  <2> QED BY <1>5, <2>1
<1>7. \A k \in Services \ {s} : svcEvents'[k] = svcEvents[k]
  BY <1>2 DEF RegistryInv, TypeInv, TypeOK
<1>8. {k \in Services : Pending(k)}' = {k \in Services : Pending(k)} \cup {s}
  BY <1>6, <1>7 DEF Pending, ChangeService
<1> QED BY <1>1, <1>3, <1>8 DEF Abstract!Next, Abstract!Change, ChangeService

\* Redelivery makes a live service due.
LEMMA ResyncRefines ==
    ASSUME RegistryInv, NEW s \in Services, ResyncService(s) PROVE Abstract!Next
<1>1. /\ svcEvents'[s] = <<[type |-> "Update", obj |-> svc[s]]>>
      /\ \A k \in Services \ {s} : svcEvents'[k] = svcEvents[k]
  BY DEF ResyncService, RegistryInv, TypeInv, TypeOK
<1>2. svcEvents'[s] # << >>
  BY <1>1
<1>3. {k \in Services : Pending(k)}' = {k \in Services : Pending(k)} \cup {s}
  BY <1>1, <1>2 DEF Pending, ResyncService
<1> QED BY <1>3 DEF Abstract!Next, Abstract!Touch, ResyncService

\* The event loop may only learn of a service that is due, and leaves it due.
LEMMA EventRefines ==
    ASSUME RegistryInv, TypeInv', NEW s \in Services, handleServiceEvent(s)
    PROVE  Abstract!Next
<1>1. \A k \in Services \ {s} : svcEvents'[k] = svcEvents[k]
  BY DEF handleServiceEvent, RegistryInv, TypeInv, TypeOK
<1>2. {k \in Services : Pending(k)}' = {k \in Services : Pending(k)} /\ Pending(s)
  BY <1>1 DEF Pending, handleServiceEvent
<1>3. PICK v : lastKnown' = [lastKnown EXCEPT ![s] = v]
  BY DEF handleServiceEvent
<1>4. v \in ServiceObjs \cup {Absent}
  BY <1>3 DEF RegistryInv, TypeInv, TypeOK
<1> QED BY <1>2, <1>3, <1>4 DEF Abstract!Next, Abstract!Learn, handleServiceEvent

\* The queue hands out a key that is due and that nobody has.
LEMMA GetRefines ==
    ASSUME RegistryInv, NEW w \in Workers, NEW s \in Services, Get(w, s) PROVE Abstract!Next
<1> DEFINE todo == {k \in Services : Pending(k)}
<1>1. s \in todo \ processing
  BY DEF Get, Pending
<1>2. todo' \in {todo, todo \ {s}}
  <2>1. \A k \in Services \ {s} : Pending(k)' <=> Pending(k)
    BY DEF Get, Pending
  <2>2. CASE Pending(s)'
    BY <1>1, <2>1, <2>2
  <2>3. CASE ~Pending(s)'
    BY <2>1, <2>3
  <2> QED BY <2>2, <2>3
<1> QED BY <1>1, <1>2 DEF Abstract!Next, Abstract!Take, Get

\* syncHandler learns of the key of its worker and of no other.
LEMMA HandlerRefines ==
    ASSUME RegistryInv, TypeInv', NEW w \in Workers, syncHandler(w)
    PROVE  Abstract!Next
<1> DEFINE k == wk[w].key
<1>1. HandlerFrame(w)
  BY HandlerKeeps DEF RegistryInv
<1>2. k \in Services /\ k \in processing
  BY <1>1 DEF RegistryInv, OneWorkerPerKey, HandlerFrame, TypeInv, WorkerOK, Busy
<1>3. {s \in Services : Pending(s)}' = {s \in Services : Pending(s)}
  BY <1>1 DEF HandlerFrame, Pending
<1>4. /\ lastKnown \in [Services -> ServiceObjs \cup {Absent}]
      /\ lastKnown' \in [Services -> ServiceObjs \cup {Absent}]
  BY DEF RegistryInv, TypeInv, TypeOK
<1>5. lastKnown' = [lastKnown EXCEPT ![k] = lastKnown'[k]]
  BY <1>1, <1>2, <1>4 DEF HandlerFrame
<1>6. lastKnown'[k] \in ServiceObjs \cup {Absent}
  BY <1>2, <1>4
<1> QED BY <1>1, <1>2, <1>3, <1>5, <1>6 DEF Abstract!Next, Abstract!Learn, HandlerFrame

\* A worker that reports success knows what the lister holds, unless the key is
\* due again; one that fails leaves the key due.
LEMMA DoneRefines ==
    ASSUME RegistryInv, NEW w \in Workers, processNextItem(w) PROVE Abstract!Next
<1> DEFINE todo == {s \in Services : Pending(s)}
<1>0. PICK k \in Services : k = wk[w].key
  BY DEF processNextItem, RegistryInv, TypeInv, WorkerOK
<1>1. Busy(w) /\ SyncInv(w) /\ k \in processing
  BY <1>0 DEF processNextItem, RegistryInv, OneWorkerPerKey, Busy
<1>2. UNCHANGED <<svc, lastKnown, svcEvents, dirty>> /\ processing' = processing \ {k}
  BY <1>0 DEF processNextItem
<1>3. CASE wk[w].pc = "done"
  <2>1. waiting' = waiting
    BY <1>3 DEF processNextItem, Retry
  <2>2. todo' = todo
    BY <1>2, <2>1 DEF Pending
  <2>3. k \in todo \/ lastKnown[k] = svc[k]
    BY <1>0, <1>1, <1>3 DEF SyncInv
  <2> QED BY <1>1, <1>2, <2>2, <2>3 DEF Abstract!Next, Abstract!Succeed
<1>4. CASE wk[w].pc = "fail"
  <2>1. waiting' = waiting \cup {k}
    BY <1>0, <1>4 DEF processNextItem, Retry
  <2>2. todo' = todo \cup {k}
    BY <1>2, <2>1 DEF Pending
  <2> QED BY <1>1, <1>2, <2>2 DEF Abstract!Next, Abstract!Fail
<1> QED BY <1>3, <1>4 DEF processNextItem

\* A new process finds exactly the live services due.
LEMMA RestartRefines == ASSUME RegistryInv, Restart PROVE Abstract!Next
<1>1. \A s \in Services : svcEvents'[s] = IF svc[s] = Absent THEN << >>
                                         ELSE <<[type |-> "Add", obj |-> svc[s]]>>
  BY DEF Restart, AddAll, RegistryInv, TypeInv, TypeOK
<1>2. ASSUME NEW s \in Services PROVE svcEvents'[s] # << >> <=> svc[s] # Absent
  <2> DEFINE e == [type |-> "Add", obj |-> svc[s]]
  <2> HIDE DEF e
  <2>1. <<e>> # << >>
    OBVIOUS
  <2> QED BY <1>1, <2>1 DEF e
<1>3. {s \in Services : Pending(s)}' = {s \in Services : svc[s] # Absent}
  BY <1>2 DEF Restart, Pending
<1> QED BY <1>3 DEF Abstract!Next, Abstract!Restart, Restart

\* Every step of the event driven half is a step of the follower or changes
\* nothing that it speaks of.
LEMMA StepRefines ==
    RegistryInv /\ [Environment \/ Reactive \/ Restart]_vars => [Abstract!Next]_(Abstract!vars)
<1> SUFFICES ASSUME RegistryInv, [Environment \/ Reactive \/ Restart]_vars
             PROVE  Abstract!Next \/ UNCHANGED Abstract!vars
  OBVIOUS
<1>0. TypeInv'
  BY TypeStep DEF RegistryInv, Next
<1>1. ASSUME NEW s \in Services, ChangeService(s) \/ ResyncService(s) PROVE Abstract!Next
  BY <1>1, ChangeRefines, ResyncRefines
<1>2. ASSUME \/ \E p \in Pods : ChangePod(p)
             \/ \E n \in Nodes : ChangeNode(n)
             \/ \E s \in Services : BackoffElapsed(s)
             \/ Outside \/ UNCHANGED vars
      PROVE  UNCHANGED Abstract!vars
  BY <1>2, Stutters DEF ChangePod, ChangeNode, BackoffElapsed, Outside, CacheExpires, CarryOut,
                        vars
<1>3. ASSUME NEW p \in Pods, handlePodEvent(p) PROVE Abstract!Next
  BY <1>3, Touches DEF handlePodEvent, ServicesOf
<1>4. ASSUME NEW n \in Nodes, handleNodeEvent(n) PROVE Abstract!Next
  BY <1>4, Touches DEF handleNodeEvent, ServicesOf
<1>5. ASSUME NEW s \in Services, handleServiceEvent(s) PROVE Abstract!Next
  BY <1>0, <1>5, EventRefines
<1>6. ASSUME NEW w \in Workers, NEW s \in Services, Get(w, s) PROVE Abstract!Next
  BY <1>6, GetRefines
<1>7. ASSUME NEW w \in Workers, syncHandler(w) PROVE Abstract!Next
  BY <1>0, <1>7, HandlerRefines
<1>8. ASSUME NEW w \in Workers, processNextItem(w) PROVE Abstract!Next
  BY <1>8, DoneRefines
<1>9. CASE Restart
  BY <1>9, RestartRefines
<1> QED BY <1>1, <1>2, <1>3, <1>4, <1>5, <1>6, <1>7, <1>8, <1>9
        DEF Environment, Reactive, processEvents

\* Initially nothing is due and nothing is known.
LEMMA InitRefines == Init => Abstract!Init
BY DEF Init, Abstract!Init, Pending

\* The event loop, the work queue and the workers implement the follower of
\* Engine, for any number of services and workers: a key is never dropped before
\* a worker that took it knows what the lister holds.
THEOREM EngineImplemented == ReactiveSpec => EngineRefined
<1>1. Init => RegistryInv /\ Abstract!Init
  BY RegistryInit, InitRefines
<1>2. RegistryInv /\ [Environment \/ Reactive \/ Restart]_vars => RegistryInv'
  BY RegistryStep
<1>3. RegistryInv /\ [Environment \/ Reactive \/ Restart]_vars
        => [Abstract!Next]_(Abstract!vars)
  BY StepRefines
<1> QED BY <1>1, <1>2, <1>3, PTL DEF ReactiveSpec, EngineRefined, Abstract!Spec

-----------------------------------------------------------------------------
(* Services that share no load balancer.                                    *)

\* No two services ever name the same load balancer, so that they share neither an
\* upstream nor the cached listing.
Unshared ==
    \A s, n \in Services : \A x \in SvcObjs[s], y \in SvcObjs[n] :
        x.lb = y.lb /\ x.lb # "" => s = n

\* Two workers are never at the same load balancer: there is one worker, or services
\* do not share a load balancer.
Alone == (\E w \in Workers : Workers = {w}) \/ Unshared

\* The objects of a service are its own, everywhere.
OwnObjects ==
    \A s \in Services :
        /\ svc[s] \in SvcObjs[s] \cup {Absent} /\ lastKnown[s] \in SvcObjs[s] \cup {Absent}
        /\ \A i \in DOMAIN svcEvents[s] : svcEvents[s][i].obj \in SvcObjs[s]

\* A worker only has objects of its service, and writes an upstream it names.
OwnOK(x) ==
    /\ x.svc \in SvcObjs[x.key] \cup {Absent} /\ x.last \in SvcObjs[x.key] \cup {Absent}
    /\ x.pc \in {"build", "merge"} => x.cur \in SvcObjs[x.key]
    /\ x.pc \in {"merge", "push", "store", "apply"} => \E o \in SvcObjs[x.key] : Target(o) = x.to

OwnInv == OwnObjects /\ \A w \in Workers : Busy(w) => OwnOK(wk[w])

\* No object of a service is the mark for one that is not there.
LEMMA ObjectThere == ASSUME NEW s \in Services PROVE Absent \notin SvcObjs[s] /\ SvcObjs[s] \subseteq ServiceObjs
BY ObjectsAssumption DEF ServiceObjs

\* A step that leaves the services and the other workers alone.
LEMMA OwnWorker ==
    ASSUME TypeInv, OwnInv, OwnObjects', NEW w \in Workers, NEW rec, wk' = [wk EXCEPT ![w] = rec],
           rec.pc # "idle" => OwnOK(rec)
    PROVE  OwnInv'
<1>1. wk'[w] = rec /\ \A v \in Workers \ {w} : wk'[v] = wk[v]
  BY DEF TypeInv, TypeOK
<1>2. ASSUME NEW v \in Workers, Busy(v)' PROVE OwnOK(wk[v])'
  BY <1>1, <1>2 DEF OwnInv, OwnOK, Busy
<1> QED BY <1>2 DEF OwnInv

\* A step after which the worker has nothing more to write.
LEMMA OwnGoto ==
    ASSUME TypeInv, OwnInv, OwnObjects', NEW w \in Workers, Busy(w), NEW rec,
           wk' = [wk EXCEPT ![w] = rec], rec.pc \notin {"build", "merge", "push", "store", "apply"},
           rec.key = wk[w].key, rec.svc = wk[w].svc, rec.last = wk[w].last
    PROVE  OwnInv'
BY OwnWorker DEF OwnInv, OwnOK

\* A step on the way to the write.
LEMMA OwnPush ==
    ASSUME TypeInv, OwnInv, OwnObjects', NEW w \in Workers, Busy(w), NEW rec,
           wk' = [wk EXCEPT ![w] = rec], wk[w].pc \in {"merge", "push", "store"},
           rec.pc \in {"push", "store", "apply"}, rec.to = wk[w].to,
           rec.key = wk[w].key, rec.svc = wk[w].svc, rec.last = wk[w].last
    PROVE  OwnInv'
<1>1. OwnOK(rec)
  BY DEF OwnInv, OwnOK
<1> QED BY <1>1, OwnWorker

\* The steps of syncHandler.  The upstream of a deleted service is not handed over,
\* since no other service names it.
LEMMA OwnHandler ==
    ASSUME Unshared, TypeInv, OwnInv, NEW w \in Workers, syncHandler(w)
    PROVE  OwnInv'
<1>1. wk[w] \in WorkerType /\ WorkerOK(wk[w])
  BY DEF TypeInv, TypeOK
<1>2. Busy(w) /\ svc' = svc /\ svcEvents' = svcEvents
  BY HandlerKeeps DEF HandlerFrame
<1>3. /\ OwnOK(wk[w]) /\ wk[w].key \in Services
      /\ svc[wk[w].key] \in SvcObjs[wk[w].key] \cup {Absent}
      /\ lastKnown[wk[w].key] \in SvcObjs[wk[w].key] \cup {Absent}
  BY <1>1, <1>2 DEF OwnInv, OwnObjects, WorkerOK, Busy
<1>4. lastKnown' = lastKnown => OwnObjects'
  BY <1>2 DEF OwnInv, OwnObjects
<1>5. CASE GetService(w)
  <2> DEFINE rec == [wk[w] EXCEPT !.pc = "last", !.svc = svc[wk[w].key]]
  <2>1. wk' = [wk EXCEPT ![w] = rec] /\ lastKnown' = lastKnown
    BY <1>5 DEF GetService, WorkerOnly
  <2>2. OwnOK(rec)
    BY <1>1, <1>3 DEF OwnOK, WorkerType
  <2> HIDE DEF rec
  <2> QED BY <1>4, <2>1, <2>2, OwnWorker
<1>6. CASE ReadLast(w)
  <2> DEFINE last == lastKnown[wk[w].key]
             to == AfterLast(wk[w].svc, last)
             cont == IF wk[w].svc = Absent THEN "forget" ELSE "record"
             rec == [wk[w] EXCEPT !.pc = to, !.last = last, !.cont = cont]
  <2>1. wk' = [wk EXCEPT ![w] = rec] /\ lastKnown' = lastKnown
    BY <1>6 DEF ReadLast, WorkerOnly
  <2>2. to \in {"done", "check", "forget", "record"} /\ last \in SvcObjs[wk[w].key] \cup {Absent}
    BY <1>3, AfterLastCases
  <2> HIDE DEF last, to, cont
  <2>3. OwnOK(rec)
    BY <1>1, <1>3, <2>2 DEF OwnOK, WorkerType
  <2> HIDE DEF rec
  <2> QED BY <1>4, <2>1, <2>3, OwnWorker
<1>7. ASSUME NEW o \in Services, HandOver(w, o) PROVE FALSE
  <2>1. o # wk[w].key /\ svc[o] # Absent /\ Target(svc[o]) = Target(wk[w].last) /\ wk[w].pc = "check"
    BY <1>7 DEF HandOver, Others
  <2>2. svc[o] \in SvcObjs[o] /\ wk[w].last \in SvcObjs[wk[w].key]
    <3>1. svc[o] \in SvcObjs[o]
      BY <2>1 DEF OwnInv, OwnObjects
    <3>2. wk[w].last # Absent
      BY <1>1, <2>1, ObjectsAssumption DEF WorkerOK
    <3> QED BY <1>3, <3>1, <3>2 DEF OwnOK
  <2>3. svc[o].lb = wk[w].last.lb /\ wk[w].last.lb # ""
    BY <1>1, <2>1 DEF Target, WorkerOK, Named
  <2> QED BY <1>3, <2>1, <2>2, <2>3 DEF Unshared
<1>8. CASE Drain(w)
  <2> DEFINE rec == [wk[w] EXCEPT !.pc = "push", !.to = Target(wk[w].last), !.want = Empty]
  <2>1. wk' = [wk EXCEPT ![w] = rec] /\ lastKnown' = lastKnown /\ wk[w].pc = "check"
    BY <1>8 DEF Drain
  <2>2. wk[w].last \in SvcObjs[wk[w].key]
    BY <1>1, <1>3, <2>1, ObjectsAssumption DEF WorkerOK, OwnOK
  <2>3. OwnOK(rec)
    BY <1>1, <1>3, <2>2 DEF OwnOK, WorkerType
  <2> HIDE DEF rec
  <2> QED BY <1>4, <2>1, <2>3, OwnWorker
<1>9. CASE ForgetService(w)
  <2> DEFINE rec == [wk[w] EXCEPT !.pc = "done"]
  <2>1. wk' = [wk EXCEPT ![w] = rec] /\ lastKnown' = [lastKnown EXCEPT ![wk[w].key] = Absent]
    BY <1>9 DEF ForgetService
  <2>2. OwnObjects'
    BY <1>2, <2>1 DEF OwnInv, OwnObjects, TypeInv, TypeOK
  <2>3. rec.pc = "done" /\ rec.key = wk[w].key /\ rec.svc = wk[w].svc /\ rec.last = wk[w].last
    BY <1>1 DEF WorkerType
  <2> HIDE DEF rec
  <2> QED BY <1>2, <2>1, <2>2, <2>3, OwnGoto
<1>10. CASE RecordService(w)
  <2> DEFINE rec == [wk[w] EXCEPT !.pc = "build", !.cur = wk[w].svc,
                                  !.curKey = wk[w].key, !.cont = "done"]
  <2>1. wk' = [wk EXCEPT ![w] = rec] /\ lastKnown' = [lastKnown EXCEPT ![wk[w].key] = wk[w].svc]
        /\ wk[w].pc = "record"
    BY <1>10 DEF RecordService
  <2>2. wk[w].svc \in SvcObjs[wk[w].key]
    BY <1>1, <1>3, <2>1, ObjectsAssumption DEF WorkerOK, OwnOK
  <2>3. OwnObjects'
    BY <1>2, <2>1, <2>2 DEF OwnInv, OwnObjects, TypeInv, TypeOK
  <2>4. OwnOK(rec)
    BY <1>1, <1>3, <2>2 DEF OwnOK, WorkerType
  <2> HIDE DEF rec
  <2> QED BY <2>1, <2>3, <2>4, OwnWorker
<1>11. ASSUME NEW pc \in {"fail", wk[w].cont}, wk' = [wk EXCEPT ![w] = Goto(w, pc)],
              lastKnown' = lastKnown
       PROVE  OwnInv'
  <2>1. /\ Goto(w, pc).pc = pc /\ Goto(w, pc).key = wk[w].key /\ Goto(w, pc).svc = wk[w].svc
        /\ Goto(w, pc).last = wk[w].last /\ pc \in {"fail", "record", "forget", "done"}
    BY <1>1, <1>11 DEF Goto, WorkerType
  <2> QED BY <1>2, <1>4, <1>11, <2>1, OwnGoto
<1>12. CASE ListFails(w)
  BY <1>11, <1>12 DEF ListFails, CallFails, WorkerOnly
<1>13. CASE BuildOwn(w)
  <2>1. CASE \E pc \in {"fail", wk[w].cont} : WorkerOnly(w, Goto(w, pc))
    BY <1>11, <2>1 DEF WorkerOnly
  <2>2. CASE \E b : WorkerOnly(w, [wk[w] EXCEPT !.pc = "merge", !.to = Target(wk[w].cur), !.want = b])
    <3>1. PICK b : WorkerOnly(w, [wk[w] EXCEPT !.pc = "merge", !.to = Target(wk[w].cur), !.want = b])
      BY <2>2
    <3> DEFINE rec == [wk[w] EXCEPT !.pc = "merge", !.to = Target(wk[w].cur), !.want = b]
    <3>2. wk[w].cur \in SvcObjs[wk[w].key]
      BY <1>3, <1>13 DEF BuildOwn, OwnOK
    <3>3. OwnOK(rec)
      BY <1>1, <1>3, <3>2 DEF OwnOK, WorkerType
    <3>4. wk' = [wk EXCEPT ![w] = rec] /\ lastKnown' = lastKnown
      BY <3>1 DEF WorkerOnly
    <3> HIDE DEF rec
    <3> QED BY <1>4, <3>3, <3>4, OwnWorker
  <2> QED BY <1>13, <2>1, <2>2 DEF BuildOwn
<1>14. CASE MergeShared(w)
  <2>1. CASE \E pc \in {"fail", wk[w].cont} : WorkerOnly(w, Goto(w, pc))
    BY <1>11, <2>1 DEF WorkerOnly
  <2>2. CASE /\ wk' = [wk EXCEPT ![w].pc = "push",
                                 ![w].want = OrDefault(wk[w].to[1], Merged(w))]
             /\ lastKnown' = lastKnown
    <3> DEFINE b == OrDefault(wk[w].to[1], Merged(w))
               rec == [wk[w] EXCEPT !.pc = "push", !.want = b]
    <3>1. wk' = [wk EXCEPT ![w] = rec] /\ wk[w].pc = "merge"
      BY <1>14, <2>2 DEF MergeShared
    <3> HIDE DEF b
    <3>2. /\ rec.pc = "push" /\ rec.key = wk[w].key /\ rec.svc = wk[w].svc
          /\ rec.last = wk[w].last /\ rec.to = wk[w].to
      BY <1>1 DEF WorkerType
    <3> HIDE DEF rec
    <3> QED BY <1>2, <1>4, <2>2, <3>1, <3>2, OwnPush
  <2> QED BY <1>14, <2>1, <2>2 DEF MergeShared
<1>15. CASE PushList(w)
  <2> DEFINE pc == IF cache[wk[w].to[1]] = Absent THEN "store" ELSE "apply"
             list == refreshCache(wk[w].to[1])
             rec == [wk[w] EXCEPT !.pc = pc, !.list = list]
  <2>1. CASE WorkerOnly(w, Goto(w, "fail"))
    BY <1>11, <2>1 DEF WorkerOnly
  <2>2. CASE WorkerOnly(w, rec)
    <3>1. wk' = [wk EXCEPT ![w] = rec] /\ lastKnown' = lastKnown /\ wk[w].pc = "push"
      BY <1>15, <2>2 DEF WorkerOnly, PushList
    <3>2. pc \in {"store", "apply"}
      OBVIOUS
    <3> HIDE DEF pc, list
    <3>3. /\ rec.pc = pc /\ rec.key = wk[w].key /\ rec.svc = wk[w].svc
          /\ rec.last = wk[w].last /\ rec.to = wk[w].to
      BY <1>1 DEF WorkerType
    <3> HIDE DEF rec
    <3> QED BY <1>2, <1>4, <3>1, <3>2, <3>3, OwnPush
  <2> QED BY <1>15, <2>1, <2>2 DEF PushList
<1>16. CASE PushStore(w)
  <2> DEFINE rec == [wk[w] EXCEPT !.pc = "apply"]
  <2>1. wk' = [wk EXCEPT ![w] = rec] /\ lastKnown' = lastKnown /\ wk[w].pc = "store"
    BY <1>16 DEF PushStore
  <2>2. /\ rec.pc = "apply" /\ rec.key = wk[w].key /\ rec.svc = wk[w].svc
        /\ rec.last = wk[w].last /\ rec.to = wk[w].to
    BY <1>1 DEF WorkerType
  <2> HIDE DEF rec
  <2> QED BY <1>2, <1>4, <2>1, <2>2, OwnPush
<1>17. CASE PushApply(w) \/ PushFails(w)
  <2> DEFINE list == IdleWorker.list
  <2>1. PICK pc \in {"fail", wk[w].cont} :
             wk' = [wk EXCEPT ![w] = [wk[w] EXCEPT !.pc = pc, !.list = list]]
    BY <1>17 DEF PushApply, PushFails
  <2> DEFINE rec == [wk[w] EXCEPT !.pc = pc, !.list = list]
  <2>2. wk' = [wk EXCEPT ![w] = rec] /\ lastKnown' = lastKnown
    BY <1>17, <2>1 DEF PushApply, PushFails
  <2> HIDE DEF list
  <2>3. /\ rec.pc = pc /\ rec.key = wk[w].key /\ rec.svc = wk[w].svc
        /\ rec.last = wk[w].last /\ pc \in {"fail", "record", "forget", "done"}
    BY <1>1, <2>1 DEF WorkerType
  <2> HIDE DEF rec
  <2> QED BY <1>2, <1>4, <2>2, <2>3, OwnGoto
<1> QED BY <1>5, <1>6, <1>7, <1>8, <1>9, <1>10, <1>12, <1>13, <1>14, <1>15, <1>16, <1>17
        DEF syncHandler

\* A change of a service, and the repetition of its state, are announced by an
\* event with an object of that service.
LEMMA OwnAnnounced ==
    ASSUME TypeInv, OwnObjects, NEW s \in Services, ChangeService(s) \/ ResyncService(s)
    PROVE  OwnObjects' /\ wk' = wk
<1>1. /\ svc[s] \in SvcObjs[s] \cup {Absent} /\ Absent \notin SvcObjs[s]
      /\ svcEvents[s] \in Seq(Events(ServiceObjs))
      /\ \A i \in DOMAIN svcEvents[s] : svcEvents[s][i].obj \in SvcObjs[s]
  BY ObjectThere DEF OwnObjects, TypeInv, TypeOK
<1>2. ASSUME NEW n \in SvcObjs[s] \cup {Absent}, NEW e, e.obj \in SvcObjs[s], e \in Events(ServiceObjs),
             svc' = [svc EXCEPT ![s] = n],
             svcEvents' = [svcEvents EXCEPT ![s] = Append(@, e)], lastKnown' = lastKnown
      PROVE  OwnObjects'
  <2>1. svcEvents'[s] = Append(svcEvents[s], e)
    BY <1>2 DEF TypeInv, TypeOK
  <2>2. \A i \in DOMAIN svcEvents'[s] : svcEvents'[s][i].obj \in SvcObjs[s]
    BY <1>1, <1>2, <2>1
  <2>3. /\ svc'[s] = n /\ \A k \in Services \ {s} : svc'[k] = svc[k] /\ svcEvents'[k] = svcEvents[k]
    BY <1>2 DEF TypeInv, TypeOK
  <2> QED BY <1>2, <2>2, <2>3 DEF OwnObjects
<1>3. CASE ChangeService(s)
  <2>1. PICK n \in (SvcObjs[s] \cup {Absent}) \ {svc[s]} : \E e \in ServiceNotice(svc[s], n) :
             svc' = [svc EXCEPT ![s] = n] /\ svcEvents' = [svcEvents EXCEPT ![s] = Append(@, e)]
    BY <1>3 DEF ChangeService
  <2>2. PICK e \in ServiceNotice(svc[s], n) :
             svc' = [svc EXCEPT ![s] = n] /\ svcEvents' = [svcEvents EXCEPT ![s] = Append(@, e)]
    BY <2>1
  <2>3. e.obj \in SvcObjs[s]
    BY <1>1, <2>1 DEF ServiceNotice
  <2>4. e \in Events(ServiceObjs)
    BY <1>1, <2>1, <2>3, ObjectThere DEF ServiceNotice, Events
  <2> QED BY <1>2, <1>3, <2>1, <2>2, <2>3, <2>4 DEF ChangeService
<1>4. CASE ResyncService(s)
  <2> DEFINE e == [type |-> "Update", obj |-> svc[s]]
  <2>1. svc[s] \in SvcObjs[s] /\ e.obj = svc[s] /\ e \in Events(ServiceObjs)
    BY <1>1, <1>4, ObjectThere DEF ResyncService, Events
  <2>2. svcEvents' = [svcEvents EXCEPT ![s] = <<e>>]
    BY <1>4 DEF ResyncService
  <2> HIDE DEF e
  <2>3. svcEvents'[s] = <<e>> /\ \A k \in Services \ {s} : svcEvents'[k] = svcEvents[k]
    BY <2>2 DEF TypeInv, TypeOK
  <2>4. \A i \in DOMAIN svcEvents'[s] : svcEvents'[s][i].obj \in SvcObjs[s]
    BY <2>1, <2>3
  <2> QED BY <1>4, <2>3, <2>4 DEF ResyncService, OwnObjects
<1> QED BY <1>3, <1>4 DEF ChangeService, ResyncService

\* An event is remembered for its own service.
LEMMA OwnRemembered ==
    ASSUME TypeInv, OwnObjects, NEW s \in Services, handleServiceEvent(s)
    PROVE  OwnObjects' /\ wk' = wk
<1>1. PICK q : q = svcEvents[s]
  OBVIOUS
<1>2. /\ q \in Seq(Events(ServiceObjs)) /\ q # << >>
      /\ svcEvents' = [svcEvents EXCEPT ![s] = Tail(q)]
      /\ lastKnown' = [lastKnown EXCEPT ![s] = Remember(@, Head(q))]
      /\ UNCHANGED <<svc, wk>>
      /\ \A i \in DOMAIN q : q[i].obj \in SvcObjs[s]
  BY <1>1 DEF handleServiceEvent, OwnObjects, TypeInv, TypeOK
<1>3. Head(q).obj \in SvcObjs[s] /\ \A i \in DOMAIN Tail(q) : Tail(q)[i].obj \in SvcObjs[s]
  BY <1>2
<1>4. /\ svcEvents'[s] = Tail(q) /\ lastKnown'[s] \in SvcObjs[s] \cup {Absent}
      /\ \A k \in Services \ {s} : svcEvents'[k] = svcEvents[k] /\ lastKnown'[k] = lastKnown[k]
  BY <1>2, <1>3 DEF TypeInv, TypeOK, OwnObjects, Remember
<1> QED BY <1>2, <1>3, <1>4 DEF OwnObjects

\* Initially there is nothing to keep apart.
LEMMA OwnInit == Init => OwnInv
<1>1. ASSUME Init, NEW s \in Services
      PROVE  svc[s] = Absent /\ lastKnown[s] = Absent /\ svcEvents[s] = << >>
  BY <1>1 DEF Init
<1>2. DOMAIN << >> = {}
  OBVIOUS
<1>3. Init => OwnObjects
  BY <1>1, <1>2 DEF OwnObjects
<1> QED BY <1>3 DEF Init, OwnInv, Busy, IdleWorker

\* Every step keeps the objects apart.
LEMMA OwnStep ==
    ASSUME Unshared
    PROVE  TypeInv /\ OwnInv /\ [Environment \/ Reactive \/ Restart]_vars => OwnInv'
<1> SUFFICES ASSUME TypeInv, OwnInv, [Environment \/ Reactive \/ Restart]_vars PROVE OwnInv'
  OBVIOUS
<1>1. ASSUME OwnObjects', wk' = wk PROVE OwnInv'
  BY <1>1 DEF OwnInv, OwnOK, Busy
<1>2. UNCHANGED <<svc, svcEvents, lastKnown>> => OwnObjects'
  BY DEF OwnInv, OwnObjects
<1>3. ASSUME NEW s \in Services, ChangeService(s) \/ ResyncService(s) \/ handleServiceEvent(s)
      PROVE  OwnInv'
  BY <1>1, <1>3, OwnAnnounced, OwnRemembered DEF OwnInv
<1>4. ASSUME \/ \E p \in Pods : ChangePod(p) \/ handlePodEvent(p)
             \/ \E n \in Nodes : ChangeNode(n) \/ handleNodeEvent(n)
             \/ \E s \in Services : BackoffElapsed(s)
             \/ Outside \/ UNCHANGED vars
      PROVE  OwnInv'
  BY <1>1, <1>2, <1>4
     DEF ChangePod, handlePodEvent, ChangeNode, handleNodeEvent, BackoffElapsed, Outside,
         CacheExpires, CarryOut, vars
<1>5. ASSUME NEW w \in Workers, NEW s \in Services, Get(w, s) PROVE OwnInv'
  <2> DEFINE rec == [IdleWorker EXCEPT !.pc = "get", !.key = s]
  <2>1. wk' = [wk EXCEPT ![w] = rec] /\ OwnObjects'
    BY <1>2, <1>5 DEF Get
  <2>2. OwnOK(rec)
    BY DEF OwnOK, IdleWorker
  <2> HIDE DEF rec
  <2> QED BY <2>1, <2>2, OwnWorker
<1>6. ASSUME NEW w \in Workers, processNextItem(w) PROVE OwnInv'
  BY <1>2, <1>6, OwnWorker DEF processNextItem, IdleWorker
<1>7. ASSUME NEW w \in Workers, syncHandler(w) PROVE OwnInv'
  BY <1>7, OwnHandler
<1>8. CASE Restart
  <2>1. ASSUME NEW s \in Services
        PROVE  /\ lastKnown'[s] = Absent /\ svc'[s] = svc[s]
               /\ \A i \in DOMAIN svcEvents'[s] : svcEvents'[s][i].obj \in SvcObjs[s]
    <3> DEFINE e == [type |-> "Add", obj |-> svc[s]]
    <3>1. /\ lastKnown'[s] = Absent /\ svc'[s] = svc[s]
          /\ svcEvents'[s] = IF svc[s] = Absent THEN << >> ELSE <<e>>
      BY <1>8 DEF Restart, AddAll, TypeInv, TypeOK
    <3>2. svc[s] # Absent => e.obj \in SvcObjs[s]
      BY DEF OwnInv, OwnObjects
    <3> HIDE DEF e
    <3> QED BY <3>1, <3>2
  <2>2. OwnObjects'
    BY <2>1 DEF OwnInv, OwnObjects
  <2>3. \A w \in Workers : ~Busy(w)'
    BY <1>8 DEF Restart, Busy, IdleWorker
  <2> QED BY <2>2, <2>3 DEF OwnInv
<1> QED BY <1>3, <1>4, <1>5, <1>6, <1>7, <1>8 DEF Environment, Reactive, processEvents
-----------------------------------------------------------------------------
(* Where two workers do not meet at a load balancer, a listing is never     *)
(* stale, cached or not.                                                    *)

\* No request is executed after its call has given up on it.
OnTime == ~Stragglers \/ MaxFaults = 0

InCall(w) == wk[w].pc \in {"store", "apply"}

ListInv ==
    /\ late = {}
    /\ \A lb \in LBs : cache[lb] \in {Absent, Listing(lb)}
    /\ \A w \in Workers : InCall(w) => wk[w].list = Listing(wk[w].to[1])

\* The other facts that hold of a worker at a load balancer.
AtLoadBalancers == TypeInv /\ OneWorkerPerKey /\ (Unshared => OwnInv)

\* Nobody else is at the load balancer a worker writes.
LEMMA NobodyElse ==
    ASSUME Alone, AtLoadBalancers, NEW v \in Workers, NEW w \in Workers, InCall(v), InCall(w),
           wk[v].to[1] = wk[w].to[1]
    PROVE  v = w
<1>1. CASE \E x \in Workers : Workers = {x}
  BY <1>1
<1>2. CASE Unshared
  <2>1. Busy(v) /\ Busy(w) /\ OwnOK(wk[v]) /\ OwnOK(wk[w])
    BY <1>2 DEF AtLoadBalancers, OwnInv, Busy, InCall
  <2>2. wk[v].key \in Services /\ wk[w].key \in Services /\ wk[w].to \in LBs \X Ups
    BY <2>1 DEF AtLoadBalancers, TypeInv, WorkerOK, Busy, InCall
  <2>3. PICK x \in SvcObjs[wk[v].key], y \in SvcObjs[wk[w].key] :
             Target(x) = wk[v].to /\ Target(y) = wk[w].to
    BY <2>1 DEF OwnOK, InCall
  <2>4. x.lb = y.lb /\ x.lb # ""
    <3>1. x.lb = wk[v].to[1] /\ y.lb = wk[w].to[1]
      BY <2>3 DEF Target
    <3>2. wk[w].to[1] \in LBs
      BY <2>2
    <3> QED BY <3>1, <3>2, NamesAssumption
  <2>5. wk[v].key = wk[w].key
    BY <1>2, <2>2, <2>4 DEF Unshared
  <2> QED BY <2>1, <2>5 DEF AtLoadBalancers, OneWorkerPerKey
<1> QED BY <1>1, <1>2 DEF Alone

\* The steps of syncHandler before it calls the adapter.
LEMMA BeforeCall ==
    ASSUME TypeInv, NEW w \in Workers, syncHandler(w)
    PROVE  \/ PushList(w) \/ PushStore(w) \/ PushApply(w) \/ PushFails(w)
           \/ UNCHANGED balancers /\ ~InCall(w)'
<1>1. wk[w] \in WorkerType /\ wk \in [Workers -> WorkerType]
  BY DEF TypeInv, TypeOK
<1>2. CASE GetService(w)
  BY <1>1, <1>2 DEF GetService, WorkerOnly, InCall, WorkerType
<1>3. CASE ReadLast(w)
  <2> DEFINE last == lastKnown[wk[w].key]
             to == AfterLast(wk[w].svc, last)
             cont == IF wk[w].svc = Absent THEN "forget" ELSE "record"
             rec == [wk[w] EXCEPT !.pc = to, !.last = last, !.cont = cont]
  <2>1. wk' = [wk EXCEPT ![w] = rec] /\ UNCHANGED balancers
    BY <1>3 DEF ReadLast, WorkerOnly
  <2>2. to \in {"done", "check", "forget", "record"}
    BY AfterLastCases
  <2> HIDE DEF last, to, cont
  <2>3. wk'[w].pc = to
    BY <1>1, <2>1 DEF WorkerType
  <2> QED BY <2>1, <2>2, <2>3 DEF InCall
<1>4. ASSUME NEW o \in Services, HandOver(w, o) PROVE UNCHANGED balancers /\ ~InCall(w)'
  BY <1>1, <1>4 DEF HandOver, WorkerOnly, InCall, WorkerType
<1>5. CASE Drain(w) \/ ForgetService(w) \/ RecordService(w)
  BY <1>1, <1>5 DEF Drain, ForgetService, RecordService, InCall, WorkerType
<1>6. ASSUME NEW pc \in {"fail", wk[w].cont}, WorkerOnly(w, Goto(w, pc))
      PROVE  UNCHANGED balancers /\ ~InCall(w)'
  BY <1>1, <1>6 DEF WorkerOnly, Goto, InCall, WorkerType
<1>7. CASE ListFails(w)
  BY <1>6, <1>7 DEF ListFails, CallFails
<1>8. CASE BuildOwn(w)
  <2> DEFINE t == Target(wk[w].cur)
             b == Built([s \in {wk[w].curKey} |-> wk[w].cur])
             rec == [wk[w] EXCEPT !.pc = "merge", !.to = t, !.want = b]
  <2>1. CASE WorkerOnly(w, rec)
    <3> HIDE DEF t, b
    <3> QED BY <1>1, <2>1 DEF WorkerOnly, InCall, WorkerType
  <2> QED BY <1>6, <1>8, <2>1 DEF BuildOwn
<1>9. CASE MergeShared(w)
  <2> DEFINE b == OrDefault(wk[w].to[1], Merged(w))
             rec == [wk[w] EXCEPT !.pc = "push", !.want = b]
  <2>1. CASE wk' = [wk EXCEPT ![w] = rec] /\ UNCHANGED balancers
    <3> HIDE DEF b
    <3> QED BY <1>1, <2>1 DEF InCall, WorkerType
  <2> QED BY <1>6, <1>9, <2>1 DEF MergeShared
<1> QED BY <1>2, <1>3, <1>4, <1>5, <1>7, <1>8, <1>9 DEF syncHandler

\* A step that leaves the load balancers alone and begins no call.
LEMMA ListUntouched ==
    ASSUME ListInv, UNCHANGED balancers,
           \A w \in Workers : InCall(w)' => wk'[w] = wk[w]
    PROVE  ListInv'
BY DEF ListInv, InCall, Listing

\* What the requests of a worker leave behind: the listing is forgotten, or there
\* was nothing to write.
LEMMA ListSend ==
    ASSUME Alone, AtLoadBalancers, ListInv, NEW w \in Workers, wk[w].pc = "apply",
           NEW E \in SUBSET Difference(w), Send(w, E, {}),
           \A v \in Workers \ {w} : wk'[v] = wk[v], ~InCall(w)'
    PROVE  ListInv'
<1>1. PICK h \in LBs \X Ups : h = wk[w].to
  BY DEF AtLoadBalancers, TypeInv, WorkerOK
<1>2. late' = {}
  BY DEF Send, Writes, ListInv
<1>3. nginx' = [nginx EXCEPT ![h] = Write(@, wk[w].want, E)] /\ nginx \in [LBs \X Ups -> Backends]
  BY <1>1 DEF Send, AtLoadBalancers, TypeInv, TypeOK
<1>4. \A t \in LBs \X Ups : t # h => nginx'[t] = nginx[t]
  BY <1>3
<1>5. ASSUME NEW lb \in LBs, lb # h[1] PROVE Listing(lb)' = Listing(lb)
  <2>1. \A u \in Ups : <<lb, u>> # h /\ <<lb, u>> \in LBs \X Ups
    BY <1>5
  <2>2. \A u \in Ups : nginx'[<<lb, u>>] = nginx[<<lb, u>>]
    BY <1>4, <2>1
  <2> QED BY <2>2 DEF Listing
<1>6. ASSUME NEW lb \in LBs PROVE cache'[lb] \in {Absent, Listing(lb)'}
  <2>1. cache \in [LBs -> [Ups -> Backends] \cup {Absent}]
    BY DEF AtLoadBalancers, TypeInv, TypeOK
  <2>2. CASE Difference(w) = {}
    <3>1. E = {} /\ cache' = cache
      BY <2>2 DEF Send
    <3>2. Write(nginx[h], wk[w].want, {}) = nginx[h]
      BY <1>3 DEF Write, Backends
    <3>3. nginx' = nginx
      BY <1>3, <3>1, <3>2
    <3> QED BY <3>1, <3>3 DEF ListInv, Listing
  <2>3. CASE Difference(w) # {}
    <3>1. cache' = [cache EXCEPT ![h[1]] = Absent]
      BY <1>1, <2>3 DEF Send, invalidateCache
    <3>2. CASE lb = h[1]
      BY <2>1, <3>1, <3>2
    <3>3. CASE lb # h[1]
      BY <1>5, <2>1, <3>1, <3>3 DEF ListInv
    <3> QED BY <3>2, <3>3
  <2> QED BY <2>2, <2>3
<1>7. ASSUME NEW v \in Workers, InCall(v)' PROVE wk'[v].list = Listing(wk[v].to[1])'
  <2>1. v # w /\ wk'[v] = wk[v] /\ InCall(v)
    BY <1>7 DEF InCall
  <2>2. wk[v].to[1] # h[1] /\ wk[v].to[1] \in LBs
    BY <1>1, <2>1, NobodyElse DEF InCall, AtLoadBalancers, TypeInv, WorkerOK
  <2>3. PICK lb \in LBs : lb = wk[v].to[1]
    BY <2>2
  <2>4. Listing(lb)' = Listing(lb)
    BY <1>5, <2>2, <2>3
  <2> QED BY <2>1, <2>3, <2>4 DEF ListInv, Listing
<1> QED BY <1>2, <1>6, <1>7 DEF ListInv

\* A step of syncHandler keeps the listings up to date.
LEMMA ListHandler ==
    ASSUME Alone, OnTime, AtLoadBalancers, ListInv, NEW w \in Workers, syncHandler(w)
    PROVE  ListInv'
<1>1. /\ wk[w] \in WorkerType /\ WorkerOK(wk[w]) /\ wk \in [Workers -> WorkerType]
      /\ cache \in [LBs -> [Ups -> Backends] \cup {Absent}]
  BY DEF AtLoadBalancers, TypeInv, TypeOK
<1>2. \A v \in Workers \ {w} : wk'[v] = wk[v]
  BY HandlerKeeps DEF AtLoadBalancers, HandlerFrame
<1>3. CASE UNCHANGED balancers /\ ~InCall(w)'
  BY <1>2, <1>3, ListUntouched DEF InCall
<1>4. CASE PushList(w)
  <2> DEFINE lb == wk[w].to[1]
             pc == IF cache[lb] = Absent THEN "store" ELSE "apply"
             list == refreshCache(lb)
             rec == [wk[w] EXCEPT !.pc = pc, !.list = list]
  <2>1. UNCHANGED balancers
    BY <1>4 DEF PushList, WorkerOnly
  <2>2. CASE wk' = [wk EXCEPT ![w] = Goto(w, "fail")]
    <3>1. ~InCall(w)'
      BY <1>1, <2>2 DEF Goto, InCall, WorkerType
    <3> QED BY <1>3, <2>1, <3>1
  <2>3. CASE lb \in LBs /\ wk' = [wk EXCEPT ![w] = rec]
    <3>1. list = Listing(lb)
      BY <2>3 DEF ListInv, refreshCache
    <3> HIDE DEF pc, list
    <3>2. wk'[w].list = list /\ wk'[w].to = wk[w].to
      BY <1>1, <2>3 DEF WorkerType
    <3>3. ASSUME NEW v \in Workers, InCall(v)' PROVE (wk[v].list = Listing(wk[v].to[1]))'
      <4>1. CASE v = w
        BY <2>1, <3>1, <3>2, <4>1 DEF Listing
      <4>2. CASE v # w
        BY <1>2, <2>1, <3>3, <4>2 DEF ListInv, InCall, Listing
      <4> QED BY <4>1, <4>2
    <3>4. \A k \in LBs : (cache[k] \in {Absent, Listing(k)})'
      BY <2>1 DEF ListInv, Listing
    <3> QED BY <2>1, <3>3, <3>4 DEF ListInv
  <2> QED BY <1>4, <2>2, <2>3 DEF PushList, WorkerOnly
<1>5. CASE PushStore(w)
  <2>1. PICK lb \in LBs : lb = wk[w].to[1]
    BY <1>1, <1>5 DEF PushStore, WorkerOK
  <2>2. cache' = [cache EXCEPT ![lb] = wk[w].list] /\ wk[w].list = Listing(lb)
    BY <1>5, <2>1 DEF PushStore, Store, ListInv, InCall
  <2>3. wk'[w].list = wk[w].list /\ wk'[w].to = wk[w].to
    BY <1>1, <1>5 DEF PushStore, WorkerType
  <2>4. UNCHANGED <<nginx, late>>
    BY <1>5 DEF PushStore
  <2>5. \A k \in LBs : cache'[k] \in {Absent, Listing(k)}
    BY <1>1, <2>2 DEF ListInv
  <2>6. \A k \in LBs : (cache[k] \in {Absent, Listing(k)})'
    BY <2>4, <2>5 DEF Listing
  <2>7. ASSUME NEW v \in Workers, InCall(v)' PROVE (wk[v].list = Listing(wk[v].to[1]))'
    <3>1. CASE v = w
      BY <2>1, <2>2, <2>3, <2>4, <3>1 DEF Listing
    <3>2. CASE v # w
      BY <1>2, <2>4, <2>7, <3>2 DEF ListInv, InCall, Listing
    <3> QED BY <3>1, <3>2
  <2> QED BY <2>4, <2>6, <2>7 DEF ListInv
<1>6. CASE PushApply(w) \/ PushFails(w)
  <2>1. ~InCall(w)'
    <3> DEFINE list == IdleWorker.list
    <3>1. PICK pc \in {"fail", wk[w].cont} :
               wk' = [wk EXCEPT ![w] = [wk[w] EXCEPT !.pc = pc, !.list = list]]
      BY <1>6 DEF PushApply, PushFails
    <3> HIDE DEF list
    <3> QED BY <1>1, <3>1 DEF InCall, WorkerType
  <2>2. UNCHANGED balancers \/ (wk[w].pc = "apply" /\ \E E \in SUBSET Difference(w) : Send(w, E, {}))
    <3>1. CASE ~Stragglers
      <4>1. \A L \in Lost(Difference(w)) : L = {}
        BY <3>1 DEF Lost
      <4> QED BY <1>6, <4>1, Zenon DEF PushApply, PushFails
    <3>2. CASE MaxFaults = 0
      <4>1. ~Fault
        BY <3>2 DEF Fault, AtLoadBalancers, TypeInv, TypeOK
      <4> QED BY <1>6, <4>1 DEF PushApply, PushFails
    <3> QED BY <3>1, <3>2 DEF OnTime
  <2> QED BY <1>2, <1>3, <2>1, <2>2, ListSend
<1> QED BY <1>3, <1>4, <1>5, <1>6, BeforeCall DEF AtLoadBalancers

\* Nothing else makes a listing stale.
LEMMA ListStep ==
    ASSUME Alone, OnTime
    PROVE  /\ AtLoadBalancers /\ ListInv /\ [Environment \/ Reactive \/ Restart]_vars
           => ListInv'
<1> SUFFICES ASSUME AtLoadBalancers, ListInv, [Environment \/ Reactive \/ Restart]_vars
             PROVE  ListInv'
  OBVIOUS
<1>1. CASE UNCHANGED <<wk, balancers>>
  BY <1>1, ListUntouched DEF InCall
<1>2. CASE \/ \E s \in Services : \/ ChangeService(s) \/ ResyncService(s)
                                  \/ handleServiceEvent(s) \/ BackoffElapsed(s)
           \/ \E p \in Pods : ChangePod(p) \/ handlePodEvent(p)
           \/ \E n \in Nodes : ChangeNode(n) \/ handleNodeEvent(n)
           \/ UNCHANGED vars
  BY <1>1, <1>2 DEF ChangeService, ResyncService, handleServiceEvent, BackoffElapsed, ChangePod,
     handlePodEvent, ChangeNode, handleNodeEvent, vars
<1>3. CASE Outside
  <2>1. PICK lb \in LBs : CacheExpires(lb)
    BY <1>3 DEF Outside, ListInv
  <2>2. UNCHANGED <<nginx, late, wk>> /\ cache' = [cache EXCEPT ![lb] = Absent]
    BY <2>1 DEF CacheExpires
  <2>3. \A k \in LBs : cache'[k] \in {Absent, Listing(k)}
    BY <2>2 DEF ListInv, AtLoadBalancers, TypeInv, TypeOK
  <2>4. \A k \in LBs : (cache[k] \in {Absent, Listing(k)})'
    BY <2>2, <2>3 DEF Listing
  <2>5. \A v \in Workers : (InCall(v) => wk[v].list = Listing(wk[v].to[1]))'
    BY <2>2 DEF ListInv, InCall, Listing
  <2> QED BY <2>2, <2>4, <2>5 DEF ListInv
<1>4. ASSUME NEW w \in Workers, NEW s \in Services, Get(w, s) PROVE ListInv'
  <2>1. UNCHANGED balancers /\ wk'[w].pc = "get" /\ \A v \in Workers \ {w} : wk'[v] = wk[v]
    BY <1>4 DEF Get, IdleWorker, AtLoadBalancers, TypeInv, TypeOK
  <2> QED BY <2>1, ListUntouched DEF InCall
<1>5. ASSUME NEW w \in Workers, processNextItem(w) PROVE ListInv'
  <2>1. UNCHANGED balancers /\ wk'[w].pc = "idle" /\ \A v \in Workers \ {w} : wk'[v] = wk[v]
    BY <1>5 DEF processNextItem, IdleWorker, AtLoadBalancers, TypeInv, TypeOK
  <2> QED BY <2>1, ListUntouched DEF InCall
<1>6. ASSUME NEW w \in Workers, syncHandler(w) PROVE ListInv'
  BY <1>6, ListHandler
<1>7. CASE Restart
  BY <1>7 DEF Restart, IdleWorker, ListInv, InCall
<1> QED BY <1>2, <1>3, <1>4, <1>5, <1>6, <1>7 DEF Environment, Reactive, processEvents

\* NewController starts with nothing listed.
LEMMA ListInit == Init => ListInv
BY DEF Init, IdleWorker, ListInv, InCall
=============================================================================
