-------------------------- MODULE LifecycleProofs --------------------------
(* Safety of Lifecycle for any number of replicas and faults.              *)
EXTENDS Lifecycle, TLAPS

\* What holds of the process p of replica r while l holds the lease: who leads
\* holds the lease; in HA mode the leading context is only alive while the elector
\* of that very process has not cancelled it, and a callback that is still to run,
\* or has run, is one of an elector that leads or of a process that is ending.
ProcOK(r, p, l) ==
    /\ p.el = "lead" => l = r
    /\ p.el = "alone" => mode = "disabled"
    /\ mode = "enabled" /\ p.lctx => p.el \in {"lead", "release", "cancel"}
    /\ mode = "enabled" /\ (p.cb \/ p.gauge \/ p.isLeader)
         => p.el \in {"lead", "release", "cancel", "stopped"} \/ ~p.ctx

\* The invariant that is inductive, per process.
LifecycleInv == TypeOK /\ \A r \in Replicas : ProcOK(r, proc[r], lease)

\* No process runs, so nothing is held and nothing reconciles.
LEMMA InitInv == Init => LifecycleInv
BY ReplicasAssumption, FaultsAssumption
DEF Init, LifecycleInv, TypeOK, ProcType, Down, ProcOK

\* A step of one process, to a record that is all right for the new holder of
\* the lease, keeps the invariant if it does not take the lease from another.
LEMMA StepInv ==
    ASSUME LifecycleInv, NEW r \in Replicas, NEW p \in ProcType,
           proc' = [proc EXCEPT ![r] = p], mode' = mode,
           lease' \in Replicas \cup {None, Dead}, faults' \in 0..MaxFaults,
           \A q \in Replicas \ {r} : lease = q => lease' = q,
           ProcOK(r, p, lease')
    PROVE  LifecycleInv'
<1>1. \A q \in Replicas : proc'[q] = IF q = r THEN p ELSE proc[q]
  BY DEF LifecycleInv, TypeOK
<1>2. TypeOK'
  BY DEF LifecycleInv, TypeOK
<1>3. ASSUME NEW q \in Replicas PROVE ProcOK(q, proc[q], lease)'
  <2>1. CASE q = r
    BY <1>1, <2>1 DEF ProcOK
  <2>2. CASE q # r
    <3>1. proc'[q] = proc[q] /\ ProcOK(q, proc[q], lease)
      BY <1>1, <2>2 DEF LifecycleInv
    <3>2. lease = q => lease' = q
      BY <2>2
    <3> QED BY <3>1, <3>2 DEF ProcOK
  <2> QED BY <2>1, <2>2
<1> QED BY <1>2, <1>3 DEF LifecycleInv

\* One case per action of a process, and the expiry of the lease.
LEMMA NextInv == LifecycleInv /\ [Next]_vars => LifecycleInv'
<1> SUFFICES ASSUME LifecycleInv, [Next]_vars PROVE LifecycleInv'
  OBVIOUS
<1>t. \A r \in Replicas : proc[r] \in ProcType /\ ProcOK(r, proc[r], lease)
  BY DEF LifecycleInv, TypeOK
<1>l. lease \in Replicas \cup {None, Dead} /\ faults \in 0..MaxFaults
  BY DEF LifecycleInv, TypeOK
<1>f. Faulty => faults' \in 0..MaxFaults
  BY <1>l, FaultsAssumption DEF Faulty
<1>s. CASE UNCHANGED vars
  BY <1>s DEF vars, LifecycleInv, TypeOK, ProcOK
<1>a. ASSUME NEW r \in Replicas,
             App(r)
      PROVE  LifecycleInv'
  <2>1. CASE Start(r)
    <3> DEFINE p == [Down EXCEPT !.main = "wait", !.ctx = TRUE, !.el = "run"]
    <3>1. proc' = [proc EXCEPT ![r] = p] /\ mode' = mode
      BY <2>1 DEF Start, Local
    <3>2. p \in ProcType
      BY <1>t, <2>1 DEF ProcType, Down
    <3>3. lease' = lease /\ faults' = faults
      BY <2>1 DEF Start, Local
    <3>4. ProcOK(r, p, lease')
      BY <1>t, <2>1, <3>3 DEF Start, ProcOK, ProcType, Down
    <3> HIDE DEF p
    <3> QED BY <3>1, <3>2, <3>3, <3>4, <1>l, StepInv
  <2>2. CASE StartReturns(r)
    <3> DEFINE p == [proc[r] EXCEPT !.main = "stop"]
    <3>1. proc' = [proc EXCEPT ![r] = p] /\ mode' = mode
      BY <2>2 DEF StartReturns, Local
    <3>2. p \in ProcType
      BY <1>t, <2>2 DEF ProcType
    <3>3. lease' = lease /\ faults' = faults
      BY <2>2 DEF StartReturns, Local
    <3>4. ProcOK(r, p, lease')
      BY <1>t, <2>2, <3>3 DEF StartReturns, ProcOK, ProcType, Down
    <3> HIDE DEF p
    <3> QED BY <3>1, <3>2, <3>3, <3>4, <1>l, StepInv
  <2>3. CASE Stop(r)
    <3> DEFINE p == Down
    <3>1. proc' = [proc EXCEPT ![r] = p] /\ mode' = mode
      BY <2>3 DEF Stop, Ended
    <3>2. p \in ProcType
      BY <1>t, <2>3 DEF ProcType, Down
    <3>3. lease' \in Replicas \cup {None, Dead} /\ faults' \in 0..MaxFaults
      BY <1>l, <1>f, <2>3 DEF Stop, Ended, Orphaned
    <3>4. ProcOK(r, p, lease')
      BY <1>t, <2>3 DEF Stop, ProcOK, ProcType, Down, Ended, Orphaned
    <3>5. \A q \in Replicas \ {r} : lease = q => lease' = q
      BY <2>3, ReplicasAssumption DEF Stop, Ended, Orphaned
    <3> HIDE DEF p
    <3> QED BY <3>1, <3>2, <3>3, <3>4, <3>5, <1>l, StepInv
  <2> QED BY <1>a, <2>1, <2>2, <2>3 DEF App
<1>i. ASSUME NEW r \in Replicas,
             Informers(r)
      PROVE  LifecycleInv'
  <2>1. CASE StartInformers(r)
    <3> DEFINE p == [proc[r] EXCEPT !.once = "syncing", !.by = "app"]
    <3>1. proc' = [proc EXCEPT ![r] = p] /\ mode' = mode
      BY <2>1 DEF StartInformers, Local
    <3>2. p \in ProcType
      BY <1>t, <2>1 DEF ProcType
    <3>3. lease' = lease /\ faults' = faults
      BY <2>1 DEF StartInformers, Local
    <3>4. ProcOK(r, p, lease')
      BY <1>t, <2>1, <3>3 DEF StartInformers, ProcOK, ProcType, Down
    <3> HIDE DEF p
    <3> QED BY <3>1, <3>2, <3>3, <3>4, <1>l, StepInv
  <2>2. CASE CacheSynced(r)
    <3> DEFINE p == [proc[r] EXCEPT !.once = "synced"]
    <3>1. proc' = [proc EXCEPT ![r] = p] /\ mode' = mode
      BY <2>2 DEF CacheSynced, Local
    <3>2. p \in ProcType
      BY <1>t, <2>2 DEF ProcType
    <3>3. lease' = lease /\ faults' = faults
      BY <2>2 DEF CacheSynced, Local
    <3>4. ProcOK(r, p, lease')
      BY <1>t, <2>2, <3>3 DEF CacheSynced, ProcOK, ProcType, Down
    <3> HIDE DEF p
    <3> QED BY <3>1, <3>2, <3>3, <3>4, <1>l, StepInv
  <2>3. CASE CacheSyncFails(r)
    <3> DEFINE p == [proc[r] EXCEPT !.once = "failed"]
    <3>1. proc' = [proc EXCEPT ![r] = p] /\ mode' = mode
      BY <2>3 DEF CacheSyncFails, Local
    <3>2. p \in ProcType
      BY <1>t, <2>3 DEF ProcType
    <3>3. lease' = lease /\ faults' = faults
      BY <2>3 DEF CacheSyncFails, Local
    <3>4. ProcOK(r, p, lease')
      BY <1>t, <2>3, <3>3 DEF CacheSyncFails, ProcOK, ProcType, Down
    <3> HIDE DEF p
    <3> QED BY <3>1, <3>2, <3>3, <3>4, <1>l, StepInv
  <2> QED BY <1>i, <2>1, <2>2, <2>3 DEF Informers
<1>e. ASSUME NEW r \in Replicas,
             Elector(r)
      PROVE  LifecycleInv'
  <2>1. CASE Run(r)
    <3> DEFINE p == IF mode = "disabled"
                     THEN [Started(proc[r]) EXCEPT !.el = "alone", !.lctx = TRUE]
                     ELSE IF mode = "enabled" THEN [proc[r] EXCEPT !.el = "acquire"]
                     ELSE [proc[r] EXCEPT !.el = "returned"]
    <3>1. proc' = [proc EXCEPT ![r] = p] /\ mode' = mode
      BY <2>1 DEF Run, Local
    <3>2. p \in ProcType
      BY <1>t, <2>1 DEF ProcType, Started
    <3>3. lease' = lease /\ faults' = faults
      BY <2>1 DEF Run, Local
    <3>4. ProcOK(r, p, lease')
      BY <1>t, <2>1, <3>3 DEF Run, ProcOK, ProcType, Started, Down
    <3> HIDE DEF p
    <3> QED BY <3>1, <3>2, <3>3, <3>4, <1>l, StepInv
  <2>2. CASE Acquire(r)
    <3> DEFINE p == [proc[r] EXCEPT !.el = "lead", !.lctx = TRUE, !.cb = TRUE]
    <3>1. proc' = [proc EXCEPT ![r] = p] /\ mode' = mode
      BY <2>2 DEF Acquire
    <3>2. p \in ProcType
      BY <1>t, <2>2 DEF ProcType
    <3>3. lease' \in Replicas \cup {None, Dead} /\ faults' \in 0..MaxFaults
      BY <1>l, <1>f, <2>2 DEF Acquire
    <3>4. ProcOK(r, p, lease')
      BY <1>t, <2>2 DEF Acquire, ProcOK, ProcType, Down
    <3>5. \A q \in Replicas \ {r} : lease = q => lease' = q
      BY <2>2, ReplicasAssumption DEF Acquire
    <3> HIDE DEF p
    <3> QED BY <3>1, <3>2, <3>3, <3>4, <3>5, <1>l, StepInv
  <2>3. CASE StopRenewing(r)
    <3> DEFINE p == [proc[r] EXCEPT !.el = "release"]
    <3>1. proc' = [proc EXCEPT ![r] = p] /\ mode' = mode
      BY <2>3 DEF StopRenewing, Local
    <3>2. p \in ProcType
      BY <1>t, <2>3 DEF ProcType
    <3>3. lease' = lease /\ faults' = faults
      BY <2>3 DEF StopRenewing, Local
    <3>4. ProcOK(r, p, lease')
      BY <1>t, <2>3, <3>3 DEF StopRenewing, ProcOK, ProcType, Down
    <3> HIDE DEF p
    <3> QED BY <3>1, <3>2, <3>3, <3>4, <1>l, StepInv
  <2>4. CASE Release(r)
    <3> DEFINE p == [proc[r] EXCEPT !.el = "cancel"]
    <3>1. proc' = [proc EXCEPT ![r] = p] /\ mode' = mode
      BY <2>4 DEF Release
    <3>2. p \in ProcType
      BY <1>t, <2>4 DEF ProcType
    <3>3. lease' \in Replicas \cup {None, Dead} /\ faults' \in 0..MaxFaults
      BY <1>l, <1>f, <2>4 DEF Release
    <3>4. ProcOK(r, p, lease')
      BY <1>t, <2>4 DEF Release, ProcOK, ProcType, Down
    <3>5. \A q \in Replicas \ {r} : lease = q => lease' = q
      BY <2>4, ReplicasAssumption DEF Release
    <3> HIDE DEF p
    <3> QED BY <3>1, <3>2, <3>3, <3>4, <3>5, <1>l, StepInv
  <2>5. CASE CancelLeading(r)
    <3> DEFINE p == [proc[r] EXCEPT !.el = "stopped", !.lctx = FALSE]
    <3>1. proc' = [proc EXCEPT ![r] = p] /\ mode' = mode
      BY <2>5 DEF CancelLeading, Local
    <3>2. p \in ProcType
      BY <1>t, <2>5 DEF ProcType
    <3>3. lease' = lease /\ faults' = faults
      BY <2>5 DEF CancelLeading, Local
    <3>4. ProcOK(r, p, lease')
      BY <1>t, <2>5, <3>3 DEF CancelLeading, ProcOK, ProcType, Down
    <3> HIDE DEF p
    <3> QED BY <3>1, <3>2, <3>3, <3>4, <1>l, StepInv
  <2>6. CASE OnStoppedLeading(r)
    <3> DEFINE p == [Cancel(proc[r]) EXCEPT !.el = "returned", !.isLeader = FALSE,
                                               !.gauge = FALSE]
    <3>1. proc' = [proc EXCEPT ![r] = p] /\ mode' = mode
      BY <2>6 DEF OnStoppedLeading, Local
    <3>2. p \in ProcType
      BY <1>t, <2>6 DEF ProcType, Cancel
    <3>3. lease' = lease /\ faults' = faults
      BY <2>6 DEF OnStoppedLeading, Local
    <3>4. ProcOK(r, p, lease')
      BY <1>t, <2>6, <3>3 DEF OnStoppedLeading, ProcOK, ProcType, Cancel, Down
    <3> HIDE DEF p
    <3> QED BY <3>1, <3>2, <3>3, <3>4, <1>l, StepInv
  <2>7. CASE RunReturns(r)
    <3> DEFINE p == [Cancel(proc[r]) EXCEPT !.el = "off"]
    <3>1. proc' = [proc EXCEPT ![r] = p] /\ mode' = mode
      BY <2>7 DEF RunReturns, Local
    <3>2. p \in ProcType
      BY <1>t, <2>7 DEF ProcType, Cancel
    <3>3. lease' = lease /\ faults' = faults
      BY <2>7 DEF RunReturns, Local
    <3>4. ProcOK(r, p, lease')
      BY <1>t, <2>7, <3>3 DEF RunReturns, ProcOK, ProcType, Cancel, Down
    <3> HIDE DEF p
    <3> QED BY <3>1, <3>2, <3>3, <3>4, <1>l, StepInv
  <2> QED BY <1>e, <2>1, <2>2, <2>3, <2>4, <2>5, <2>6, <2>7 DEF Elector
<1>c. ASSUME NEW r \in Replicas,
             Control(r)
      PROVE  LifecycleInv'
  <2>1. CASE WatchServices(r)
    <3> DEFINE p == [proc[r] EXCEPT !.once = "syncing", !.by = "lead"]
    <3>1. proc' = [proc EXCEPT ![r] = p] /\ mode' = mode
      BY <2>1 DEF WatchServices, Local
    <3>2. p \in ProcType
      BY <1>t, <2>1 DEF ProcType
    <3>3. lease' = lease /\ faults' = faults
      BY <2>1 DEF WatchServices, Local
    <3>4. ProcOK(r, p, lease')
      BY <1>t, <2>1, <3>3 DEF WatchServices, ProcOK, ProcType, Down
    <3> HIDE DEF p
    <3> QED BY <3>1, <3>2, <3>3, <3>4, <1>l, StepInv
  <2>2. CASE ControllerRuns(r)
    <3> DEFINE p == [proc[r] EXCEPT !.ctl = "run"]
    <3>1. proc' = [proc EXCEPT ![r] = p] /\ mode' = mode
      BY <2>2 DEF ControllerRuns, Local
    <3>2. p \in ProcType
      BY <1>t, <2>2 DEF ProcType
    <3>3. lease' = lease /\ faults' = faults
      BY <2>2 DEF ControllerRuns, Local
    <3>4. ProcOK(r, p, lease')
      BY <1>t, <2>2, <3>3 DEF ControllerRuns, ProcOK, ProcType, Down, InformersReady
    <3> HIDE DEF p
    <3> QED BY <3>1, <3>2, <3>3, <3>4, <1>l, StepInv
  <2>3. CASE ControllerFails(r)
    <3> DEFINE p == [proc[r] EXCEPT !.ctl = "failed"]
    <3>1. proc' = [proc EXCEPT ![r] = p] /\ mode' = mode
      BY <2>3 DEF ControllerFails, Local
    <3>2. p \in ProcType
      BY <1>t, <2>3 DEF ProcType
    <3>3. lease' = lease /\ faults' = faults
      BY <2>3 DEF ControllerFails, Local
    <3>4. ProcOK(r, p, lease')
      BY <1>t, <2>3, <3>3 DEF ControllerFails, ProcOK, ProcType, Down
    <3> HIDE DEF p
    <3> QED BY <3>1, <3>2, <3>3, <3>4, <1>l, StepInv
  <2>4. CASE ControllerStops(r)
    <3> DEFINE p == [proc[r] EXCEPT !.ctl = "stopped"]
    <3>1. proc' = [proc EXCEPT ![r] = p] /\ mode' = mode
      BY <2>4 DEF ControllerStops, Local
    <3>2. p \in ProcType
      BY <1>t, <2>4 DEF ProcType
    <3>3. lease' = lease /\ faults' = faults
      BY <2>4 DEF ControllerStops, Local
    <3>4. ProcOK(r, p, lease')
      BY <1>t, <2>4, <3>3 DEF ControllerStops, ProcOK, ProcType, Down
    <3> HIDE DEF p
    <3> QED BY <3>1, <3>2, <3>3, <3>4, <1>l, StepInv
  <2> QED BY <1>c, <2>1, <2>2, <2>3, <2>4 DEF Control
<1>x. ASSUME NEW r \in Replicas,
             OnStartedLeading(r) \/ Signal(r) \/ Crash(r) \/ RenewFails(r)
      PROVE  LifecycleInv'
  <2>1. CASE OnStartedLeading(r)
    <3> DEFINE p == [Started(proc[r]) EXCEPT !.cb = FALSE]
    <3>1. proc' = [proc EXCEPT ![r] = p] /\ mode' = mode
      BY <2>1 DEF OnStartedLeading, Local
    <3>2. p \in ProcType
      BY <1>t, <2>1 DEF ProcType, Started
    <3>3. lease' = lease /\ faults' = faults
      BY <2>1 DEF OnStartedLeading, Local
    <3>4. ProcOK(r, p, lease')
      BY <1>t, <2>1, <3>3 DEF OnStartedLeading, ProcOK, ProcType, Started, Down
    <3> HIDE DEF p
    <3> QED BY <3>1, <3>2, <3>3, <3>4, <1>l, StepInv
  <2>2. CASE Signal(r)
    <3> DEFINE p == Cancel(proc[r])
    <3>1. proc' = [proc EXCEPT ![r] = p] /\ mode' = mode
      BY <2>2 DEF Signal
    <3>2. p \in ProcType
      BY <1>t, <2>2 DEF ProcType, Cancel
    <3>3. lease' \in Replicas \cup {None, Dead} /\ faults' \in 0..MaxFaults
      BY <1>l, <1>f, <2>2 DEF Signal
    <3>4. ProcOK(r, p, lease')
      BY <1>t, <2>2 DEF Signal, ProcOK, ProcType, Cancel, Down
    <3>5. \A q \in Replicas \ {r} : lease = q => lease' = q
      BY <2>2, ReplicasAssumption DEF Signal
    <3> HIDE DEF p
    <3> QED BY <3>1, <3>2, <3>3, <3>4, <3>5, <1>l, StepInv
  <2>3. CASE Crash(r)
    <3> DEFINE p == Down
    <3>1. proc' = [proc EXCEPT ![r] = p] /\ mode' = mode
      BY <2>3 DEF Crash, Ended
    <3>2. p \in ProcType
      BY <1>t, <2>3 DEF ProcType, Down
    <3>3. lease' \in Replicas \cup {None, Dead} /\ faults' \in 0..MaxFaults
      BY <1>l, <1>f, <2>3 DEF Crash, Ended, Orphaned
    <3>4. ProcOK(r, p, lease')
      BY <1>t, <2>3 DEF Crash, ProcOK, ProcType, Down, Ended, Orphaned
    <3>5. \A q \in Replicas \ {r} : lease = q => lease' = q
      BY <2>3, ReplicasAssumption DEF Crash, Ended, Orphaned
    <3> HIDE DEF p
    <3> QED BY <3>1, <3>2, <3>3, <3>4, <3>5, <1>l, StepInv
  <2>4. CASE RenewFails(r)
    <3> DEFINE p == [proc[r] EXCEPT !.el = "release"]
    <3>1. proc' = [proc EXCEPT ![r] = p] /\ mode' = mode
      BY <2>4 DEF RenewFails
    <3>2. p \in ProcType
      BY <1>t, <2>4 DEF ProcType
    <3>3. lease' \in Replicas \cup {None, Dead} /\ faults' \in 0..MaxFaults
      BY <1>l, <1>f, <2>4 DEF RenewFails
    <3>4. ProcOK(r, p, lease')
      BY <1>t, <2>4 DEF RenewFails, ProcOK, ProcType, Down
    <3>5. \A q \in Replicas \ {r} : lease = q => lease' = q
      BY <2>4, ReplicasAssumption DEF RenewFails
    <3> HIDE DEF p
    <3> QED BY <3>1, <3>2, <3>3, <3>4, <3>5, <1>l, StepInv
  <2> QED BY <1>x, <2>1, <2>2, <2>3, <2>4
<1>p. CASE Expire
  BY <1>t, <1>p DEF Expire, LifecycleInv, TypeOK, ProcOK
<1> QED BY <1>s, <1>a, <1>i, <1>e, <1>c, <1>x, <1>p DEF Next

\* However many replicas there are, two of them overlap at most while one is
\* between the release of the lease and the cancel of its leading context.
THEOREM OverlapBounded == Spec => []OverlapOnlyAtRelease
<1>1. LifecycleInv => OverlapOnlyAtRelease
  BY DEF LifecycleInv, TypeOK, ProcType, ProcOK, OverlapOnlyAtRelease, Syncing, Leading
<1> QED BY <1>1, InitInv, NextInv, PTL DEF Spec

\* However many replicas there are, one that reports itself the leader without the
\* lease is about to give up or to end, although its callbacks may run in either
\* order.
THEOREM ReportsBounded == Spec => []ReportsLeading
<1>1. LifecycleInv => ReportsLeading
  BY DEF LifecycleInv, TypeOK, ProcType, ProcOK, ReportsLeading, Reports
<1> QED BY <1>1, InitInv, NextInv, PTL DEF Spec
=============================================================================
