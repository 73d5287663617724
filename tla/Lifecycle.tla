----------------------------- MODULE Lifecycle -----------------------------
(***************************************************************************)
(* The life of the replicas of mlb-controller: App.Start and Stop          *)
(* (internal/application/app.go) under main, the leader election adapter   *)
(* (internal/adapters/leaderelection), the informers that StartInformers   *)
(* and Controller.Start both start (startOnce), and the goroutine that     *)
(* runs the controller while the replica leads.                            *)
(*                                                                         *)
(* proc[r] is the process of replica r.  Every context is a child of       *)
(* appCtx; the leading context is the one client-go hands to               *)
(* OnStartedLeading.  client-go's elector, the Lease and the kubelet are   *)
(* external.                                                               *)
(***************************************************************************)
EXTENDS Naturals

CONSTANTS
    Replicas,
    Modes,      \* configurations: leader election "enabled", "disabled", or
                \* "invalid" (durations that NewLeaderElector refuses)
    None, Dead, \* nobody holds the lease; a process that is gone still does
    MaxFaults   \* bound on signals, crashes, renewals and releases that fail

ASSUME ReplicasAssumption == None \notin Replicas /\ Dead \notin Replicas /\ None # Dead
ASSUME ModesAssumption == Modes \subseteq {"enabled", "disabled", "invalid"}
ASSUME FaultsAssumption == MaxFaults \in Nat

VARIABLES mode, proc, lease, faults

vars == <<mode, proc, lease, faults>>

\* main: where run() and App.Start are; ctx: appCtx is alive; once: startOnce
\* and startErr, by the context that started the informers; el: Run of the
\* leader election; lctx: the leading context; cb: the goroutine that runs
\* OnStartedLeading; ctl: the goroutine of Controller.Start.
Down == [main |-> "down", ctx |-> FALSE, once |-> "no", by |-> "app", el |-> "off",
         lctx |-> FALSE, cb |-> FALSE, isLeader |-> FALSE, gauge |-> FALSE,
         ctl |-> "off"]

Init == /\ mode \in Modes
        /\ proc = [r \in Replicas |-> Down]
        /\ lease = None
        /\ faults = 0

\* A context derived from appCtx ends with it.
Leading(r) == proc[r].lctx /\ proc[r].ctx
CtxAlive(r) == IF proc[r].by = "app" THEN proc[r].ctx ELSE Leading(r)

\* Mutant of Cancel: the wrong context is cancelled.
CancelNothing(p) == p

\* cancel() of App.Start.
Cancel(p) == [p EXCEPT !.ctx = FALSE]

Local(r, p) == proc' = [proc EXCEPT ![r] = p] /\ UNCHANGED <<mode, lease, faults>>
Faulty == faults < MaxFaults /\ faults' = faults + 1

-----------------------------------------------------------------------------
(* main and App.Start, up to the wait for appCtx, and App.Stop.            *)

\* The kubelet starts the process; App.Start sets the gauge, starts the metrics
\* server, registers the callbacks and launches Run.
Start(r) ==
    /\ proc[r].main = "down"
    /\ Local(r, [Down EXCEPT !.main = "wait", !.ctx = TRUE, !.el = "run"])

\* SIGTERM cancels the context of main, and with it every other.
Signal(r) ==
    /\ proc[r].main = "wait" /\ proc[r].ctx
    /\ Faulty
    /\ proc' = [proc EXCEPT ![r] = Cancel(@)]
    /\ UNCHANGED <<mode, lease>>

StartReturns(r) ==
    /\ proc[r].main = "wait" /\ ~proc[r].ctx
    /\ Local(r, [proc[r] EXCEPT !.main = "stop"])

\* What is left of a process that has ended: nothing; no goroutine is waited for.
Ended(r) == Down

\* A lease that the process did not release stays until it expires: the next
\* process of the replica has another identity.
Orphaned(r) == IF lease = r THEN Dead ELSE lease

\* App.Stop, then main returns.
Stop(r) ==
    /\ proc[r].main = "stop"
    /\ proc' = [proc EXCEPT ![r] = Ended(r)]
    /\ lease' = Orphaned(r)
    /\ UNCHANGED <<mode, faults>>

Crash(r) ==
    /\ proc[r].main # "down"
    /\ Faulty
    /\ proc' = [proc EXCEPT ![r] = Ended(r)]
    /\ lease' = Orphaned(r)
    /\ UNCHANGED mode

-----------------------------------------------------------------------------
(* The informers: KubernetesAdapter.Start, once per process.               *)

\* Mutant of StartInformers: only a leader starts the informers.
StartInformersLeading(r) ==
    /\ proc[r].main # "down" /\ proc[r].once = "no" /\ proc[r].isLeader
    /\ Local(r, [proc[r] EXCEPT !.once = "syncing", !.by = "app"])

StartInformers(r) ==
    /\ proc[r].main # "down" /\ proc[r].once = "no"
    /\ Local(r, [proc[r] EXCEPT !.once = "syncing", !.by = "app"])

CacheSynced(r) ==
    /\ proc[r].once = "syncing"
    /\ Local(r, [proc[r] EXCEPT !.once = "synced"])

CacheSyncFails(r) ==
    /\ proc[r].once = "syncing" /\ ~CtxAlive(r)
    /\ Local(r, [proc[r] EXCEPT !.once = "failed"])

-----------------------------------------------------------------------------
(* Run of the leader election adapter.                                     *)

\* Both OnStartedLeading callbacks, the adapter's and the application's.
Started(p) == [p EXCEPT !.isLeader = TRUE, !.gauge = TRUE, !.ctl = "watch"]

\* Mutant of Run: the callbacks run at once although leader election is on.
RunAtOnce(r) ==
    /\ proc[r].el = "run"
    /\ \/ /\ mode # "invalid"
          /\ Local(r, [Started(proc[r]) EXCEPT !.el = "alone", !.lctx = TRUE])
       \/ mode = "invalid" /\ Local(r, [proc[r] EXCEPT !.el = "returned"])

Run(r) ==
    /\ proc[r].el = "run"
    /\ \/ /\ mode = "disabled"
          /\ Local(r, [Started(proc[r]) EXCEPT !.el = "alone", !.lctx = TRUE])
       \/ mode = "enabled" /\ Local(r, [proc[r] EXCEPT !.el = "acquire"])
       \/ mode = "invalid" /\ Local(r, [proc[r] EXCEPT !.el = "returned"])

\* The elector of client-go gets the lease and launches OnStartedLeading ...
Acquire(r) ==
    /\ proc[r].el = "acquire" /\ proc[r].ctx
    /\ lease = None
    /\ lease' = r
    /\ proc' = [proc EXCEPT ![r] = [@ EXCEPT !.el = "lead", !.lctx = TRUE, !.cb = TRUE]]
    /\ UNCHANGED <<mode, faults>>

OnStartedLeading(r) ==
    /\ proc[r].cb
    /\ Local(r, [Started(proc[r]) EXCEPT !.cb = FALSE])

\* ... renews it until the leading context ends or a renewal misses its deadline ...
StopRenewing(r) ==
    /\ proc[r].el = "lead" /\ ~Leading(r)
    /\ Local(r, [proc[r] EXCEPT !.el = "release"])

RenewFails(r) ==
    /\ proc[r].el = "lead"
    /\ Faulty
    /\ proc' = [proc EXCEPT ![r].el = "release"]
    /\ UNCHANGED <<mode, lease>>

\* ... releases it (ReleaseOnCancel), and only then cancels the leading context.
Release(r) ==
    /\ proc[r].el = "release"
    /\ \/ lease' = (IF lease = r THEN None ELSE lease) /\ UNCHANGED faults
       \/ UNCHANGED lease /\ Faulty
    /\ proc' = [proc EXCEPT ![r].el = "cancel"]
    /\ UNCHANGED mode

CancelLeading(r) ==
    /\ \/ proc[r].el = "cancel"
       \/ proc[r].el = "acquire" /\ ~proc[r].ctx
    /\ Local(r, [proc[r] EXCEPT !.el = "stopped", !.lctx = FALSE])

\* Mutant of OnStoppedLeading: the application only resets the gauge.
OnStoppedStays(r) ==
    /\ \/ proc[r].el = "stopped"
       \/ proc[r].el = "alone" /\ ~proc[r].ctx
    /\ Local(r, [proc[r] EXCEPT !.el = "returned", !.isLeader = FALSE, !.gauge = FALSE])

\* Both OnStoppedLeading callbacks; the application's one ends the process.
OnStoppedLeading(r) ==
    /\ \/ proc[r].el = "stopped"
       \/ proc[r].el = "alone" /\ ~proc[r].ctx
    /\ Local(r, [Cancel(proc[r]) EXCEPT !.el = "returned", !.isLeader = FALSE,
                                        !.gauge = FALSE])

\* An error of Run ends the process too: an elector that could not be created,
\* or a lease that was lost with appCtx alive.
RunReturns(r) ==
    /\ proc[r].el = "returned"
    /\ Local(r, [Cancel(proc[r]) EXCEPT !.el = "off"])

\* A holder renews its lease well before it expires; one that stopped does not.
Expire ==
    /\ lease # None
    /\ lease \in Replicas => proc[lease].el # "lead"
    /\ lease' = None
    /\ UNCHANGED <<mode, proc, faults>>

-----------------------------------------------------------------------------
(* Controller.Start, in its own goroutine.                                 *)

\* WatchServices starts the informers if nobody has; if somebody has, it waits.
WatchServices(r) ==
    /\ proc[r].ctl = "watch" /\ proc[r].once = "no"
    /\ Local(r, [proc[r] EXCEPT !.once = "syncing", !.by = "lead"])

\* startOnce.Do has returned, and startErr is nil.
InformersReady(p) == p.once = "synced"

\* Watchers registered: workers, tickers and the initial SyncUpstreams run.
ControllerRuns(r) ==
    /\ proc[r].ctl = "watch" /\ InformersReady(proc[r])
    /\ Local(r, [proc[r] EXCEPT !.ctl = "run"])

\* startErr, or a handler refused because the informer has stopped already.
ControllerFails(r) ==
    /\ proc[r].ctl = "watch"
    /\ proc[r].once = "failed" \/ (proc[r].once = "synced" /\ ~CtxAlive(r))
    /\ Local(r, [proc[r] EXCEPT !.ctl = "failed"])

\* stop(): the queue is shut down.
ControllerStops(r) ==
    /\ proc[r].ctl = "run" /\ ~Leading(r)
    /\ Local(r, [proc[r] EXCEPT !.ctl = "stopped"])

-----------------------------------------------------------------------------
App(r) == \/ Start(r) \/ StartReturns(r) \/ Stop(r)
Informers(r) == StartInformers(r) \/ CacheSynced(r) \/ CacheSyncFails(r)
Elector(r) == \/ Run(r) \/ Acquire(r) \/ StopRenewing(r) \/ Release(r) \/ CancelLeading(r)
              \/ OnStoppedLeading(r) \/ RunReturns(r)
Control(r) == \/ WatchServices(r) \/ ControllerRuns(r) \/ ControllerFails(r)
              \/ ControllerStops(r)

Next == \/ \E r \in Replicas : \/ App(r) \/ Informers(r) \/ Elector(r) \/ OnStartedLeading(r)
                               \/ Control(r)
                               \/ Signal(r) \/ Crash(r) \/ RenewFails(r)
        \/ Expire

Spec == Init /\ [][Next]_vars

\* The kubelet restarts pods, leases expire, goroutines run; two candidates may
\* race for the lease for ever only if it is given up for ever.
Fairness == /\ WF_vars(Expire)
            /\ \A r \in Replicas : /\ WF_vars(App(r)) /\ WF_vars(Informers(r))
                                   /\ WF_vars(Elector(r)) /\ WF_vars(Control(r))
                                   /\ WF_vars(OnStartedLeading(r))

FairSpec == Spec /\ Fairness

-----------------------------------------------------------------------------
(* Properties.                                                             *)

ProcType == [main : {"down", "wait", "stop"}, ctx : BOOLEAN,
             once : {"no", "syncing", "synced", "failed"}, by : {"app", "lead"},
             el : {"off", "run", "acquire", "lead", "release", "cancel", "stopped",
                   "returned", "alone"},
             lctx : BOOLEAN, cb : BOOLEAN, isLeader : BOOLEAN, gauge : BOOLEAN,
             ctl : {"off", "watch", "run", "stopped", "failed"}]

\* Every variable keeps its type.
TypeOK == /\ mode \in Modes
          /\ proc \in [Replicas -> ProcType]
          /\ lease \in Replicas \cup {None, Dead}
          /\ faults \in 0..MaxFaults

\* The replica reconciles load balancers.
Syncing(r) == proc[r].ctl = "run" /\ Leading(r)

\* With leader election on, a replica reconciles only while it holds the lease,
\* but for the moment between the release after a failed renewal and the cancel
\* of the leading context: neither a signal, nor a crash, nor a callback that is
\* late lets a standby replica and the leader overlap.
OverlapOnlyAtRelease ==
    mode = "enabled" =>
        \A r \in Replicas : Syncing(r) => \/ lease = r
                                          \/ proc[r].el \in {"release", "cancel"}

\* mlb_is_leader, which combines what both callbacks set.
Reports(r) == proc[r].gauge \/ proc[r].isLeader

\* With leader election on, a replica reports itself the leader only while it holds
\* the lease, or while its elector is giving it up, or in a process that is ending:
\* OnStartedLeading runs in a goroutine of its own, and when it comes after
\* OnStoppedLeading nothing takes the report back any more.
ReportsLeading ==
    mode = "enabled" =>
        \A r \in Replicas : Reports(r) => \/ lease = r
                                          \/ proc[r].el \in {"release", "cancel", "stopped"}
                                          \/ ~proc[r].ctx

\* Once signals, crashes and API failures end, the system settles: with leader
\* election on, exactly one replica reconciles and reports itself the leader,
\* and it holds the lease; with it off, all of them do.
SettlesOnLeader ==
    /\ mode = "enabled" =>
         <>[](\E r \in Replicas : /\ lease = r
                                  /\ \A q \in Replicas : /\ Syncing(q) <=> q = r
                                                         /\ Reports(q) <=> q = r)
    /\ mode = "disabled" => <>[](\A r \in Replicas : Syncing(r) /\ Reports(r))

\* What /readyz answers: HasSynced, from when App.Start has wired it.
Ready(r) == proc[r].main # "down" /\ proc[r].once = "synced"

\* "Start informers immediately so cache warms up and /readyz becomes ready
\* across all replicas" (App.Start): once faults end, every replica is ready for
\* good, the standby ones too.  The error of informers whose context ended is
\* never cleared (startOnce), so a process that got it must not stay.
AllReady == mode # "invalid" => <>[](\A r \in Replicas : Ready(r))
=============================================================================
