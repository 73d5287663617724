# TLA+ models of mlb-controller

`mlb-controller` watches labelled Kubernetes Services, their Pods and Nodes, and
keeps the upstreams of external NGINX load balancers equal to the `nodeIP:hostPort`
backends of the ready pods. This directory models the parts in which several
goroutines, replicas and load balancers interact, checks them with TLC on small
instances and proves what matters most with TLAPS for all instances.
`PROJECT.json` maps every definition to the lines it models.

## Inventory

| Part | State it keeps | Operations | What is hard | What makes it correct |
|---|---|---|---|---|
| Reconciliation engine, `internal/controller/controller.go` | `state` (services, pods, upstreams), `lastKnownServices`, the rate limited work queue | one event loop, `RequestPoolSize` workers (`syncHandler`), one initial and one periodic `syncSingleLoadBalancer` per load balancer | events, workers and passes interleave at every unlock and at every call of Kubernetes or of a load balancer; old and new target of a relabelled service; services that share an upstream; retries; restarts | no change of a service is lost; what is served converges to what the cluster asks for; a failed lookup or an empty result never empties an upstream; a deletion drains; retries end |
| Kubernetes adapter, `internal/adapters/kubernetes/client.go` | informer caches, `startOnce`/`startErr` | watch handlers, mapping of objects, listers, `Start`, `HasSynced` | lost watches and tombstones; services that lose their labels; handlers that are registered late; full channels; two goroutines may start the informers | listers and events agree; every change arrives; nobody reads a cache that is not synced |
| NGINX adapter and client, `internal/adapters/loadbalancer/nginx` | listing cache per instance (2 s), request semaphore | `SyncUpstream`, `SyncAllUpstreams` (syncs, then prune), `refreshCache`, `doRequest` | calls of workers and passes overlap; the cache is filled outside the lock; attempts fail, are repeated, or are executed after nobody waits for them; the context ends | after a successful call the upstream is what was asked for; nothing else is written; no permit is lost; calls return |
| Leader election adapter, `internal/adapters/leaderelection` | `isLeader` | `Run`, `OnStartedLeading`, `OnStoppedLeading` | lease expiry, failed renewals, callbacks that come late | one replica reconciles at a time, and only it reports to lead |
| Application and main, `internal/application`, `cmd/mlb-controller` | `appCtx`, the leading context | `Start`, `Stop`, signals | the order in which contexts end; the process does not wait for its goroutines | a replica that lost the lease ends and comes back; all replicas become ready |
| Configuration: loader, defaults, validators, certificates, DI (`internal/adapters/config`, `internal/domain/config`, `internal/adapters/validator`, `internal/adapters/certificate`, `internal/di`, factory) | the `Config`, the adapters by name | `Load`, `ApplyDefaultValues`, `Validate`, `NewContainer` | defaults of defaults before validation; certificate files are read twice while they may be replaced; values that other code takes for granted | a process that runs has values the rest of the code can use; a sane file makes it run |
| IP replacement, `internal/util` | none | `ApplyIPReplacement`, `ValidateIPReplacementList` | networks of different lengths, four lists of rules, global groups | a valid configuration rewrites an address in one way |
| Metrics, logging, domain models | none that a property is about | | I/O | not modelled, but for `mlb_is_leader`, `/readyz` and the fields of the domain models |

How they interact: `main` builds the container from the configuration and starts
`App`. The Kubernetes adapter calls the watch handlers, which feed the
channels of the event loop; the loop writes the registries and adds keys to the
queue; workers and periodic passes read listers and registries and call the load
balancer adapter of the target; the adapter talks HTTP to every NGINX instance of
that load balancer. The leader election adapter starts the controller in a
goroutine of its own and cancels its context; `App` starts the informers and the
election and stops when its context ends.

## Modules

| Module | Models | State and actions |
|---|---|---|
| `Controller` | the engine, with the Kubernetes adapter as the source of events and lookups | `svc`, `pod`, `node`: the caches; `*Events`: notifications not yet handled (one queue per object: the code orders events of one object only); `stServices`, `stPods`, `stUpstreams`, `lastKnown`; `dirty`, `processing`, `waiting`: the three sets of client-go's queue; `wk`, `sy`: the locals of workers and passes; `nginx`: what each load balancer serves; `cache`: the adapter's listing of it; `late`: requests given up on that may still be executed. One action per critical section or external call: `handleServiceEvent`/`handlePodEvent`/`handleNodeEvent` (under `processEvents`), `Get`, the steps of `syncHandler` (`GetService`, `ReadLast`, `Drain`, `HandOver`, `ForgetService`, `RecordService`, `BuildOwn`, `MergeShared`, and a call of the adapter: `PushList`, `PushStore`, `PushApply` or `PushFails`), `processNextItem`, the steps of `syncSingleLoadBalancer`, `Restart`; outside the process `CacheExpires` (two seconds pass) and `CarryOut` (a late request is executed) |
| `Engine` | what the event driven half promises | `now`, `known`, `todo`, `running` per key; `Change`, `Touch`, `Take`, `Learn`, `Succeed`, `Fail`, `Restart` |
| `Feed` | the Kubernetes adapter between the API server and the event loop | `api`; per kind the reflector (`conn`), its `deltas`, the `handlers`, the handler calls that wait (`notes`) and the channel (`events`); `cache`, `seen`. `ChangeObject`, `BreakWatch`, `Relist`, `HandleDeltas` are the API server and client-go; `Start`, `WatchServices`/`WatchPods`/`WatchNodes`, `Send`, `processEvents` are the code |
| `Watch` | what the engine assumes of the Kubernetes port | `view` (listers), `stream` (the events of each kind, in order), `seen` |
| `NginxAdapter` | the adapter of one load balancer with all its instances, and `doRequest` | `server`, `cache`, `held` (permits), `call` and `job` (the goroutines, with the request under way and its attempts), `late` (attempts that may still be executed), `ctx` |
| `LoadBalancer` | what the load balancer port promises | `served`, `ask` (open calls), `late` |
| `Lifecycle` | replicas: main, App, elector, informers, controller goroutine | `proc[r]`, `lease`, `mode` (election on, off, or durations that the elector refuses) |
| `Config` | from the file to the container: `ReadInConfig`, the certificates of each load balancer (`ValidateCert`, `ValidateCertKey`, `LoadCert`, `LoadKey`, one step per file), `Validate` (defaults, then all validators), `NewContainer` | `file`, `disk` (certificate files), `proc`; the operator edits and writes (`EditGlobal`, `EditLB`, `AddRule`, `WriteFile`) |
| `IPRewrite` | rule application and validation, as operators that `Config` uses: an address is `Width` bits, a network a prefix of them (`Width` is 32 or 128 in the code) | |
| `MCController`, `MCNginxAdapter`, `MCLifecycle`, `MCConfig`, `MCFeed` | instances for TLC | definitions the `.cfg` files give to constants |
| `ControllerProofs`, `RegistryProofs`, `FailStaticProofs`, `ConvergenceProofs` | theorems about `Controller`, each module extending an earlier one | |
| `FeedProofs`, `NginxAdapterProofs`, `LifecycleProofs`, `ConfigProofs` | theorems about the module of the name | |

Three refinements tie the parts together:

- `Feed` implements `Watch` (`WatchRefined`): an entry of a lister changes only
  together with one event for it, a `Delete` carries what was announced last, and
  nothing is lost while the context lives. These are the notices by which
  `Controller` changes its caches (`ServiceNotice`, `ObjectNotice`; `GainLabels`
  is `MayGain`).
- `Controller`, without passes, implements `Engine` (`EngineRefined`): a key is due
  while an event, the queue or a backoff holds it; `known` is `lastKnownServices`.
  A worker that reports success knows what the lister holds or leaves the key
  due. `EngineServes` is the fairness of `Engine`: what is due is taken and ends.
- `NginxAdapter` implements `LoadBalancer` (`PortRefined`): from its start to its
  return a call writes only upstreams and weights it was asked for, and what a lost
  attempt does later is one of these writes. `Controller`'s calls (`PushList` to
  `PushApply` or `PushFails`) are such calls: a failed one has written any part of its
  differences, and attempts of the others may be executed later (`late`, where
  `Stragglers` is on).

Abstractions of `Controller`:

- Backends are functions from `<<IP, port>>` to weight, 0 for absent. `mergeBackends`
  adds weights, which is what the code's map does.
- The loop of `handlePodEvent` over its lock sections, and the loop in
  `syncUpstreamsForService` that builds the other services of the upstream, are one
  step each. The own service is built in a step before that one.
- A load balancer is one instance, with one cached listing for all its upstreams.
  `refreshCache` is as in the code: it answers from the cache, or fetches and stores
  in two steps, so that a listing may be stored after the write that outdates it. The
  requests of a call and the invalidation after them are one step (`NginxAdapter` has
  them one by one); a pass whose listing fails is a call none of whose requests is
  executed, since it goes on to the next upstream in either case.
- `state.Nodes` is left out: only its own handler reads it.
- Listers can fail in the model because the port's interface returns an error; a
  pass whose `ListServices` fails does nothing and is no step.
- A default backend with an empty IP does not pass the validator (`Config`) and is
  left out.
- Which node address a load balancer gets (`Rewrite`) is the constant
  `IPReplacement`; how it is computed is `IPRewrite`.
- Services with an empty label, which the assumptions allow, are in no run: the
  theorems of the type, the registries and `Engine` cover them, `Settled` does not.

Abstractions of the others:

- `NginxAdapter`: path building, the parser of the listing, the flat listing without
  upstream names (`nginx.go:135-138`) and canonical address text are left out. The
  attempts of a write are steps of their own, those of the listing (which changes
  nothing) are one.
- `Lifecycle`: the metrics server does not fail to start (the adapter never returns
  an error), and a holder's lease expires for others only after it stopped renewing
  (the elector insists on RenewDeadline < LeaseDuration).
- `Config`: a file that is read has the right types; an override by an environment
  variable is a value of the file; host names, addresses and API paths are good, bad
  or absent; the file is read once, so it is edited while the process is down. The
  choice of the path (`main.go:26-37`) is not modelled. Expiry is a content of the
  file and not of the clock, and only of certificates: a CA is taken if it parses.
- `IPRewrite` has one address family, and one rule to a global group. Single
  addresses, which the code compares as text (`ip_replacement.go:15`), are compared
  as addresses.
- `Feed`: an object is what the adapter looks at; the periodic resync, which repeats
  an `Update`, is in `Controller` (`ResyncService`).

## Runs

| Run | Instance | What it shows |
|---|---|---|
| `reactive_shared` | two services on one upstream, a pod relabelled between them, a node with two addresses, redelivery, a default backend, 3 changes, 1 fault, one worker, no pass | `TypeOK`, `RegistryAgrees`, `QuietConverged`, `QuietStateMatches`: when the event driven half runs out of work, load balancer, state and registries agree with the cluster (under `CalmSpec`) |
| `reactive_moving` | two workers, a service that moves between upstreams and one of an unknown load balancer, both may gain their labels by an update, no pods, a fault, a restart | `OneWorkerPerKey`, `RegistryAgrees`, `EngineRefined`, `EngineServes`; `RetriesEnd`: only the keys of the unknown load balancer stay in the queue |
| `safety_net` | `allow_empty_upstream` off, two pods on two nodes, 5 changes, under `CalmSpec` | `PushKeepsSome`: the event driven half never takes the last backend of a live service; `QuietConverged`, which for an upstream that the net keeps says that it serves what the last sync pushed |
| `reconcile` | one worker and one pass over an upstream of two services and its cached listing, a port that may be invalid, a node that may go, a fault whose requests may be executed late, prune on | `EventuallyConverged`: every race is repaired; `FailStatic`: a pass with a failed lookup leaves the upstream alone; `RetriesEnd`: only keys that cannot succeed stay in the queue |
| `nginx_one_call` | one caller, two upstreams, two addresses, inputs with duplicates, two failed attempts of two | `TypeOK`, `SyncEnsures`, `KeepsServing` |
| `nginx_calls` | two overlapping calls, one permit, two failed attempts, one of them executed though nobody got the answer, at once or later; the context may end | `PoolBound`, `CallsReturn`, `OnlyAsked`, `PortRefined` |
| `lifecycle` | two replicas, all modes, two faults | `OverlapOnlyAtRelease`, `ReportsLeading`, `SettlesOnLeader`, `AllReady` |
| `config` | five files (none, one, two load balancers, https, rules, everything switched on), each field with the values around its edges, each certificate file missing, empty, garbage, of another pair, expired, ...; two edits, writes, stops or failures anywhere; 3 bit addresses | `RunsSafely`, `PairMatches`, `RulesUnambiguous`, `SaneBoots` |
| `feed` | a service that is managed or not, a terminating pod, a node; channels of one event; two changes and one lost watch | `ReplicaFollows`, `FeedSettles`, `WatchRefined` |
| `ghost` | a deletion races a pass, prune off | violates `DeletedDrained` |
| `emptied` | a worker and a pass while pods are replaced, `allow_empty_upstream` off | violates `PushKeepsSome` |
| `nginx_stale_cache` | two calls, no fault | violates `SyncEnsures` |

Bounds. `MaxChanges`, `MaxFaults`, `MaxRestarts`, `MaxCalls`, `MaxLate` and `MaxBreaks`
only limit the environment. Two services, because an upstream is shared by two as
soon as by many; two or three changes, because the hazards are "changed again while
being handled" and "moved there and back"; one fault, placed anywhere, because a
second one meets the retry in the same state. `Attempts` is 2 where attempts fail,
so that they run out. In `config` two changes are enough for two rules, for a bad
value that hides another, and for a certificate and a key that are replaced one
after the other. In `feed` a channel of one event is full as soon as two are on
their way, and two changes with a lost watch are "deleted and created again
unseen". `CHECK_DEADLOCK FALSE` is set where the environment's bounds, or the
missing passes of `ReactiveSpec`, let everything come to rest; in `reconcile` and
`ghost` the system must never stop, and deadlock is checked.

`ReactiveSpec` is `Spec` without the periodic pass. What the event driven half does
alone is stated there, because a pass may overwrite the registries with an older
list; what both do together is `EventuallyConverged`. `CalmSpec` is `ReactiveSpec` in a
cluster where a service comes back only after its deletion was dealt with
(`ReturnsSettled`). Without that, `QuietConverged` fails after five changes:
`a`, which shares its upstream with `b`, is deleted; while its worker is between the
drain and `ForgetService`, `a` comes back and the event loop remembers it; the worker
then forgets the new entry with the old one; the sync of `b` merges the backends of
`a`; `a` is deleted again, and its sync finds neither a service nor a last known
object and does nothing. This is the code's behaviour (`controller.go:159-169`, 276),
it needs two deletions within one sync, and a pass repairs it (`EventuallyConverged`
assumes nothing of the kind).

Fairness. The event loop, the workers and the tickers run until the process ends,
so their steps are weakly fair. client-go's queue is first in, first out, so `Get` of
a queued key is strongly fair: other keys cannot overtake it for ever. The weighted
semaphore serves its waiters in order, hence strong fairness of `Acquire`. In
`Lifecycle` the kubelet restarts processes, leases expire and goroutines run; in
`Config` the kubelet restarts the process and nothing in `NewContainer` waits; in
`Feed` a reflector that lost its watch lists again and the handlers' goroutines run. A
cached listing expires because time passes (`CacheExpires`).
Nothing is assumed of the cluster, of operators, of faults, or of late requests.

## What the code does differently from what is written

Shown by a run:

- `ghost`: a pass pushes services it listed before their deletion was drained
  (`controller.go:684`); without prune nothing removes them. README: "Deleting a
  Service from Kubernetes always drains and removes its backends".
- `emptied`: two syncs of one upstream diff against the same listing
  (`nginx.go:126`), and their removals add up to an empty upstream.
- `nginx_stale_cache`: a listing fetched before a write is stored after the write's
  invalidation (`nginx.go:76`); the next `SyncUpstream` returns nil without writing.

Seen while modelling, and left to the exceptions of the properties:

- An unknown load balancer name is retried for ever (`controller.go:794`), also after
  the label was corrected, since the drain of the old name fails too (line 184);
  `.agent/rules/02-go-k8s-concurrency.md:25` asks for `Forget` on permanent
  validation errors. `RetriesEnd` excepts these keys (`Hopeless`).
- The deletion of one of two services of an upstream ends in the safety net when
  the other has no ready pod (`controller.go:228`); the backends stay, although
  `src/README.md:76` says that a deletion always drains. `QuietConverged` says of such
  an upstream that it serves what the last sync pushed, and nothing more.
- The listing cache is one per instance and not per upstream (`nginx.go:58-82`), so
  that workers on different upstreams of one load balancer disturb each other as in
  `nginx_stale_cache`. The theorems for several workers therefore ask for services
  that share no load balancer.
- `allow_empty_upstream: false` of a load balancer is overridden by a global `true`
  (`default.go:72-74`): the field is no pointer, and "not set" is not told from "false".
- A service deleted around a restart is in nobody's `lastKnownServices`
  (`controller.go:159`); without prune its backends stay.
- A service that is deleted, created and deleted again within one sync may leave its
  backends in a shared upstream until the next pass (`controller.go:166`): hence
  `CalmSpec`, see Runs.
- A failed addition does not stop the removals (`nginx.go:188-223`): hence
  `~addFailed` in `KeepsServing`, and `MaxFaults = 0` in `KeepsSome`.
- "Register event handlers synchronously before starting informers"
  (`controller.go:76`): `App.Start` has usually started them, and `WatchServices` starts
  them before the pods' and nodes' handlers are registered. It does no harm, because
  `AddEventHandler` replays the cache (`FeedSettles`).
- For a managed service the port of the spec (`client.go:360-365` of the Kubernetes
  adapter) is never used: `isMLBService` requires the label.
- Certificate and key that are both emptied between validation and reading give an
  https client without a certificate (`nginx/client.go:45`); `PairMatches` allows it.
- A load balancer without addresses is valid: its syncs succeed and do nothing.
- The elector also needs RenewDeadline > 1.2 RetryPeriod, which the validator does
  not ask for (`leader_election.go:33`): no property of `Config` speaks of these
  durations, and `Lifecycle` has the mode "invalid" for them.
- A prune request whose answer is lost does not mark the cache stale
  (`nginx.go:331`): `SyncEnsures` is checked without late requests.
- With `ReleaseOnCancel` the lease is released before the leading context ends
  (`kubernetes.go:107`): the exception of `OverlapOnlyAtRelease`.
- Rules apply in the order own addresses, global addresses, own networks, global
  networks; the comment of `ApplyIPReplacement` says "IPs > Nets > Global".
- "leader election lease lost" (`kubernetes.go:144`) is never returned:
  `OnStoppedLeading` has cancelled `appCtx` before. The replica ends and comes back
  as a new process.

## Proofs

All theorems hold for every value of the constants that the named assumptions
allow: sets of any size (services, pods, nodes and the goroutines of the adapter
finite), any configuration, any bound. The assumptions say what the types of the
code, the validators or Kubernetes guarantee, such as that a pod names a node or none
(`PodsAssumption`) and that a file and its edits have the types of the
fields (`FilesAssumption`, `EditsAssumption`, `ContentsAssumption`). TLC evaluates
each on the instances of the runs.

| Theorem | Invariant it rests on |
|---|---|
| `TypeCorrect`: `Spec => []TypeOK` (`Controller`) | `TypeInv`: `TypeOK` with `WorkerOK` and `SyncerOK`, which say which locals are set at which step; without them a field such as `wk[w].to` may be `Absent` where it is used |
| `WorkersExclusive`: `Spec => []OneWorkerPerKey` | itself with `TypeInv`: `processing` is exactly the keys of busy workers |
| `RegistriesFollowLister`: `ReactiveSpec => []RegistryAgrees` | `RegistryInv`: the newest pending event of a service announces what the lister holds (`Announced`); a service that is gone and forgotten is not in `state.Services` (`NoGhost`); a worker whose key was not touched since holds the current object and, once past its record or forget step, the registries hold it too (`SyncInv`); one worker per key |
| `EngineImplemented`: `ReactiveSpec => EngineRefined` | `RegistryInv`, whose `SyncInv` at the end of `syncHandler` is the guard of `Succeed`; every action is mapped to one of `Engine` or to a stutter |
| `Converges`: `Settled` implies `CalmSpec => []QuietConverged` | `SettledInv`: `ConvergenceInv`, below, with `StateInv`, `ListInv` and, for services that share no load balancer, `OwnInv` |
| `StateMatches`: the same for `QuietStateMatches`, where every load balancer allows an empty upstream or has a default backend (`Netless`), or nothing fails | `SettledInv` |
| `FailsStatic`: `Spec => FailStatic` | `PassInv`: failed upstreams are preserved and desired, what is left to push is not preserved |
| `KeepsSome`: `AloneAndSafe` implies `ReactiveSpec => PushKeepsSome` | `KeepInv`: a worker about to write wants something unless an empty upstream is allowed, with `ListInv`: the cached listing, and the one a worker holds, is what the load balancer serves now; with `Unshared` also `OwnInv`: every object, event and target in a worker's hands is one of its own service, so that no two workers are at one load balancer |
| `FollowsSafe`, `WatchImplemented`: `Spec => []ReplicaFollows`, `Spec => WatchRefined` (`Feed`) | `FeedInv` (`FeedSafe`): the deltas of a kind lead from the cache to what the API server holds, the pending handler calls and the channel lead from the engine's copy to the listers, and a `Delete` carries what was announced last; every step is mapped to one of `Watch` or to a stutter |
| `AdapterTypes`, `PoolNeverExceeded`, `WritesOnlyAsked` (`NginxAdapter`) | `AdapterInv`: `TypeOK`, `PoolBound`, and `Asked`: planned additions and removals of a goroutine are differences between what its call wants and something listed, only in upstreams its call may write |
| `PortImplemented`: `Spec => PortRefined` (`NginxAdapter`) | `AdapterInv`, with what a call in its prune stage and a bulk call between two upstreams may still write; every step is mapped to `Open`, `Write`, `Delay`, `CarryOut`, `Close` or a stutter |
| `OverlapBounded`, `ReportsBounded`: `Spec => []OverlapOnlyAtRelease`, `[]ReportsLeading` (`Lifecycle`) | `LifecycleInv`: per process, who leads holds the lease, and in HA mode a leading context is alive only between acquisition and cancel |
| `RunsSafe`, `PairSafe`: `Spec => []RunsSafely`, `[]PairMatches` (`Config`) | `BootInv` (`BootSafe`): past each stage the process has what that stage established: the configuration is the file with defaults, all validators accepted it, each pair of contents read is one the client accepts |
| `RulesSafe`: `Spec => []RulesUnambiguous` (`Config`) | `BootInv`, and lemmas about `IPRewrite` for any width: the overlap test finds every two networks that share an address, so that the lists it accepts have at most one rule for an address, whatever their order |

`ConvergenceInv` says where every difference between an upstream and the cluster is
accounted for: a worker has the upstream in flight (`InFlight`); or one of its
services owes a sync, because an event, the queue, a backoff or a worker that has not
built it yet will bring one (`Owed`, `Due`, `Early`); or an event of a pod or node that
is still to be handled will put a service of the upstream into the queue (`Will`); or
it is served as asked. Around this it needs: an unhandled `Add` is the first news of a
service nobody has taken up (`AddInv`); the pending events of a pod lead from the
copy of the event loop to the lister, so that `Will` sees the old and the new selector
match (`PodInv`); objects stay with their service (`OwnObjects`); and what a worker holds
is what the listers hold unless a sync is owed (`WorkerInv`). That the merge of the
services of an upstream is the sum of what each contributes is a lemma
about cardinalities of unions. `StateInv` adds that, as long as nothing failed, an
upstream that no call is about to write serves what `state.Upstreams` says; it is what
`QuietConverged` claims of upstreams the safety net keeps.

`Settled` is the setting in which this is true:

- one worker, or services that share no load balancer (`Alone`). Several workers, which
  is the default `request_pool_size` of 10, overwrite each other on a shared upstream
  like the two syncs of `emptied`, and on two upstreams of one load balancer one of
  them may store a listing the other has outdated; only the pass repairs it;
- no request is executed after the client gave it up (`~Stragglers`);
- no restart and no `GainLabels`: a service that is deleted around a restart, or after
  an `Update` announced it and before its first sync, is not in `lastKnownServices`
  and is not drained;
- services that name an upstream, always the same, and have a valid port: a move, or
  a port of 0, can leave backends behind until a pass.

`Netless` excludes the safety net: once the net keeps an upstream, the retry of a call
that failed before does not write it, and `state.Upstreams` and the load balancer stay
apart. `AloneAndSafe` has no fault for the reason given above.

Only model-checked: liveness under fairness (`EventuallyConverged`, `RetriesEnd`,
`EngineServes`, `CallsReturn`, `SettlesOnLeader`, `AllReady`, `SaneBoots`, `FeedSettles`),
which the prover does not reach; and `SyncEnsures` and `KeepsServing` of the
NGINX adapter, whose inductive invariant is not written yet.

## Not modelled

Logging, counters, histograms and the HTTP server of the metrics (I/O); the text of
paths, addresses and listings; the values of the HTTP transport; the choice of the
configuration path; `GetState`, which copies; the Envoy adapter, which does not exist
yet. Two workers with two services of one upstream and changing pods are beyond the
state space of `reactive_shared`, and outside `Settled`; what they may leave behind is
repaired by the pass like the race of a worker and a pass in `reconcile`.

## Plan

1. Proofs: `KeepsServing` and `SyncEnsures` of `NginxAdapter` for one caller: the
   goroutine's plan is the difference of what its call wants and the listing, and
   the listing is what is served while nobody else writes.
2. Proofs: a weaker `Settled` for services that move, with the old target owed by the
   worker that drains it.
3. `reconcile` with two load balancers and a restart, where the state space allows it.
4. The flat listing of `SyncUpstream`.
