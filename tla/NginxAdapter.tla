---------------------------- MODULE NginxAdapter ----------------------------
(***************************************************************************)
(* The NGINX adapter of one load balancer                                  *)
(* (internal/adapters/loadbalancer/nginx): SyncUpstream and                *)
(* SyncAllUpstreams, called concurrently by the workers and the            *)
(* reconcilers of the controller, over all the NGINX instances (clients)   *)
(* of the load balancer, through a listing cache per client and a          *)
(* semaphore shared by all calls.                                          *)
(*                                                                         *)
(* A call is a slot k \in Calls; for each client it runs a goroutine       *)
(* job[k][c].  Backends are functions from addresses to weights, 0 for an  *)
(* address that is not there.                                              *)
(***************************************************************************)
EXTENDS Naturals, FiniteSets, Sequences

CONSTANTS
    Clients,        \* NGINX instances, by base URL
    Calls,          \* calls that may be in flight at the same time
    Ups, Addrs,     \* upstream names and canonical "ip:port" addresses
    Inputs,         \* backend lists a caller may pass: sequences of [addr, weight]
    PoolSize,       \* request_pool_size, the permits of the semaphore
    PruneOrphans,   \* prune_orphans
    MaxCalls,       \* bound on the number of calls
    Attempts,       \* maxRetries of doRequest, 3 in the code
    MaxFaults,      \* bound on the number of attempts that fail
    MaxLate,        \* bound on failed attempts the server executes nevertheless
    None            \* no cached listing; no upstream; no request under way

ASSUME PoolAssumption == PoolSize \in Nat \ {0} /\ IsFiniteSet(Calls \X Clients)
ASSUME InputsAssumption == Inputs \subseteq Seq([addr : Addrs, weight : Nat])
ASSUME AttemptsAssumption == Attempts \in Nat \ {0}
ASSUME NoneAssumption == None \notin [ups : SUBSET Ups, want : [Ups -> [Addrs -> Nat]]]
ASSUME LimitsAssumption == {MaxCalls, MaxFaults, MaxLate} \subseteq Nat

VARIABLES
    server,     \* server[c][u]: the backends NGINX instance c serves for u
    cache,      \* a.cache, with a.cacheExp: the listing while it is valid
    held,       \* permits of a.semaphore that are taken
    call,       \* the calls in flight
    job,        \* their goroutines, per client
    late,       \* requests that timed out and may still be executed
    ctx,        \* the context of the calls is alive (the replica leads)
    started, faults, lost   \* counters behind the bounds

vars == <<server, cache, held, call, job, late, ctx, started, faults, lost>>

Backends == [Addrs -> Nat]
Listings == [Ups -> Backends]
Empty == [x \in Addrs |-> 0]
Pairs == Ups \X Addrs

\* Duplicate backends of an input are added up, each with weight 1 at least: the
\* weight of an address is the number of units its entries i contribute.
Units(bs, i) == {i} \X (1..IF bs[i].weight < 1 THEN 1 ELSE bs[i].weight)
Aggregated(bs) ==
    [x \in Addrs |-> Cardinality(UNION {Units(bs, i) :
                                          i \in {j \in 1..Len(bs) : bs[j].addr = x}})]

NoJob == [pc |-> "off", list |-> [u \in Ups |-> Empty], adds |-> {}, rems |-> {},
          cur |-> None, tries |-> 0, changed |-> FALSE]
NoCall == [stage |-> "idle", bulk |-> FALSE, up |-> None, want |-> [u \in Ups |-> Empty],
           desired |-> {}, keep |-> {}, left |-> {}, err |-> FALSE, alone |-> FALSE,
           addFailed |-> FALSE]

Init ==
    /\ server \in [Clients -> [Ups -> {Aggregated(bs) : bs \in Inputs}]]
    /\ cache = [c \in Clients |-> None]
    /\ held = 0
    /\ call = [k \in Calls |-> NoCall]
    /\ job = [k \in Calls |-> [c \in Clients |-> NoJob]]
    /\ late = {} /\ ctx = TRUE
    /\ started = 0 /\ faults = 0 /\ lost = 0

-----------------------------------------------------------------------------
(* Calls.  alone records, for the properties, that nobody else wrote the   *)
(* upstream while the call was in flight.                                  *)

Writes(k, u) == \/ call[k].stage = "run" /\ call[k].up = u
                \/ call[k].stage = "prune" /\ u \notin call[k].desired

\* Goroutines on all clients, none of which has its permit yet.
Launched == [c \in Clients |-> [NoJob EXCEPT !.pc = "acquire"]]

\* A new writer of the upstreams in U: everyone who writes one of them, the
\* newcomer included, is no longer alone.
Joined(k, rec, U) ==
    [j \in Calls |->
       IF j = k THEN [rec EXCEPT !.alone = /\ late = {}
                                           /\ \A i \in Calls \ {k} : ~\E u \in U : Writes(i, u)]
       ELSE IF \E u \in U : Writes(j, u) THEN [call[j] EXCEPT !.alone = FALSE]
       ELSE call[j]]

SyncUpstream(k, u, bs) ==
    /\ call[k].stage = "idle" /\ started < MaxCalls
    /\ call' = Joined(k, [NoCall EXCEPT !.stage = "run", !.up = u, !.desired = {u},
                                        !.want[u] = Aggregated(bs)], {u})
    /\ job' = [job EXCEPT ![k] = Launched]
    /\ started' = started + 1
    /\ UNCHANGED <<server, cache, held, late, ctx, faults, lost>>

\* Mutant of SyncAllUpstreams: PreserveExistingBackends is ignored.
SyncAllRegardless(k, desired, keep, f) ==
    /\ call[k].stage = "idle" /\ started < MaxCalls
    /\ call' = [call EXCEPT ![k] = [NoCall EXCEPT !.stage = "next", !.bulk = TRUE,
                    !.desired = desired, !.keep = keep, !.left = desired,
                    !.want = [u \in Ups |-> Aggregated(f[u])]]]
    /\ started' = started + 1
    /\ UNCHANGED <<server, cache, held, job, late, ctx, faults, lost>>

\* desiredUpstreams has the names of desired; those of keep have
\* PreserveExistingBackends set.
SyncAllUpstreams(k, desired, keep, f) ==
    /\ call[k].stage = "idle" /\ started < MaxCalls
    /\ call' = [call EXCEPT ![k] = [NoCall EXCEPT !.stage = "next", !.bulk = TRUE,
                    !.desired = desired, !.keep = keep, !.left = desired \ keep,
                    !.want = [u \in Ups |-> Aggregated(f[u])]]]
    /\ started' = started + 1
    /\ UNCHANGED <<server, cache, held, job, late, ctx, faults, lost>>

\* The bulk call syncs its upstreams one after the other ...
NextUpstream(k, u) ==
    /\ call[k].stage = "next" /\ u \in call[k].left
    /\ call' = Joined(k, [call[k] EXCEPT !.stage = "run", !.up = u, !.left = @ \ {u}], {u})
    /\ job' = [job EXCEPT ![k] = Launched]
    /\ UNCHANGED <<server, cache, held, late, ctx, started, faults, lost>>

\* ... and then looks for orphans, when that is enabled.
StartPrune(k) ==
    /\ call[k].stage = "next" /\ call[k].left = {}
    /\ IF PruneOrphans
       THEN /\ call' = Joined(k, [call[k] EXCEPT !.stage = "prune", !.up = None],
                              Ups \ call[k].desired)
            /\ job' = [job EXCEPT ![k] = Launched]
       ELSE call' = [call EXCEPT ![k] = NoCall] /\ UNCHANGED job
    /\ UNCHANGED <<server, cache, held, late, ctx, started, faults, lost>>

\* wg.Wait() is over: SyncUpstream returns, or the prune ends the bulk call.
Return(k) ==
    /\ call[k].stage \in {"run", "prune"}
    /\ \A c \in Clients : job[k][c].pc = "done"
    /\ call' = [call EXCEPT ![k] = IF @.stage = "run" /\ @.bulk
                                   THEN [@ EXCEPT !.stage = "next", !.up = None,
                                                  !.addFailed = FALSE]
                                   ELSE NoCall]
    /\ job' = [job EXCEPT ![k] = [c \in Clients |-> NoJob]]
    /\ UNCHANGED <<server, cache, held, late, ctx, started, faults, lost>>

-----------------------------------------------------------------------------
(* The goroutine of call k on client c.                                    *)

AttemptFaulty == ctx /\ faults < MaxFaults /\ faults' = faults + 1

Acquire(k, c) ==
    /\ job[k][c].pc = "acquire"
    /\ held < PoolSize
    /\ held' = held + 1
    /\ job' = [job EXCEPT ![k][c].pc = "lookup"]
    /\ UNCHANGED <<server, cache, call, late, ctx, started, faults, lost>>

\* Mutant of AcquireFails: the deferred Release runs without a permit.
AcquireFailsReleases(k, c) ==
    /\ job[k][c].pc = "acquire" /\ ~ctx
    /\ held' = IF held = 0 THEN 0 ELSE held - 1
    /\ job' = [job EXCEPT ![k][c].pc = "done"]
    /\ call' = [call EXCEPT ![k].err = TRUE]
    /\ UNCHANGED <<server, cache, late, ctx, started, faults, lost>>

\* The context ends while the goroutine waits for its permit.
AcquireFails(k, c) ==
    /\ job[k][c].pc = "acquire" /\ ~ctx
    /\ job' = [job EXCEPT ![k][c].pc = "done"]
    /\ call' = [call EXCEPT ![k].err = TRUE]
    /\ UNCHANGED <<server, cache, held, late, ctx, started, faults, lost>>

\* The requests that make list what call k wants: for SyncUpstream the
\* differences of one upstream, for the prune every backend of an orphan.
ToAdd(k, list) ==
    {p \in Pairs : /\ call[k].stage = "run" /\ p[1] = call[k].up
                   /\ call[k].want[p[1]][p[2]] # 0
                   /\ call[k].want[p[1]][p[2]] # list[p[1]][p[2]]}
\* Mutant of ToRemove: the prune does not look at the desired upstreams.
ToRemoveAll(k, list) ==
    {p \in Pairs : /\ list[p[1]][p[2]] # 0
                   /\ call[k].stage = "run" =>
                        p[1] = call[k].up /\ call[k].want[p[1]][p[2]] = 0}

ToRemove(k, list) ==
    {p \in Pairs : /\ list[p[1]][p[2]] # 0
                   /\ IF call[k].stage = "run"
                      THEN p[1] = call[k].up /\ call[k].want[p[1]][p[2]] = 0
                      ELSE p[1] \notin call[k].desired}

\* SyncUpstream marks the cache stale as soon as there is a difference; the
\* prune only when a removal has succeeded.
Planned(k, list) ==
    [NoJob EXCEPT !.pc = "write", !.adds = ToAdd(k, list), !.rems = ToRemove(k, list),
                  !.changed = call[k].stage = "run" /\ ToAdd(k, list) \cup ToRemove(k, list) # {}]

\* refreshCache: a valid entry is used without asking the server.
CacheHit(k, c) ==
    /\ job[k][c].pc = "lookup" /\ cache[c] # None
    /\ job' = [job EXCEPT ![k][c] = Planned(k, cache[c])]
    /\ UNCHANGED <<server, cache, held, call, late, ctx, started, faults, lost>>

\* Otherwise it lists the server, with no lock held ...
CacheFetch(k, c) ==
    /\ job[k][c].pc = "lookup" /\ cache[c] = None /\ ctx
    /\ job' = [job EXCEPT ![k][c] = [@ EXCEPT !.pc = "store", !.list = server[c]]]
    /\ UNCHANGED <<server, cache, held, call, late, ctx, started, faults, lost>>

\* ... and stores what it got, whatever happened in between.
CacheStore(k, c) ==
    /\ job[k][c].pc = "store"
    /\ cache' = [cache EXCEPT ![c] = job[k][c].list]
    /\ job' = [job EXCEPT ![k][c] = Planned(k, @.list)]
    /\ UNCHANGED <<server, held, call, late, ctx, started, faults, lost>>

\* Mutant of Released: the permit is never given back.
ReleasedNever == held

\* The permit of a goroutine that ends is given back.
Released == held - 1

FetchFails(k, c) ==
    /\ job[k][c].pc = "lookup" /\ cache[c] = None
    /\ AttemptFaulty \/ (~ctx /\ UNCHANGED faults)
    /\ held' = Released
    /\ job' = [job EXCEPT ![k][c] = [NoJob EXCEPT !.pc = "done"]]
    /\ call' = [call EXCEPT ![k].err = TRUE]
    /\ UNCHANGED <<server, cache, late, ctx, started, lost>>

\* The weight a request of call k gives to pair p: 0 for a removal.
Sent(k, p, adding) == IF adding THEN call[k].want[p[1]][p[2]] ELSE 0

\* Mutant of Sendable: removals come first.
SendableRemovals(k, c) == IF job[k][c].rems # {} THEN job[k][c].rems ELSE job[k][c].adds

\* The requests that may be sent next: all additions come before the removals.
Sendable(k, c) == IF job[k][c].adds # {} THEN job[k][c].adds ELSE job[k][c].rems

\* doRequest returns: the goroutine goes on to its next request.
AfterRequest(k, c, p) ==
    [job[k][c] EXCEPT !.adds = @ \ {p}, !.rems = @ \ {p}, !.cur = None, !.tries = 0]

\* An attempt of doRequest at p, which is the same until doRequest returns.
Attempt(k, c, p) == /\ job[k][c].pc = "write" /\ p \in Sendable(k, c)
                    /\ job[k][c].tries # 0 => p = job[k][c].cur
\* Mutant of LastAttempt: one attempt too many.
OneMoreAttempt(k, c) == job[k][c].tries = Attempts

LastAttempt(k, c) == job[k][c].tries + 1 = Attempts

Weight(k, c, p) == Sent(k, p, job[k][c].adds # {})
Executes(k, c, p) == server' = [server EXCEPT ![c][p[1]][p[2]] = Weight(k, c, p)]

\* An attempt without a status 200: NGINX does nothing, executes the request
\* although its answer is lost, or executes it later.
Ignored == UNCHANGED <<server, late, lost>>
AnswerLost(k, c, p) == /\ lost < MaxLate /\ lost' = lost + 1
                       /\ Executes(k, c, p) /\ UNCHANGED late
Delayed(k, c, p) == /\ lost < MaxLate /\ lost' = lost + 1
                    /\ late' = late \cup {<<c, p, Weight(k, c, p)>>} /\ UNCHANGED server
Unanswered(k, c, p) == Ignored \/ AnswerLost(k, c, p) \/ Delayed(k, c, p)

\* An attempt gets status 200.
RequestOK(k, c, p) ==
    /\ ctx /\ Attempt(k, c, p)
    /\ Executes(k, c, p)
    /\ job' = [job EXCEPT ![k][c] = [AfterRequest(k, c, p) EXCEPT !.changed = TRUE]]
    /\ UNCHANGED <<cache, held, call, late, ctx, started, faults, lost>>

\* No answer, a server error or 429: doRequest backs off and tries again.
RequestRetried(k, c, p) ==
    /\ Attempt(k, c, p) /\ ~LastAttempt(k, c)
    /\ AttemptFaulty /\ Unanswered(k, c, p)
    /\ job' = [job EXCEPT ![k][c] = [@ EXCEPT !.cur = p, !.tries = job[k][c].tries + 1]]
    /\ UNCHANGED <<cache, held, call, ctx, started>>

\* doRequest fails: a 4xx, a body that breaks off, the last attempt, or the end
\* of the context.  The error is recorded and the next request is sent.
RequestFails(k, c, p) ==
    /\ Attempt(k, c, p)
    /\ \/ AttemptFaulty /\ ~LastAttempt(k, c) /\ (Ignored \/ AnswerLost(k, c, p))
       \/ AttemptFaulty /\ LastAttempt(k, c) /\ Unanswered(k, c, p)
       \/ ~ctx /\ Unanswered(k, c, p) /\ UNCHANGED faults
    /\ job' = [job EXCEPT ![k][c] = AfterRequest(k, c, p)]
    /\ call' = [call EXCEPT ![k].err = TRUE,
                            ![k].addFailed = @ \/ job[k][c].adds # {}]
    /\ UNCHANGED <<cache, held, ctx, started>>

\* A request whose answer never came is executed after all.
LateRequest(r) ==
    /\ r \in late
    /\ server' = [server EXCEPT ![r[1]][r[2][1]][r[2][2]] = r[3]]
    /\ late' = late \ {r}
    /\ UNCHANGED <<cache, held, call, job, ctx, started, faults, lost>>

\* Mutant of Finish: the cache is left as it is.
FinishStale(k, c) ==
    /\ job[k][c].pc = "write" /\ job[k][c].adds = {} /\ job[k][c].rems = {}
    /\ held' = Released
    /\ job' = [job EXCEPT ![k][c] = [NoJob EXCEPT !.pc = "done"]]
    /\ UNCHANGED <<server, cache, call, late, ctx, started, faults, lost>>

\* The last step of a goroutine invalidates the cache of its client.
Finish(k, c) ==
    /\ job[k][c].pc = "write" /\ job[k][c].adds = {} /\ job[k][c].rems = {}
    /\ cache' = [cache EXCEPT ![c] = IF job[k][c].changed THEN None ELSE @]
    /\ held' = Released
    /\ job' = [job EXCEPT ![k][c] = [NoJob EXCEPT !.pc = "done"]]
    /\ UNCHANGED <<server, call, late, ctx, started, faults, lost>>

\* Two seconds have passed since the listing was stored.
Expire(c) ==
    /\ cache[c] # None
    /\ cache' = [cache EXCEPT ![c] = None]
    /\ UNCHANGED <<server, held, call, job, late, ctx, started, faults, lost>>

\* The replica stops leading.
CtxEnds ==
    /\ ctx /\ ctx' = FALSE
    /\ UNCHANGED <<server, cache, held, call, job, late, started, faults, lost>>

-----------------------------------------------------------------------------
Goroutine(k, c) ==
    \/ AcquireFails(k, c)
    \/ CacheHit(k, c) \/ CacheFetch(k, c) \/ CacheStore(k, c) \/ FetchFails(k, c)
    \/ \E p \in Pairs : RequestOK(k, c, p) \/ RequestRetried(k, c, p) \/ RequestFails(k, c, p)
    \/ Finish(k, c)

Caller(k) == \/ \E u \in Ups : NextUpstream(k, u)
             \/ StartPrune(k) \/ Return(k)

Start(k) ==
    \/ \E u \in Ups, bs \in Inputs : SyncUpstream(k, u, bs)
    \/ \E desired \in SUBSET Ups : \E keep \in SUBSET desired, f \in [desired -> Inputs] :
         SyncAllUpstreams(k, desired, keep, [u \in Ups |-> IF u \in desired THEN f[u] ELSE << >>])

Next == \/ \E k \in Calls : \/ Start(k) \/ Caller(k)
                            \/ \E c \in Clients : Acquire(k, c) \/ Goroutine(k, c)
        \/ \E r \in late : LateRequest(r)
        \/ \E c \in Clients : Expire(c)
        \/ CtxEnds

Spec == Init /\ [][Next]_vars

\* Goroutines run; the semaphore serves its waiters in order, so none starves.
Fairness == \A k \in Calls :
    /\ WF_vars(Caller(k))
    /\ \A c \in Clients : SF_vars(Acquire(k, c)) /\ WF_vars(Goroutine(k, c))

FairSpec == Spec /\ Fairness

-----------------------------------------------------------------------------
(* Properties.                                                             *)

Tries == 0..(Attempts - 1)
JobType == [pc : {"off", "acquire", "lookup", "store", "write", "done"}, list : Listings,
            adds : SUBSET Pairs, rems : SUBSET Pairs, cur : Pairs \cup {None},
            tries : Tries, changed : BOOLEAN]
CallType == [stage : {"idle", "next", "run", "prune"}, bulk : BOOLEAN, up : Ups \cup {None},
             want : Listings, desired : SUBSET Ups, keep : SUBSET Ups, left : SUBSET Ups,
             err : BOOLEAN, alone : BOOLEAN, addFailed : BOOLEAN]

\* Every variable keeps its type, the locals of the goroutines included.
TypeOK ==
    /\ server \in [Clients -> Listings]
    /\ cache \in [Clients -> Listings \cup {None}]
    /\ held \in Nat
    /\ call \in [Calls -> CallType]
    /\ job \in [Calls -> [Clients -> JobType]]
    /\ late \in SUBSET (Clients \X Pairs \X Nat)
    /\ ctx \in BOOLEAN
    /\ started \in 0..MaxCalls /\ faults \in 0..MaxFaults /\ lost \in 0..MaxLate

\* The goroutines that talk to NGINX.
Active == {kc \in Calls \X Clients : job[kc[1]][kc[2]].pc \in {"lookup", "store", "write"}}

\* At most request_pool_size goroutines of all the calls together talk to NGINX,
\* and every permit that is taken belongs to one that still will give it back:
\* no path, failed fetch included, loses or duplicates a permit.
PoolBound == held = Cardinality(Active) /\ held <= PoolSize

AskedChange ==
    \A c \in Clients, u \in Ups, x \in Addrs :
      server'[c][u][x] # server[c][u][x] =>
        \/ \E k \in Calls : /\ call[k].stage = "run" /\ call[k].up = u
                            /\ u \in call[k].desired \ call[k].keep
                            /\ server'[c][u][x] = call[k].want[u][x]
        \/ \E k \in Calls : /\ call[k].stage = "prune" /\ u \notin call[k].desired
                            /\ server'[c][u][x] = 0
        \/ <<c, <<u, x>>, server'[c][u][x]>> \in late

\* NGINX only ever changes the way a call in flight asks for: an address of an
\* upstream gets the weight of the call that syncs this very upstream, or loses
\* its backends to a prune whose desired state does not have the upstream.  A
\* preserved upstream (fail-static, safety net) is written by neither half of
\* SyncAllUpstreams, even when the cached listing is stale.
OnlyAsked == [][AskedChange]_vars

\* "SyncUpstream ensures the upstream matches the desired state" (the port's
\* comment): when it returns nil, and nobody else wrote this upstream during the
\* call, every NGINX instance serves exactly the desired backends.
SyncEnsures ==
    [][\A k \in Calls :
         LET u == call[k].up IN
           call[k].stage = "run" /\ call'[k].stage # "run" /\ ~call[k].err /\ call[k].alone
             => \A c \in Clients : server[c][u] = call[k].want[u]]_vars

\* While one call alone replaces the backends of an upstream by others, the
\* upstream is never without a backend, as long as no addition has failed.
KeepsServing ==
    [][\A k \in Calls, c \in Clients :
         LET u == call[k].up IN
           (/\ call[k].stage = "run" /\ call[k].alone /\ ~call[k].addFailed
            /\ call[k].want[u] # Empty /\ server[c][u] # Empty)
             => server'[c][u] # Empty]_vars

\* Every call returns: the bulk call holds no permit while its inner syncs wait
\* for theirs, so that calls cannot wait for each other, even with one permit.
CallsReturn == \A k \in Calls : call[k].stage # "idle" ~> call[k].stage = "idle"

-----------------------------------------------------------------------------
\* The upstreams that call k may write: its desired ones but for the preserved,
\* and with prune_orphans all those that are not desired.
Scope(k) == (call[k].desired \ call[k].keep)
              \cup IF call[k].bulk /\ PruneOrphans THEN Ups \ call[k].desired ELSE {}

\* What call k asks of the port.
Ask(k) == IF call[k].stage = "idle" THEN None
          ELSE [ups |-> Scope(k), want |-> call[k].want]

Port == INSTANCE LoadBalancer WITH
    Servers <- Clients, served <- server, ask <- [k \in Calls |-> Ask(k)]

\* The adapter keeps the contract of the port through its cached listings, its
\* semaphore and its retries: from the start to the end of a call, inner calls
\* and prune included, its requests are for upstreams and weights it was asked
\* for, preserved upstreams are left alone, and what an attempt that timed out
\* does later is one of these requests.
PortRefined == Port!Spec
=============================================================================
