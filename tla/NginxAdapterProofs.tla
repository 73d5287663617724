------------------------- MODULE NginxAdapterProofs -------------------------
(* Proofs about NginxAdapter.                                              *)
EXTENDS NginxAdapter, FiniteSetTheorems, SequenceTheorems, TLAPS

\* The weights of an input are natural numbers.
LEMMA AggregatedType == ASSUME NEW bs \in Seq([addr : Addrs, weight : Nat])
                        PROVE  Aggregated(bs) \in Backends
<1> SUFFICES ASSUME NEW x \in Addrs
             PROVE Cardinality(UNION {Units(bs, i) :
                                  i \in {j \in 1..Len(bs) : bs[j].addr = x}}) \in Nat
  BY DEF Aggregated, Backends
<1> DEFINE S == {j \in 1..Len(bs) : bs[j].addr = x}
           T == {Units(bs, i) : i \in S}
           f == [i \in S |-> Units(bs, i)]
<1>1. IsFiniteSet(S)
  <2>1. IsFiniteSet(1..Len(bs))
    BY FS_Interval
  <2> QED BY <2>1, FS_Subset
<1>2. IsFiniteSet(T)
  <2>1. f \in Surjection(S, T)
    BY DEF Surjection
  <2> QED BY <1>1, <2>1, FS_Surjection
<1>3. ASSUME NEW i \in S PROVE IsFiniteSet(Units(bs, i))
  <2> DEFINE n == IF bs[i].weight < 1 THEN 1 ELSE bs[i].weight
  <2>0. bs[i].weight \in Nat
    <3>1. i \in 1..Len(bs)
      OBVIOUS
    <3>2. bs[i] \in [addr : Addrs, weight : Nat]
      BY <3>1, ElementOfSeq
    <3> QED BY <3>2
  <2>1. n \in Int
    BY <2>0
  <2> HIDE DEF n
  <2>2. IsFiniteSet(1..n)
    BY <2>1, FS_Interval
  <2>3. IsFiniteSet({i})
    BY FS_Singleton
  <2>4. IsFiniteSet({i} \X (1..n))
    BY <2>2, <2>3, FS_Product
  <2> QED BY <2>4 DEF Units, n
<1>4. IsFiniteSet(UNION T)
  BY <1>2, <1>3, FS_UNION
<1> QED BY <1>4, FS_CardinalityType

\* No backends, for one upstream and for all of them.
LEMMA EmptyType == Empty \in Backends /\ [u \in Ups |-> Empty] \in Listings
BY DEF Empty, Backends, Listings

\* The attempts of doRequest are counted from 0, and stay below their number.
LEMMA TriesType == /\ 0 \in Tries
                   /\ \A t \in Tries : t + 1 # Attempts => t + 1 \in Tries
BY AttemptsAssumption DEF Tries

\* Goroutines and calls at rest are well typed.
LEMMA RestType == NoJob \in JobType /\ NoCall \in CallType
BY EmptyType, TriesType DEF NoJob, JobType, NoCall, CallType

\* NewNginxAdapter starts well typed.
LEMMA TypeInit == Init => TypeOK
<1> SUFFICES ASSUME Init PROVE TypeOK
  OBVIOUS
<1>1. \A bs \in Inputs : Aggregated(bs) \in Backends
  BY AggregatedType, InputsAssumption
<1>2. server \in [Clients -> Listings]
  BY <1>1 DEF Init, Listings
<1> QED BY <1>2, RestType, LimitsAssumption DEF Init, TypeOK

-----------------------------------------------------------------------------
(* The semaphore.  That a release never makes held negative is part of the  *)
(* type invariant, so the two are proved together.                          *)

Talking == {"lookup", "store", "write"}

\* Finitely many goroutines talk to NGINX: their number is a natural.
LEMMA ActiveFinite == IsFiniteSet(Active) /\ Cardinality(Active) \in Nat
BY PoolAssumption, FS_Subset, FS_CardinalityType DEF Active

\* A step that neither starts nor ends talking leaves the pool as it is.
LEMMA PoolSame ==
    ASSUME PoolBound, held' = held,
           \A k \in Calls, c \in Clients : job'[k][c].pc \in Talking <=> job[k][c].pc \in Talking
    PROVE  PoolBound'
<1>1. Active' = Active
  BY DEF Active, Talking
<1> QED BY <1>1 DEF PoolBound

\* Acquire adds the goroutine and takes a permit.
LEMMA PoolTake ==
    ASSUME TypeOK, PoolBound, NEW k \in Calls, NEW c \in Clients, Acquire(k, c)
    PROVE  PoolBound' /\ held' \in Nat
<1> DEFINE kc == <<k, c>>
<1>1. Active' = Active \cup {kc} /\ kc \notin Active
  BY DEF Acquire, Active, TypeOK, JobType
<1>2. Cardinality(Active \cup {kc}) = Cardinality(Active) + 1
  BY <1>1, ActiveFinite, FS_AddElement
<1> QED BY <1>1, <1>2, ActiveFinite, PoolAssumption DEF Acquire, PoolBound, TypeOK

\* A goroutine that ends gives back a permit it had.
LEMMA PoolGive ==
    ASSUME TypeOK, PoolBound, NEW k \in Calls, NEW c \in Clients, job[k][c].pc \in Talking,
           held' = Released, job' = [job EXCEPT ![k][c] = [NoJob EXCEPT !.pc = "done"]]
    PROVE  PoolBound' /\ held' \in Nat
<1> DEFINE kc == <<k, c>>
<1>1. Active' = Active \ {kc} /\ kc \in Active
  BY DEF Active, Talking, TypeOK, NoJob
<1>2. Cardinality(Active \ {kc}) = Cardinality(Active) - 1
  BY <1>1, ActiveFinite, FS_RemoveElement
<1>3. Cardinality(Active \ {kc}) \in Nat
  BY ActiveFinite, FS_RemoveElement, FS_CardinalityType
<1> QED BY <1>1, <1>2, <1>3, PoolAssumption DEF PoolBound, Released, TypeOK

-----------------------------------------------------------------------------
(* Types of what the calls and goroutines write.                            *)

\* Noting who is no longer alone keeps the type of the calls.
LEMMA JoinedType ==
    ASSUME TypeOK, NEW k \in Calls, NEW rec \in CallType, NEW U
    PROVE  Joined(k, rec, U) \in [Calls -> CallType]
<1> DEFINE a == /\ late = {}
                /\ \A i \in Calls \ {k} : ~\E u \in U : Writes(i, u)
<1>1. [rec EXCEPT !.alone = a] \in CallType
  <2>1. a \in BOOLEAN
    OBVIOUS
  <2> HIDE DEF a
  <2> QED BY <2>1 DEF CallType
<1>2. \A j \in Calls : call[j] \in CallType /\ [call[j] EXCEPT !.alone = FALSE] \in CallType
  BY DEF TypeOK, CallType
<1> QED BY <1>1, <1>2 DEF Joined

\* Goroutines that have just been launched are well typed.
LEMMA LaunchedType == Launched \in [Clients -> JobType]
BY EmptyType, TriesType DEF Launched, NoJob, JobType

\* A goroutine that has computed its requests is well typed.
LEMMA PlannedType == ASSUME NEW k, NEW list PROVE Planned(k, list) \in JobType
<1> DEFINE a == ToAdd(k, list)
           r == ToRemove(k, list)
           b == call[k].stage = "run" /\ a \cup r # {}
<1>1. a \in SUBSET Pairs /\ r \in SUBSET Pairs /\ b \in BOOLEAN
  BY DEF ToAdd, ToRemove
<1> HIDE DEF a, r, b
<1>2. [NoJob EXCEPT !.pc = "write", !.adds = a, !.rems = r, !.changed = b] \in JobType
  BY <1>1, RestType DEF JobType
<1> QED BY <1>2 DEF Planned, a, r, b

-----------------------------------------------------------------------------
(* The inductive invariant: the requests a goroutine still has to send are  *)
(* ones its call asks for, although the listing they come from may be old.  *)

CallAsks(x) ==
    /\ x.stage \in {"next", "run"} => x.left \subseteq x.desired \ x.keep
    /\ x.stage = "run" => x.up \in x.desired \ x.keep

JobAsks(x, j) ==
    /\ j.pc \notin {"off", "done"} => x.stage \in {"run", "prune"}
    /\ j.pc # "write" => j.adds = {} /\ j.rems = {}
    /\ \A p \in j.adds : x.stage = "run" /\ p[1] = x.up
    /\ \A p \in j.rems : IF x.stage = "run" THEN p[1] = x.up /\ x.want[p[1]][p[2]] = 0
                         ELSE p[1] \notin x.desired

Asked == \A k \in Calls : /\ CallAsks(call[k])
                          /\ \A c \in Clients : JobAsks(call[k], job[k][c])

AdapterInv == TypeOK /\ PoolBound /\ Asked

\* Initially no permit is taken and no request is planned.
LEMMA AdapterInit == Init => AdapterInv
<1> SUFFICES ASSUME Init PROVE AdapterInv
  OBVIOUS
<1>1. TypeOK
  BY TypeInit
<1>2. Active = {}
  BY DEF Init, Active, NoJob
<1>3. PoolBound
  BY <1>2, FS_EmptySet, PoolAssumption DEF Init, PoolBound
<1>4. Asked
  BY DEF Init, Asked, CallAsks, JobAsks, NoCall, NoJob
<1> QED BY <1>1, <1>3, <1>4 DEF AdapterInv

\* A step of one goroutine, which may record an error in its call.
SameAim(x, y) == /\ x.stage = y.stage /\ x.up = y.up /\ x.want = y.want
                 /\ x.desired = y.desired /\ x.keep = y.keep /\ x.left = y.left

\* A step of one goroutine that keeps what its call asks for keeps it for all.
LEMMA AimKept ==
    ASSUME Asked, NEW k \in Calls, NEW c \in Clients, NEW rec,
           job \in [Calls -> [Clients -> JobType]], job' = [job EXCEPT ![k][c] = rec],
           \A j \in Calls : SameAim(call'[j], call[j]), JobAsks(call[k], rec)
    PROVE  Asked'
<1>1. /\ job'[k][c] = rec
      /\ \A j \in Calls, d \in Clients : <<j, d>> # <<k, c>> => job'[j][d] = job[j][d]
  OBVIOUS
<1>2. \A j \in Calls : CallAsks(call'[j])
  BY DEF Asked, CallAsks, SameAim
<1>3. ASSUME NEW j \in Calls, NEW d \in Clients PROVE JobAsks(call'[j], job'[j][d])
  <2>1. JobAsks(call[j], job'[j][d])
    BY <1>1 DEF Asked
  <2> QED BY <2>1 DEF JobAsks, SameAim
<1> QED BY <1>2, <1>3 DEF Asked

\* A call has the same aim as itself.
LEMMA AimSame == ASSUME NEW x PROVE SameAim(x, x)
BY DEF SameAim

\* A goroutine that goes on talking to NGINX.
LEMMA TalkStep ==
    ASSUME AdapterInv, NEW k \in Calls, NEW c \in Clients, NEW rec \in JobType,
           job' = [job EXCEPT ![k][c] = rec], job[k][c].pc \in Talking, rec.pc \in Talking,
           held' = held, JobAsks(call[k], rec), call' \in [Calls -> CallType],
           \A j \in Calls : SameAim(call'[j], call[j])
    PROVE  PoolBound' /\ Asked' /\ job' \in [Calls -> [Clients -> JobType]]
<1>1. job \in [Calls -> [Clients -> JobType]]
  BY DEF AdapterInv, TypeOK
<1>2. PoolBound'
  BY <1>1, PoolSame DEF AdapterInv
<1>3. Asked'
  BY <1>1, AimKept DEF AdapterInv
<1> QED BY <1>1, <1>2, <1>3

\* What is computed from any listing, however old, is what the call asks for.
LEMMA PlannedAsks ==
    ASSUME NEW k, NEW list, call[k].stage \in {"run", "prune"}
    PROVE  JobAsks(call[k], Planned(k, list)) /\ Planned(k, list).pc = "write"
<1> DEFINE a == ToAdd(k, list)
           r == ToRemove(k, list)
           b == call[k].stage = "run" /\ a \cup r # {}
           rec == [NoJob EXCEPT !.pc = "write", !.adds = a, !.rems = r, !.changed = b]
<1>1. /\ \A p \in a : call[k].stage = "run" /\ p[1] = call[k].up
      /\ \A p \in r : IF call[k].stage = "run"
                      THEN p[1] = call[k].up /\ call[k].want[p[1]][p[2]] = 0
                      ELSE p[1] \notin call[k].desired
  BY DEF ToAdd, ToRemove
<1> HIDE DEF a, r, b
<1>2. rec.pc = "write" /\ rec.adds = a /\ rec.rems = r
  BY DEF NoJob
<1> HIDE DEF rec
<1>3. JobAsks(call[k], rec)
  BY <1>1, <1>2 DEF JobAsks
<1> QED BY <1>2, <1>3 DEF Planned, a, r, b, rec

\* Acquire keeps the invariant: the permit belongs to the goroutine.
LEMMA AcquireInv ==
    ASSUME AdapterInv, NEW k \in Calls, NEW c \in Clients, Acquire(k, c) PROVE AdapterInv'
<1> DEFINE rec == [job[k][c] EXCEPT !.pc = "lookup"]
<1>1. job[k][c] \in JobType /\ job \in [Calls -> [Clients -> JobType]]
  BY DEF AdapterInv, TypeOK
<1>2. job' = [job EXCEPT ![k][c] = rec] /\ rec \in JobType
  BY <1>1 DEF Acquire, JobType
<1>3. JobAsks(call[k], rec)
  BY <1>1 DEF Acquire, AdapterInv, Asked, JobAsks, JobType
<1>4. PoolBound' /\ held' \in Nat
  BY PoolTake DEF AdapterInv
<1>5. Asked'
  BY <1>1, <1>2, <1>3, AimKept, AimSame DEF Acquire, AdapterInv
<1> QED BY <1>1, <1>2, <1>4, <1>5 DEF Acquire, AdapterInv, TypeOK

\* The stage of the call of a goroutine that talks to NGINX.
LEMMA TalkingStage ==
    ASSUME AdapterInv, NEW k \in Calls, NEW c \in Clients, job[k][c].pc \in Talking
    PROVE  call[k].stage \in {"run", "prune"}
BY DEF AdapterInv, Asked, JobAsks, Talking

\* Using the cached listing keeps the invariant.
LEMMA CacheHitInv ==
    ASSUME AdapterInv, NEW k \in Calls, NEW c \in Clients, CacheHit(k, c) PROVE AdapterInv'
<1> DEFINE rec == Planned(k, cache[c])
<1>1. job[k][c].pc \in Talking /\ call[k].stage \in {"run", "prune"}
  BY TalkingStage DEF CacheHit, Talking
<1>2. rec \in JobType /\ rec.pc = "write" /\ JobAsks(call[k], rec)
  BY <1>1, PlannedType, PlannedAsks
<1>3. job' = [job EXCEPT ![k][c] = rec] /\ call' = call /\ held' = held
  BY DEF CacheHit
<1> HIDE DEF rec
<1>4. PoolBound' /\ Asked' /\ job' \in [Calls -> [Clients -> JobType]]
  BY <1>1, <1>2, <1>3, TalkStep, AimSame DEF AdapterInv, TypeOK, Talking
<1> QED BY <1>4 DEF CacheHit, AdapterInv, TypeOK

\* Fetching a listing keeps the invariant.
LEMMA CacheFetchInv ==
    ASSUME AdapterInv, NEW k \in Calls, NEW c \in Clients, CacheFetch(k, c) PROVE AdapterInv'
<1> DEFINE rec == [job[k][c] EXCEPT !.pc = "store", !.list = server[c]]
<1>1. job[k][c].pc \in Talking /\ job[k][c] \in JobType /\ server[c] \in Listings
  BY DEF CacheFetch, Talking, AdapterInv, TypeOK
<1>2. call[k].stage \in {"run", "prune"} /\ JobAsks(call[k], job[k][c])
  BY <1>1, TalkingStage DEF AdapterInv, Asked
<1>3. rec \in JobType /\ rec.pc = "store" /\ JobAsks(call[k], rec)
  <2>1. /\ rec \in JobType /\ rec.pc = "store"
        /\ rec.adds = job[k][c].adds /\ rec.rems = job[k][c].rems
    BY <1>1 DEF JobType
  <2>2. job[k][c].adds = {} /\ job[k][c].rems = {}
    BY <1>2 DEF CacheFetch, JobAsks
  <2> HIDE DEF rec
  <2> QED BY <1>2, <2>1, <2>2 DEF JobAsks
<1>4. job' = [job EXCEPT ![k][c] = rec] /\ call' = call /\ held' = held
  BY DEF CacheFetch
<1> HIDE DEF rec
<1>5. PoolBound' /\ Asked' /\ job' \in [Calls -> [Clients -> JobType]]
  BY <1>1, <1>3, <1>4, TalkStep, AimSame DEF AdapterInv, TypeOK, Talking
<1> QED BY <1>5 DEF CacheFetch, AdapterInv, TypeOK

\* Storing the fetched listing keeps the invariant.
LEMMA CacheStoreInv ==
    ASSUME AdapterInv, NEW k \in Calls, NEW c \in Clients, CacheStore(k, c) PROVE AdapterInv'
<1> DEFINE rec == Planned(k, job[k][c].list)
<1>1. job[k][c].pc \in Talking /\ call[k].stage \in {"run", "prune"}
  BY TalkingStage DEF CacheStore, Talking
<1>2. rec \in JobType /\ rec.pc = "write" /\ JobAsks(call[k], rec)
  BY <1>1, PlannedType, PlannedAsks
<1>3. job' = [job EXCEPT ![k][c] = rec] /\ call' = call /\ held' = held
  BY DEF CacheStore, AdapterInv, TypeOK
<1>4. cache' \in [Clients -> Listings \cup {None}]
  BY DEF CacheStore, AdapterInv, TypeOK, JobType
<1> HIDE DEF rec
<1>5. PoolBound' /\ Asked' /\ job' \in [Calls -> [Clients -> JobType]]
  BY <1>1, <1>2, <1>3, TalkStep, AimSame DEF AdapterInv, TypeOK, Talking
<1> QED BY <1>4, <1>5 DEF CacheStore, AdapterInv, TypeOK

\* A goroutine that ends.
LEMMA EndStep ==
    ASSUME AdapterInv, NEW k \in Calls, NEW c \in Clients, job[k][c].pc \in Talking,
           held' = Released, job' = [job EXCEPT ![k][c] = [NoJob EXCEPT !.pc = "done"]],
           \A j \in Calls : SameAim(call'[j], call[j])
    PROVE  /\ PoolBound' /\ held' \in Nat /\ Asked'
           /\ job' \in [Calls -> [Clients -> JobType]]
<1> DEFINE rec == [NoJob EXCEPT !.pc = "done"]
<1>1. rec \in JobType /\ JobAsks(call[k], rec)
  BY EmptyType, TriesType DEF NoJob, JobType, JobAsks
<1>2. PoolBound' /\ held' \in Nat
  BY PoolGive DEF AdapterInv
<1>3. job \in [Calls -> [Clients -> JobType]]
  BY DEF AdapterInv, TypeOK
<1> HIDE DEF rec
<1>4. Asked'
  BY <1>1, <1>3, AimKept DEF AdapterInv, rec
<1> QED BY <1>1, <1>2, <1>3, <1>4 DEF rec

\* An error recorded in a call changes nothing of what it asks for.
LEMMA ErrorRecorded ==
    ASSUME TypeOK, NEW k \in Calls, NEW b \in BOOLEAN,
           call' = [call EXCEPT ![k] = [@ EXCEPT !.err = TRUE, !.addFailed = b]]
           \/ call' = [call EXCEPT ![k].err = TRUE]
    PROVE  /\ call' \in [Calls -> CallType]
           /\ \A j \in Calls : SameAim(call'[j], call[j])
<1>1. call \in [Calls -> CallType] /\ call[k] \in CallType
  BY DEF TypeOK
<1>2. PICK rec \in CallType : call' = [call EXCEPT ![k] = rec] /\ SameAim(rec, call[k])
  <2>1. /\ [call[k] EXCEPT !.err = TRUE, !.addFailed = b] \in CallType
        /\ SameAim([call[k] EXCEPT !.err = TRUE, !.addFailed = b], call[k])
    BY <1>1 DEF CallType, SameAim
  <2>2. /\ [call[k] EXCEPT !.err = TRUE] \in CallType
        /\ SameAim([call[k] EXCEPT !.err = TRUE], call[k])
    BY <1>1 DEF CallType, SameAim
  <2> QED BY <2>1, <2>2
<1>3. \A j \in Calls : call'[j] = call[j] \/ (j = k /\ call'[j] = rec)
  BY <1>1, <1>2
<1> QED BY <1>1, <1>2, <1>3, AimSame

\* A failed fetch keeps the invariant: the permit is given back.
LEMMA FetchFailsInv ==
    ASSUME AdapterInv, NEW k \in Calls, NEW c \in Clients, FetchFails(k, c) PROVE AdapterInv'
<1>1. /\ call' \in [Calls -> CallType]
      /\ \A j \in Calls : SameAim(call'[j], call[j])
  BY ErrorRecorded DEF FetchFails, AdapterInv
<1>2. /\ PoolBound' /\ held' \in Nat /\ Asked'
      /\ job' \in [Calls -> [Clients -> JobType]]
  BY <1>1, EndStep DEF FetchFails, Talking
<1>3. faults' \in 0..MaxFaults
  BY LimitsAssumption DEF FetchFails, AttemptFaulty, AdapterInv, TypeOK
<1> QED BY <1>1, <1>2, <1>3 DEF FetchFails, AdapterInv, TypeOK

\* The end of a goroutine keeps the invariant: the permit is given back.
LEMMA FinishInv ==
    ASSUME AdapterInv, NEW k \in Calls, NEW c \in Clients, Finish(k, c) PROVE AdapterInv'
<1>1. /\ PoolBound' /\ held' \in Nat /\ Asked'
      /\ job' \in [Calls -> [Clients -> JobType]]
  BY EndStep, AimSame DEF Finish, Talking
<1>2. cache' \in [Clients -> Listings \cup {None}]
  BY DEF Finish, AdapterInv, TypeOK
<1> QED BY <1>1, <1>2 DEF Finish, AdapterInv, TypeOK

\* What is left to send after a request is still asked for.
LEMMA AfterRequestAsks ==
    ASSUME AdapterInv, NEW k \in Calls, NEW c \in Clients, job[k][c].pc = "write", NEW p,
           NEW b \in BOOLEAN
    PROVE  LET a == AfterRequest(k, c, p) IN
             /\ a \in JobType /\ [a EXCEPT !.changed = b] \in JobType
             /\ a.pc = "write" /\ [a EXCEPT !.changed = b].pc = "write"
             /\ JobAsks(call[k], a) /\ JobAsks(call[k], [a EXCEPT !.changed = b])
<1>1. job[k][c] \in JobType /\ JobAsks(call[k], job[k][c])
  BY DEF AdapterInv, Asked, TypeOK
<1> DEFINE A == job[k][c].adds \ {p}
           R == job[k][c].rems \ {p}
           a == [job[k][c] EXCEPT !.adds = A, !.rems = R, !.cur = None, !.tries = 0]
           d == [a EXCEPT !.changed = b]
<1>2. AfterRequest(k, c, p) = a
  BY <1>1 DEF AfterRequest, JobType
<1>3. a \in JobType /\ a.pc = "write" /\ a.adds = A /\ a.rems = R
  BY <1>1, TriesType DEF JobType
<1> HIDE DEF a
<1>4. d \in JobType /\ d.pc = "write" /\ d.adds = A /\ d.rems = R
  BY <1>3 DEF JobType
<1> HIDE DEF d
<1>5. JobAsks(call[k], a) /\ JobAsks(call[k], d)
  BY <1>1, <1>3, <1>4 DEF JobAsks
<1> QED BY <1>2, <1>3, <1>4, <1>5 DEF a, d

\* A request that can be sent is for an upstream and an address.
LEMMA SendableType ==
    ASSUME TypeOK, NEW k \in Calls, NEW c \in Clients, NEW p \in Sendable(k, c), NEW b
    PROVE  p \in Pairs /\ Sent(k, p, b) \in Nat
<1>1. p \in Pairs
  BY DEF Sendable, TypeOK, JobType
<1> QED BY <1>1 DEF Sent, TypeOK, CallType, Listings, Backends, Pairs

\* NGINX executes a request of an attempt.
LEMMA ExecutesType ==
    ASSUME TypeOK, NEW k \in Calls, NEW c \in Clients, NEW p \in Pairs, Attempt(k, c, p),
           Executes(k, c, p)
    PROVE  server' \in [Clients -> Listings]
<1> DEFINE n == Weight(k, c, p)
<1>1. n \in Nat
  BY SendableType DEF Attempt, Weight
<1>2. server' = [server EXCEPT ![c][p[1]][p[2]] = n]
  BY DEF Executes
<1> HIDE DEF n
<1> QED BY <1>1, <1>2 DEF TypeOK, Listings, Backends, Pairs

\* What an attempt without a status 200 leaves behind is well typed.
LEMMA UnansweredType ==
    ASSUME TypeOK, NEW k \in Calls, NEW c \in Clients, NEW p \in Pairs, Attempt(k, c, p),
           Unanswered(k, c, p)
    PROVE  /\ server' \in [Clients -> Listings] /\ lost' \in 0..MaxLate
           /\ late' \in SUBSET (Clients \X Pairs \X Nat)
<1>1. CASE Ignored
  BY <1>1 DEF Ignored, TypeOK
<1>2. CASE AnswerLost(k, c, p)
  BY <1>2, ExecutesType, LimitsAssumption DEF AnswerLost, TypeOK
<1>3. CASE Delayed(k, c, p)
  <2> DEFINE n == Weight(k, c, p)
  <2>1. n \in Nat
    BY SendableType DEF Attempt, Weight
  <2>2. late' = late \cup {<<c, p, n>>}
    BY <1>3 DEF Delayed
  <2> HIDE DEF n
  <2>3. late' \in SUBSET (Clients \X Pairs \X Nat)
    BY <2>1, <2>2 DEF TypeOK
  <2> QED BY <1>3, <2>3, LimitsAssumption DEF Delayed, TypeOK
<1> QED BY <1>1, <1>2, <1>3 DEF Unanswered

\* A request that succeeds keeps the invariant.
LEMMA RequestOKInv ==
    ASSUME AdapterInv, NEW k \in Calls, NEW c \in Clients, NEW p \in Pairs,
           RequestOK(k, c, p)
    PROVE  AdapterInv'
<1> DEFINE rec == [AfterRequest(k, c, p) EXCEPT !.changed = TRUE]
<1>1. rec \in JobType /\ rec.pc = "write" /\ JobAsks(call[k], rec)
  BY AfterRequestAsks DEF RequestOK, Attempt
<1>2. job' = [job EXCEPT ![k][c] = rec] /\ call' = call /\ held' = held
  BY DEF RequestOK
<1>3. server' \in [Clients -> Listings]
  BY ExecutesType DEF RequestOK, AdapterInv
<1> HIDE DEF rec
<1>4. PoolBound' /\ Asked' /\ job' \in [Calls -> [Clients -> JobType]]
  BY <1>1, <1>2, TalkStep, AimSame DEF RequestOK, Attempt, AdapterInv, TypeOK, Talking
<1> QED BY <1>3, <1>4 DEF RequestOK, AdapterInv, TypeOK

\* An attempt that is tried again keeps the invariant.
LEMMA RequestRetriedInv ==
    ASSUME AdapterInv, NEW k \in Calls, NEW c \in Clients, NEW p \in Pairs,
           RequestRetried(k, c, p)
    PROVE  AdapterInv'
<1> DEFINE t == job[k][c].tries + 1
           rec == [job[k][c] EXCEPT !.cur = p, !.tries = t]
<1>1. /\ job[k][c] \in JobType /\ JobAsks(call[k], job[k][c]) /\ job[k][c].pc = "write"
      /\ job[k][c].tries + 1 # Attempts
  BY DEF RequestRetried, Attempt, LastAttempt, AdapterInv, Asked, TypeOK
<1>2. job' = [job EXCEPT ![k][c] = rec] /\ call' = call /\ held' = held
  BY DEF RequestRetried
<1>t. t \in Tries
  BY <1>1, TriesType DEF JobType
<1> HIDE DEF t
<1>3. /\ rec \in JobType /\ rec.pc = "write"
      /\ rec.adds = job[k][c].adds /\ rec.rems = job[k][c].rems
  BY <1>1, <1>t DEF JobType
<1> HIDE DEF rec
<1>4. JobAsks(call[k], rec)
  BY <1>1, <1>3 DEF JobAsks
<1>5. PoolBound' /\ Asked' /\ job' \in [Calls -> [Clients -> JobType]]
  BY <1>1, <1>2, <1>3, <1>4, TalkStep, AimSame DEF AdapterInv, TypeOK, Talking
<1>6. /\ server' \in [Clients -> Listings] /\ lost' \in 0..MaxLate
      /\ late' \in SUBSET (Clients \X Pairs \X Nat)
  BY UnansweredType DEF RequestRetried, AdapterInv
<1>7. faults' \in 0..MaxFaults
  BY LimitsAssumption DEF RequestRetried, AttemptFaulty, AdapterInv, TypeOK
<1> QED BY <1>5, <1>6, <1>7 DEF RequestRetried, AdapterInv, TypeOK

\* A request that fails keeps the invariant, late or not.
LEMMA RequestFailsInv ==
    ASSUME AdapterInv, NEW k \in Calls, NEW c \in Clients, NEW p \in Pairs,
           RequestFails(k, c, p)
    PROVE  AdapterInv'
<1> DEFINE rec == AfterRequest(k, c, p)
           b == call[k].addFailed \/ job[k][c].adds # {}
<1>1. rec \in JobType /\ rec.pc = "write" /\ JobAsks(call[k], rec)
  BY AfterRequestAsks DEF RequestFails, Attempt
<1>2. job' = [job EXCEPT ![k][c] = rec] /\ held' = held
  BY DEF RequestFails
<1>3. Unanswered(k, c, p)
  BY DEF RequestFails, Unanswered
<1>4. /\ call' \in [Calls -> CallType]
      /\ \A j \in Calls : SameAim(call'[j], call[j])
  <2>1. call' = [call EXCEPT ![k] = [@ EXCEPT !.err = TRUE, !.addFailed = b]]
    BY DEF RequestFails
  <2>2. b \in BOOLEAN
    BY DEF AdapterInv, TypeOK, CallType
  <2> HIDE DEF b
  <2> QED BY <2>1, <2>2, ErrorRecorded DEF AdapterInv
<1>5. /\ server' \in [Clients -> Listings] /\ lost' \in 0..MaxLate
      /\ late' \in SUBSET (Clients \X Pairs \X Nat)
  BY <1>3, UnansweredType DEF RequestFails, AdapterInv
<1>6. faults' \in 0..MaxFaults
  BY LimitsAssumption DEF RequestFails, AttemptFaulty, AdapterInv, TypeOK
<1> HIDE DEF rec
<1>7. PoolBound' /\ Asked' /\ job' \in [Calls -> [Clients -> JobType]]
  BY <1>1, <1>2, <1>4, TalkStep DEF RequestFails, Attempt, Talking
<1> QED BY <1>4, <1>5, <1>6, <1>7 DEF RequestFails, AdapterInv, TypeOK

\* A goroutine whose context ends before it gets a permit gives none back.
LEMMA AcquireFailsInv ==
    ASSUME AdapterInv, NEW k \in Calls, NEW c \in Clients, AcquireFails(k, c)
    PROVE  AdapterInv'
<1> DEFINE rec == [job[k][c] EXCEPT !.pc = "done"]
<1>1. job[k][c] \in JobType /\ job \in [Calls -> [Clients -> JobType]]
  BY DEF AdapterInv, TypeOK
<1>2. job' = [job EXCEPT ![k][c] = rec] /\ rec \in JobType /\ held' = held
  BY <1>1 DEF AcquireFails, JobType
<1>3. JobAsks(call[k], rec)
  BY <1>1 DEF AcquireFails, AdapterInv, Asked, JobAsks, JobType
<1>4. rec.pc = "done" /\ job[k][c].pc = "acquire"
  BY <1>1 DEF AcquireFails, JobType
<1> HIDE DEF rec
<1>5. PoolBound'
  BY <1>1, <1>2, <1>4, PoolSame DEF AdapterInv, Talking
<1>6. /\ call' \in [Calls -> CallType]
      /\ \A j \in Calls : SameAim(call'[j], call[j])
  BY ErrorRecorded DEF AcquireFails, AdapterInv
<1>7. Asked'
  BY <1>1, <1>2, <1>3, <1>6, AimKept DEF AdapterInv
<1>8. job' \in [Calls -> [Clients -> JobType]]
  BY <1>1, <1>2
<1> QED BY <1>2, <1>5, <1>6, <1>7, <1>8 DEF AcquireFails, AdapterInv, TypeOK

\* The end of the context keeps the invariant.
LEMMA CtxEndsInv == ASSUME AdapterInv, CtxEnds PROVE AdapterInv'
<1>1. PoolBound' /\ Asked'
  BY PoolSame DEF CtxEnds, AdapterInv, Asked
<1> QED BY <1>1 DEF CtxEnds, AdapterInv, TypeOK

\* A late request keeps the invariant.
LEMMA LateInv == ASSUME AdapterInv, NEW r \in late, LateRequest(r) PROVE AdapterInv'
<1>1. r \in Clients \X Pairs \X Nat
  BY DEF AdapterInv, TypeOK
<1>2. server' \in [Clients -> Listings]
  BY <1>1 DEF LateRequest, AdapterInv, TypeOK, Listings, Backends, Pairs
<1>3. PoolBound' /\ Asked'
  BY PoolSame DEF LateRequest, AdapterInv, Asked
<1> QED BY <1>2, <1>3 DEF LateRequest, AdapterInv, TypeOK

\* The expiry of a listing keeps the invariant.
LEMMA ExpireInv == ASSUME AdapterInv, NEW c \in Clients, Expire(c) PROVE AdapterInv'
<1>1. PoolBound' /\ Asked'
  BY PoolSame DEF Expire, AdapterInv, Asked
<1> QED BY <1>1 DEF Expire, AdapterInv, TypeOK

\* Noting who is no longer alone changes no call's aim.
LEMMA JoinedAim ==
    ASSUME TypeOK, NEW k \in Calls, NEW rec \in CallType, NEW U,
           call' = Joined(k, rec, U)
    PROVE  /\ call' \in [Calls -> CallType]
           /\ SameAim(call'[k], rec)
           /\ \A j \in Calls \ {k} : SameAim(call'[j], call[j])
<1>1. call' \in [Calls -> CallType]
  BY JoinedType
<1> DEFINE a == /\ late = {}
                /\ \A i \in Calls \ {k} : ~\E u \in U : Writes(i, u)
<1>2. call'[k] = [rec EXCEPT !.alone = a]
  BY DEF Joined
<1>3. \A j \in Calls \ {k} : call'[j] = call[j] \/ call'[j] = [call[j] EXCEPT !.alone = FALSE]
  BY DEF Joined
<1> HIDE DEF a
<1>4. SameAim(call'[k], rec)
  BY <1>2 DEF CallType, SameAim
<1>5. \A j \in Calls \ {k} : SameAim([call[j] EXCEPT !.alone = FALSE], call[j])
  BY DEF TypeOK, CallType, SameAim
<1> QED BY <1>1, <1>3, <1>4, <1>5, AimSame

\* A step of the caller of k, while none of its goroutines talks to NGINX.
LEMMA CallStep ==
    ASSUME AdapterInv, NEW k \in Calls, NEW rec, NEW jobs \in [Clients -> JobType],
           job' = [job EXCEPT ![k] = jobs], held' = held,
           SameAim(call'[k], rec), \A j \in Calls \ {k} : SameAim(call'[j], call[j]),
           CallAsks(rec), \A c \in Clients : JobAsks(rec, jobs[c]),
           \A c \in Clients : jobs[c].pc \notin Talking /\ job[k][c].pc \notin Talking
    PROVE  PoolBound' /\ Asked' /\ job' \in [Calls -> [Clients -> JobType]]
<1>1. job \in [Calls -> [Clients -> JobType]]
  BY DEF AdapterInv, TypeOK
<1>2. job'[k] = jobs /\ \A j \in Calls \ {k} : job'[j] = job[j]
  BY <1>1
<1>3. PoolBound'
  BY <1>2, PoolSame DEF AdapterInv
<1>4. ASSUME NEW j \in Calls
      PROVE  CallAsks(call'[j]) /\ \A c \in Clients : JobAsks(call'[j], job'[j][c])
  <2>1. PICK x : /\ SameAim(call'[j], x) /\ CallAsks(x)
                 /\ \A c \in Clients : JobAsks(x, job'[j][c])
    BY <1>2 DEF AdapterInv, Asked
  <2>2. CallAsks(call'[j])
    BY <2>1 DEF CallAsks, SameAim
  <2>3. \A c \in Clients : JobAsks(call'[j], job'[j][c])
    BY <2>1 DEF JobAsks, SameAim
  <2> QED BY <2>2, <2>3
<1> QED BY <1>1, <1>3, <1>4 DEF Asked

\* A call that has not launched goroutines has none that talks.
LEMMA AtRest ==
    ASSUME AdapterInv, NEW k \in Calls, call[k].stage \in {"idle", "next"}
    PROVE  \A c \in Clients : job[k][c].pc \notin Talking
BY DEF AdapterInv, Asked, JobAsks, Talking

\* Goroutines that have just been launched ask for nothing yet.
LEMMA LaunchedAsks ==
    ASSUME NEW rec, rec.stage \in {"run", "prune"}
    PROVE  \A c \in Clients : JobAsks(rec, Launched[c]) /\ Launched[c].pc \notin Talking
<1>1. \A c \in Clients : /\ Launched[c].pc = "acquire"
                         /\ Launched[c].adds = {} /\ Launched[c].rems = {}
  BY DEF Launched, NoJob
<1> QED BY <1>1 DEF JobAsks, Talking

\* The start of SyncUpstream keeps the invariant.
LEMMA SyncUpstreamInv ==
    ASSUME AdapterInv, NEW k \in Calls, NEW u \in Ups, NEW bs \in Inputs, SyncUpstream(k, u, bs)
    PROVE  AdapterInv'
<1> DEFINE w == [[v \in Ups |-> Empty] EXCEPT ![u] = Aggregated(bs)]
           rec == [NoCall EXCEPT !.stage = "run", !.up = u, !.desired = {u}, !.want = w]
<1>1. w \in Listings
  BY AggregatedType, InputsAssumption, EmptyType DEF Listings
<1>2. call' = Joined(k, rec, {u}) /\ job' = [job EXCEPT ![k] = Launched] /\ held' = held
  BY DEF SyncUpstream, NoCall
<1>3. call[k].stage = "idle"
  BY DEF SyncUpstream
<1> HIDE DEF w
<1>4. /\ rec \in CallType /\ rec.stage = "run" /\ rec.up = u /\ rec.desired = {u}
      /\ rec.keep = {} /\ rec.left = {}
  BY <1>1 DEF NoCall, CallType
<1> HIDE DEF rec
<1>5. /\ call' \in [Calls -> CallType] /\ SameAim(call'[k], rec)
      /\ \A j \in Calls \ {k} : SameAim(call'[j], call[j])
  BY <1>2, <1>4, JoinedAim DEF AdapterInv
<1>6. CallAsks(rec)
  BY <1>4 DEF CallAsks
<1>7. PoolBound' /\ Asked' /\ job' \in [Calls -> [Clients -> JobType]]
  <2>1. \A c \in Clients : JobAsks(rec, Launched[c]) /\ Launched[c].pc \notin Talking
    BY <1>4, LaunchedAsks
  <2>2. \A c \in Clients : job[k][c].pc \notin Talking
    BY <1>3, AtRest
  <2> QED BY <1>2, <1>5, <1>6, <2>1, <2>2, CallStep, LaunchedType
<1>8. started' \in 0..MaxCalls
  BY LimitsAssumption DEF SyncUpstream, AdapterInv, TypeOK
<1> QED BY <1>5, <1>7, <1>8 DEF SyncUpstream, AdapterInv, TypeOK

\* The start of SyncAllUpstreams keeps the invariant.
LEMMA SyncAllInv ==
    ASSUME AdapterInv, NEW k \in Calls, NEW desired \in SUBSET Ups, NEW keep \in SUBSET desired,
           NEW f \in [Ups -> Seq([addr : Addrs, weight : Nat])],
           SyncAllUpstreams(k, desired, keep, f)
    PROVE  AdapterInv'
<1> DEFINE w == [u \in Ups |-> Aggregated(f[u])]
           rec == [NoCall EXCEPT !.stage = "next", !.bulk = TRUE, !.desired = desired,
                                 !.keep = keep, !.left = desired \ keep, !.want = w]
<1>1. w \in Listings
  BY AggregatedType DEF Listings
<1>2. call' = [call EXCEPT ![k] = rec] /\ call[k].stage = "idle"
  BY DEF SyncAllUpstreams
<1> HIDE DEF w
<1>3. /\ rec \in CallType /\ rec.stage = "next" /\ rec.left = rec.desired \ rec.keep
  BY <1>1 DEF NoCall, CallType
<1> HIDE DEF rec
<1>4. /\ call' \in [Calls -> CallType] /\ SameAim(call'[k], rec)
      /\ \A j \in Calls \ {k} : SameAim(call'[j], call[j])
  BY <1>2, <1>3, AimSame DEF AdapterInv, TypeOK
<1>5. job[k] \in [Clients -> JobType] /\ job' = [job EXCEPT ![k] = job[k]] /\ held' = held
  BY DEF SyncAllUpstreams, AdapterInv, TypeOK
<1>6. \A c \in Clients : JobAsks(call[k], job[k][c]) /\ JobAsks(rec, job[k][c])
  <2>1. \A c \in Clients : JobAsks(call[k], job[k][c]) /\ job[k][c].pc \in {"off", "done"}
    BY <1>2 DEF AdapterInv, Asked, JobAsks
  <2> QED BY <2>1 DEF JobAsks
<1>7. PoolBound' /\ Asked' /\ job' \in [Calls -> [Clients -> JobType]]
  BY <1>2, <1>3, <1>4, <1>5, <1>6, CallStep, AtRest DEF CallAsks
<1>8. started' \in 0..MaxCalls
  BY LimitsAssumption DEF SyncAllUpstreams, AdapterInv, TypeOK
<1> QED BY <1>4, <1>7, <1>8 DEF SyncAllUpstreams, AdapterInv, TypeOK

\* The bulk call launches the goroutines of its next upstream, or of the prune.
LEMMA LaunchStep ==
    ASSUME AdapterInv, NEW k \in Calls, NEW rec \in CallType, NEW U, CallAsks(rec),
           call[k].stage = "next", rec.stage \in {"run", "prune"}, held' = held,
           call' = Joined(k, rec, U), job' = [job EXCEPT ![k] = Launched]
    PROVE  /\ call' \in [Calls -> CallType] /\ PoolBound' /\ Asked'
           /\ job' \in [Calls -> [Clients -> JobType]]
<1>1. /\ call' \in [Calls -> CallType] /\ SameAim(call'[k], rec)
      /\ \A j \in Calls \ {k} : SameAim(call'[j], call[j])
  BY JoinedAim DEF AdapterInv
<1>2. \A c \in Clients : JobAsks(rec, Launched[c]) /\ Launched[c].pc \notin Talking
  BY LaunchedAsks
<1>3. \A c \in Clients : job[k][c].pc \notin Talking
  BY AtRest
<1> QED BY <1>1, <1>2, <1>3, CallStep, LaunchedType

\* The next upstream of a bulk call is one it may write.
LEMMA NextUpstreamInv ==
    ASSUME AdapterInv, NEW k \in Calls, NEW u \in Ups, NextUpstream(k, u) PROVE AdapterInv'
<1> DEFINE rec == [call[k] EXCEPT !.stage = "run", !.up = u, !.left = @ \ {u}]
<1>1. /\ call[k] \in CallType /\ CallAsks(call[k])
      /\ call[k].stage = "next" /\ u \in call[k].left
  BY DEF NextUpstream, AdapterInv, Asked, TypeOK
<1>2. /\ call' = Joined(k, rec, {u}) /\ job' = [job EXCEPT ![k] = Launched] /\ held' = held
  BY DEF NextUpstream
<1>3. /\ rec \in CallType /\ rec.stage = "run" /\ rec.up = u /\ rec.left = call[k].left \ {u}
      /\ rec.desired = call[k].desired /\ rec.keep = call[k].keep
  BY <1>1 DEF CallType
<1> HIDE DEF rec
<1>4. CallAsks(rec)
  BY <1>1, <1>3 DEF CallAsks
<1>5. /\ call' \in [Calls -> CallType] /\ PoolBound' /\ Asked'
      /\ job' \in [Calls -> [Clients -> JobType]]
  BY <1>1, <1>2, <1>3, <1>4, LaunchStep
<1> QED BY <1>5 DEF NextUpstream, AdapterInv, TypeOK

\* A call that ends.
LEMMA EndCall ==
    ASSUME AdapterInv, NEW k \in Calls, call' = [call EXCEPT ![k] = NoCall], held' = held,
           job' = [job EXCEPT ![k] = [c \in Clients |-> NoJob]],
           \A c \in Clients : job[k][c].pc \notin Talking
    PROVE  /\ call' \in [Calls -> CallType] /\ PoolBound' /\ Asked'
           /\ job' \in [Calls -> [Clients -> JobType]]
<1> DEFINE jobs == [c \in Clients |-> NoJob]
<1>1. /\ call' \in [Calls -> CallType] /\ SameAim(call'[k], NoCall)
      /\ \A j \in Calls \ {k} : SameAim(call'[j], call[j])
  BY RestType, AimSame DEF AdapterInv, TypeOK
<1>2. jobs \in [Clients -> JobType] /\ CallAsks(NoCall)
  BY RestType DEF CallAsks, NoCall
<1>3. \A c \in Clients : JobAsks(NoCall, jobs[c]) /\ jobs[c].pc \notin Talking
  BY DEF JobAsks, NoJob, NoCall, Talking
<1> QED BY <1>1, <1>2, <1>3, CallStep

\* The start of the prune keeps the invariant.
LEMMA StartPruneInv == ASSUME AdapterInv, NEW k \in Calls, StartPrune(k) PROVE AdapterInv'
<1>1. /\ call[k] \in CallType /\ CallAsks(call[k]) /\ call[k].stage = "next"
  BY DEF StartPrune, AdapterInv, Asked, TypeOK
<1>2. CASE PruneOrphans
  <2> DEFINE rec == [call[k] EXCEPT !.stage = "prune", !.up = None]
  <2>1. /\ call' = Joined(k, rec, Ups \ call[k].desired)
        /\ job' = [job EXCEPT ![k] = Launched] /\ held' = held
    BY <1>2 DEF StartPrune
  <2>2. rec \in CallType /\ rec.stage = "prune"
    BY <1>1 DEF CallType
  <2> HIDE DEF rec
  <2>3. CallAsks(rec)
    BY <2>2 DEF CallAsks
  <2>4. /\ call' \in [Calls -> CallType] /\ PoolBound' /\ Asked'
        /\ job' \in [Calls -> [Clients -> JobType]]
    BY <1>1, <2>1, <2>2, <2>3, LaunchStep
  <2> QED BY <2>4 DEF StartPrune, AdapterInv, TypeOK
<1>3. CASE ~PruneOrphans
  <2>1. call' = [call EXCEPT ![k] = NoCall] /\ job' = job /\ held' = held
    BY <1>3 DEF StartPrune
  <2>2. \A j \in Calls : SameAim(call'[j], call[j]) \/ (j = k /\ call'[j] = NoCall)
    BY <2>1, AimSame DEF AdapterInv, TypeOK
  <2>3. \A c \in Clients : JobAsks(NoCall, job[k][c])
    BY <1>1 DEF AdapterInv, Asked, JobAsks
  <2>4. CallAsks(NoCall)
    BY DEF CallAsks, NoCall
  <2>5. Asked'
    <3> SUFFICES ASSUME NEW j \in Calls
                 PROVE CallAsks(call'[j]) /\ \A c \in Clients : JobAsks(call'[j], job'[j][c])
      BY DEF Asked
    <3>1. CASE j = k /\ call'[j] = NoCall
      BY <2>1, <2>3, <2>4, <3>1
    <3>2. CASE SameAim(call'[j], call[j])
      BY <2>1, <3>2 DEF AdapterInv, Asked, CallAsks, JobAsks, SameAim
    <3> QED BY <2>2, <3>1, <3>2
  <2>6. PoolBound'
    BY <2>1, PoolSame DEF AdapterInv
  <2> QED BY <2>1, <2>5, <2>6, RestType DEF StartPrune, AdapterInv, TypeOK
<1> QED BY <1>2, <1>3

\* The return of a call keeps the invariant: no goroutine of it is left.
LEMMA ReturnInv == ASSUME AdapterInv, NEW k \in Calls, Return(k) PROVE AdapterInv'
<1> DEFINE jobs == [c \in Clients |-> NoJob]
<1>1. /\ call[k] \in CallType /\ CallAsks(call[k])
      /\ \A c \in Clients : job[k][c].pc \notin Talking
  BY DEF Return, AdapterInv, Asked, TypeOK, Talking
<1>2. job' = [job EXCEPT ![k] = jobs] /\ held' = held
  BY DEF Return
<1>3. CASE call[k].stage = "run" /\ call[k].bulk
  <2> DEFINE rec == [call[k] EXCEPT !.stage = "next", !.up = None, !.addFailed = FALSE]
  <2>1. call' = [call EXCEPT ![k] = rec]
    BY <1>3 DEF Return
  <2>2. /\ rec \in CallType /\ rec.stage = "next" /\ rec.left = call[k].left
        /\ rec.desired = call[k].desired /\ rec.keep = call[k].keep
    BY <1>1 DEF CallType
  <2> HIDE DEF rec
  <2>3. CallAsks(rec)
    BY <1>1, <1>3, <2>2 DEF CallAsks
  <2>4. /\ call' \in [Calls -> CallType] /\ SameAim(call'[k], rec)
        /\ \A j \in Calls \ {k} : SameAim(call'[j], call[j])
    BY <2>1, <2>2, AimSame DEF AdapterInv, TypeOK
  <2>5. jobs \in [Clients -> JobType]
    BY RestType
  <2>6. \A c \in Clients : JobAsks(rec, jobs[c]) /\ jobs[c].pc \notin Talking
    BY DEF JobAsks, NoJob, Talking
  <2>7. PoolBound' /\ Asked' /\ job' \in [Calls -> [Clients -> JobType]]
    BY <1>1, <1>2, <2>3, <2>4, <2>5, <2>6, CallStep
  <2> QED BY <2>4, <2>7 DEF Return, AdapterInv, TypeOK
<1>4. CASE ~(call[k].stage = "run" /\ call[k].bulk)
  <2>1. call' = [call EXCEPT ![k] = NoCall]
    BY <1>4 DEF Return
  <2>2. /\ call' \in [Calls -> CallType] /\ PoolBound' /\ Asked'
        /\ job' \in [Calls -> [Clients -> JobType]]
    BY <1>1, <1>2, <2>1, EndCall
  <2> QED BY <2>2 DEF Return, AdapterInv, TypeOK
<1> QED BY <1>3, <1>4

\* The invariant is inductive: one case per action.
LEMMA AdapterStep == AdapterInv /\ [Next]_vars => AdapterInv'
<1> SUFFICES ASSUME AdapterInv, [Next]_vars PROVE AdapterInv'
  OBVIOUS
<1>1. ASSUME NEW k \in Calls, Start(k) PROVE AdapterInv'
  <2>1. CASE \E u \in Ups, bs \in Inputs : SyncUpstream(k, u, bs)
    BY <2>1, SyncUpstreamInv
  <2>2. ASSUME NEW desired \in SUBSET Ups, NEW keep \in SUBSET desired,
               NEW f \in [desired -> Inputs],
               SyncAllUpstreams(k, desired, keep,
                                [u \in Ups |-> IF u \in desired THEN f[u] ELSE << >>])
        PROVE  AdapterInv'
    <3> DEFINE g == [u \in Ups |-> IF u \in desired THEN f[u] ELSE << >>]
    <3>1. g \in [Ups -> Seq([addr : Addrs, weight : Nat])]
      BY InputsAssumption, EmptySeq
    <3> HIDE DEF g
    <3> QED BY <2>2, <3>1, SyncAllInv DEF g
  <2> QED BY <1>1, <2>1, <2>2 DEF Start
<1>2. ASSUME NEW k \in Calls, Caller(k) PROVE AdapterInv'
  BY <1>2, NextUpstreamInv, StartPruneInv, ReturnInv DEF Caller
<1>3. ASSUME NEW k \in Calls, NEW c \in Clients, Acquire(k, c) \/ Goroutine(k, c)
      PROVE AdapterInv'
  BY <1>3, AcquireInv, AcquireFailsInv, CacheHitInv, CacheFetchInv, CacheStoreInv,
     FetchFailsInv, RequestOKInv, RequestRetriedInv, RequestFailsInv, FinishInv DEF Goroutine
<1>4. CASE (\E r \in late : LateRequest(r)) \/ (\E c \in Clients : Expire(c)) \/ CtxEnds
  BY <1>4, LateInv, ExpireInv, CtxEndsInv
<1>5. CASE UNCHANGED vars
  BY <1>5, PoolSame DEF vars, AdapterInv, TypeOK, Asked
<1> QED BY <1>1, <1>2, <1>3, <1>4, <1>5 DEF Next

\* Type correctness of the adapter, for every number of NGINX instances, calls,
\* upstreams and permits.
THEOREM AdapterTypes == Spec => []TypeOK
BY AdapterInit, AdapterStep, PTL DEF Spec, AdapterInv

\* No path of SyncUpstream or of the prune, failed fetch included, loses or
\* duplicates a permit of the semaphore, and never more than request_pool_size
\* goroutines talk to NGINX, however many calls there are.
THEOREM PoolNeverExceeded == Spec => []PoolBound
BY AdapterInit, AdapterStep, PTL DEF Spec, AdapterInv

-----------------------------------------------------------------------------
(* Every change of a server is asked for.                                   *)

\* What an attempt sends is what its call asks for.
LEMMA AttemptAsked ==
    ASSUME AdapterInv, NEW k \in Calls, NEW c \in Clients, NEW p \in Pairs, Attempt(k, c, p)
    PROVE  \/ /\ call[k].stage = "run" /\ call[k].up = p[1]
              /\ p[1] \in call[k].desired \ call[k].keep
              /\ Weight(k, c, p) = call[k].want[p[1]][p[2]]
           \/ call[k].stage = "prune" /\ p[1] \notin call[k].desired /\ Weight(k, c, p) = 0
<1>1. /\ p \in Sendable(k, c) /\ call[k].stage \in {"run", "prune"}
      /\ CallAsks(call[k]) /\ JobAsks(call[k], job[k][c])
  BY TalkingStage DEF Attempt, AdapterInv, Asked, Talking
<1> QED BY <1>1 DEF Sendable, Weight, Sent, CallAsks, JobAsks

\* A request that is executed changes NGINX the way its call asks for.
LEMMA RequestAsked ==
    ASSUME AdapterInv, NEW k \in Calls, NEW c \in Clients, NEW p \in Pairs,
           Attempt(k, c, p), Executes(k, c, p)
    PROVE  AskedChange
<1> DEFINE n == Weight(k, c, p)
<1>1. /\ server' = [server EXCEPT ![c][p[1]][p[2]] = n]
      /\ server \in [Clients -> Listings] /\ p[1] \in Ups /\ p[2] \in Addrs
  BY DEF Executes, AdapterInv, TypeOK, Pairs
<1>2. \/ /\ call[k].stage = "run" /\ call[k].up = p[1]
         /\ p[1] \in call[k].desired \ call[k].keep /\ n = call[k].want[p[1]][p[2]]
      \/ call[k].stage = "prune" /\ p[1] \notin call[k].desired /\ n = 0
  BY AttemptAsked
<1> HIDE DEF n
<1> SUFFICES ASSUME NEW d \in Clients, NEW u \in Ups, NEW x \in Addrs,
                    server'[d][u][x] # server[d][u][x]
             PROVE  /\ u = p[1] /\ x = p[2] /\ server'[d][u][x] = n
  BY <1>2 DEF AskedChange
<1>3. d = c /\ u = p[1] /\ x = p[2]
  BY <1>1 DEF Listings, Backends
<1> QED BY <1>1, <1>3 DEF Listings, Backends

\* A late request changes NGINX the way it was asked to.
LEMMA LateAsked == ASSUME AdapterInv, NEW r \in late, LateRequest(r) PROVE AskedChange
<1>1. /\ r \in Clients \X Pairs \X Nat /\ server \in [Clients -> Listings]
      /\ server' = [server EXCEPT ![r[1]][r[2][1]][r[2][2]] = r[3]]
  BY DEF LateRequest, AdapterInv, TypeOK
<1> SUFFICES ASSUME NEW d \in Clients, NEW u \in Ups, NEW x \in Addrs,
                    server'[d][u][x] # server[d][u][x]
             PROVE  <<d, <<u, x>>, server'[d][u][x]>> = r
  BY DEF AskedChange
<1>2. d = r[1] /\ u = r[2][1] /\ x = r[2][2]
  BY <1>1 DEF Listings, Backends, Pairs
<1>3. server'[d][u][x] = r[3]
  BY <1>1, <1>2 DEF Listings, Backends, Pairs
<1>4. r = <<r[1], r[2], r[3]>> /\ r[2] = <<r[2][1], r[2][2]>>
  BY <1>1 DEF Pairs
<1> QED BY <1>2, <1>3, <1>4

\* No other step changes NGINX.
LEMMA AskedStep == AdapterInv /\ [Next]_vars => [AskedChange]_vars
<1> SUFFICES ASSUME AdapterInv, Next PROVE AskedChange
  BY DEF vars
<1>1. CASE server' = server
  BY <1>1 DEF AskedChange
<1>2. ASSUME NEW k \in Calls, Start(k) \/ Caller(k) PROVE server' = server
  BY <1>2 DEF Start, SyncUpstream, SyncAllUpstreams, Caller, NextUpstream, StartPrune, Return
<1>3. ASSUME NEW k \in Calls, NEW c \in Clients, Acquire(k, c) \/ Goroutine(k, c)
      PROVE AskedChange
  <2>1. CASE \E p \in Pairs : Attempt(k, c, p) /\ Executes(k, c, p)
    BY <2>1, RequestAsked
  <2>2. ASSUME NEW p \in Pairs,
               RequestOK(k, c, p) \/ RequestRetried(k, c, p) \/ RequestFails(k, c, p)
        PROVE  AskedChange
    <3>1. Attempt(k, c, p) /\ (Executes(k, c, p) \/ server' = server)
      BY <2>2 DEF RequestOK, RequestRetried, RequestFails, Unanswered, Ignored, AnswerLost,
                  Delayed
    <3> QED BY <1>1, <2>1, <3>1
  <2>3. CASE ~\E p \in Pairs :
               RequestOK(k, c, p) \/ RequestRetried(k, c, p) \/ RequestFails(k, c, p)
    BY <1>1, <1>3, <2>3 DEF Acquire, Goroutine, AcquireFails, CacheHit, CacheFetch, CacheStore,
                            FetchFails, Finish
  <2> QED BY <2>2, <2>3
<1>4. CASE \E r \in late : LateRequest(r)
  BY <1>4, LateAsked
<1>5. CASE (\E c \in Clients : Expire(c)) \/ CtxEnds
  BY <1>1, <1>5 DEF Expire, CtxEnds
<1> QED BY <1>1, <1>2, <1>3, <1>4, <1>5 DEF Next

\* Whatever the cached listings say, however many calls overlap, and whichever
\* requests fail: NGINX is only ever written the way a call in flight asks for,
\* and an upstream its caller wants preserved is not written for that caller.
THEOREM WritesOnlyAsked == Spec => OnlyAsked
<1>1. AdapterInv /\ [Next]_vars => [AskedChange]_vars
  BY AskedStep
<1> QED BY <1>1, AdapterInit, AdapterStep, PTL DEF Spec, OnlyAsked

-----------------------------------------------------------------------------
(* The adapter implements the port.  What a call asks for is fixed when it   *)
(* starts, and its prune is part of that.                                    *)

Deal(x) == /\ x.stage = "next" => x.bulk
           /\ x.stage = "prune" => x.bulk /\ PruneOrphans
           /\ x.stage # "idle" => \A u \in Ups \ x.desired : x.want[u] = Empty

PortInv == AdapterInv /\ \A k \in Calls : Deal(call[k])

\* A call that is still open and asks for the same.
SameAsk(x, y) == /\ x.stage = "idle" <=> y.stage = "idle"
                 /\ x.stage = "next" => y.stage = "next" \/ y.bulk
                 /\ x.stage = "prune" => y.stage = "prune" \/ (y.bulk /\ PruneOrphans)
                 /\ x.bulk = y.bulk /\ x.want = y.want
                 /\ x.desired = y.desired /\ x.keep = y.keep

\* Such a call keeps its deal, and the port sees no difference.
LEMMA SameAskKept ==
    ASSUME PortInv, NEW k \in Calls, SameAsk(call'[k], call[k])
    PROVE  Deal(call'[k]) /\ Ask(k)' = Ask(k)
<1>1. Deal(call'[k])
  BY DEF PortInv, Deal, SameAsk
<1>2. Scope(k)' = Scope(k)
  BY DEF Scope, SameAsk
<1> QED BY <1>1, <1>2 DEF Ask, SameAsk

\* What is asked of the port is never None.
LEMMA AskType ==
    ASSUME TypeOK, NEW k \in Calls, call[k].stage # "idle"
    PROVE  Ask(k) \in Port!Asks /\ Ask(k) # None
<1>1. Scope(k) \in SUBSET Ups /\ call[k].want \in [Ups -> [Addrs -> Nat]]
  BY DEF Scope, TypeOK, CallType, Listings, Backends
<1>2. Ask(k) \in [ups : SUBSET Ups, want : [Ups -> [Addrs -> Nat]]]
  BY <1>1 DEF Ask
<1> QED BY <1>2, NoneAssumption DEF Port!Asks, Port!Backends

\* A request of an attempt is one of the open call.
LEMMA AttemptInScope ==
    ASSUME PortInv, NEW k \in Calls, NEW c \in Clients, NEW p \in Pairs, Attempt(k, c, p)
    PROVE  /\ Ask(k) # None /\ p[1] \in Ask(k).ups /\ p[1] \in Ups /\ p[2] \in Addrs
           /\ p = <<p[1], p[2]>> /\ Weight(k, c, p) = Ask(k).want[p[1]][p[2]]
<1>1. call[k].stage \in {"run", "prune"}
  BY TalkingStage DEF PortInv, Attempt, Talking
<1>2. p[1] \in Ups /\ p[2] \in Addrs /\ p = <<p[1], p[2]>>
  BY DEF Pairs
<1>3. Ask(k) # None /\ Ask(k).ups = Scope(k) /\ Ask(k).want = call[k].want
  BY <1>1, AskType DEF PortInv, AdapterInv, Ask
<1>4. CASE /\ call[k].stage = "run" /\ p[1] \in call[k].desired \ call[k].keep
           /\ Weight(k, c, p) = call[k].want[p[1]][p[2]]
  BY <1>2, <1>3, <1>4 DEF Scope
<1>5. CASE call[k].stage = "prune" /\ p[1] \notin call[k].desired /\ Weight(k, c, p) = 0
  <2>1. call[k].bulk /\ PruneOrphans /\ call[k].want[p[1]] = Empty
    BY <1>2, <1>5 DEF PortInv, Deal
  <2> QED BY <1>2, <1>3, <1>5, <2>1 DEF Scope, Empty
<1> QED BY <1>4, <1>5, AttemptAsked DEF PortInv

\* A step that leaves what is asked alone leaves the deals alone.
LEMMA AsksSame ==
    ASSUME PortInv, \A j \in Calls : SameAsk(call'[j], call[j])
    PROVE  /\ \A j \in Calls : Deal(call'[j])
           /\ [j \in Calls |-> Ask(j)]' = [j \in Calls |-> Ask(j)]
BY SameAskKept

\* An error recorded in a call does not change what it asks for.
LEMMA ErrorSameAsk ==
    ASSUME TypeOK, NEW k \in Calls, NEW b,
           \/ call' = [call EXCEPT ![k] = [@ EXCEPT !.err = TRUE, !.addFailed = b]]
           \/ call' = [call EXCEPT ![k].err = TRUE]
           \/ call' = call
    PROVE  \A j \in Calls : SameAsk(call'[j], call[j])
<1>1. call \in [Calls -> CallType] /\ call[k] \in CallType
  BY DEF TypeOK
<1>2. /\ SameAsk([call[k] EXCEPT !.err = TRUE, !.addFailed = b], call[k])
      /\ SameAsk([call[k] EXCEPT !.err = TRUE], call[k])
  BY <1>1 DEF CallType, SameAsk
<1>3. \A j \in Calls : SameAsk(call[j], call[j])
  BY DEF SameAsk
<1>4. \A j \in Calls : \/ call'[j] = call[j]
                       \/ j = k /\ call'[j] = [call[k] EXCEPT !.err = TRUE, !.addFailed = b]
                       \/ j = k /\ call'[j] = [call[k] EXCEPT !.err = TRUE]
  BY <1>1
<1> QED BY <1>2, <1>3, <1>4

\* A goroutine writes, delays a request or is invisible to the port.
LEMMA GoroutineRefines ==
    ASSUME PortInv, NEW k \in Calls, NEW c \in Clients, Acquire(k, c) \/ Goroutine(k, c)
    PROVE  /\ \A j \in Calls : Deal(call'[j])
           /\ Port!Next \/ UNCHANGED Port!vars
<1> DEFINE ask == [j \in Calls |-> Ask(j)]
<1>1. \A j \in Calls : SameAsk(call'[j], call[j])
  <2>1. CASE UNCHANGED call
    BY <2>1, ErrorSameAsk DEF PortInv, AdapterInv
  <2>2. CASE AcquireFails(k, c) \/ FetchFails(k, c)
    BY <2>2, ErrorSameAsk DEF PortInv, AdapterInv, AcquireFails, FetchFails
  <2>3. ASSUME NEW p \in Pairs, RequestFails(k, c, p) PROVE \A j \in Calls : SameAsk(call'[j], call[j])
    <3> DEFINE b == call[k].addFailed \/ job[k][c].adds # {}
    <3>1. call' = [call EXCEPT ![k] = [@ EXCEPT !.err = TRUE, !.addFailed = b]]
      BY <2>3 DEF RequestFails
    <3> HIDE DEF b
    <3> QED BY <3>1, ErrorSameAsk DEF PortInv, AdapterInv
  <2> QED BY <2>1, <2>2, <2>3 DEF Acquire, Goroutine, CacheHit, CacheFetch, CacheStore,
                                  RequestOK, RequestRetried, Finish
<1>2. (\A j \in Calls : Deal(call'[j])) /\ ask' = ask
  BY <1>1, AsksSame
<1>3. ASSUME NEW p \in Pairs, Attempt(k, c, p), Executes(k, c, p) \/ server' = server,
             UNCHANGED late
      PROVE  Port!Next \/ UNCHANGED Port!vars
  <2>1. CASE server' = server
    BY <1>2, <1>3, <2>1 DEF Port!vars
  <2>2. CASE Executes(k, c, p)
    <3>0. server' = [server EXCEPT ![c][p[1]][p[2]] = Ask(k).want[p[1]][p[2]]]
      BY <1>3, <2>2, AttemptInScope DEF Executes
    <3>a. ask[k] = Ask(k) /\ Ask(k) # None /\ p[1] \in Ask(k).ups
      BY <1>3, AttemptInScope
    <3>1. Port!Write(k, c, p[1], p[2])
      BY <1>2, <1>3, <3>0, <3>a DEF Port!Write
    <3> QED BY <3>1, AttemptInScope, <1>3 DEF Port!Next
  <2> QED BY <1>3, <2>1, <2>2
<1>4. ASSUME NEW p \in Pairs, Attempt(k, c, p), Delayed(k, c, p) PROVE Port!Next
  <2>1. Port!Delay(k, c, p[1], p[2])
    BY <1>2, <1>4, AttemptInScope DEF Port!Delay, Delayed
  <2> QED BY <2>1, AttemptInScope, <1>4 DEF Port!Next
<1>5. ASSUME NEW p \in Pairs,
             RequestOK(k, c, p) \/ RequestRetried(k, c, p) \/ RequestFails(k, c, p)
      PROVE  Port!Next \/ UNCHANGED Port!vars
  <2>1. /\ Attempt(k, c, p)
        /\ \/ Delayed(k, c, p)
           \/ (Executes(k, c, p) \/ server' = server) /\ UNCHANGED late
    BY <1>5 DEF RequestOK, RequestRetried, RequestFails, Unanswered, Ignored, AnswerLost
  <2> QED BY <1>3, <1>4, <2>1
<1>6. CASE UNCHANGED <<server, late>>
  BY <1>2, <1>6 DEF Port!vars
<1>7. CASE ~\E p \in Pairs :
             RequestOK(k, c, p) \/ RequestRetried(k, c, p) \/ RequestFails(k, c, p)
  BY <1>6, <1>7 DEF Acquire, Goroutine, AcquireFails, CacheHit, CacheFetch, CacheStore,
                    FetchFails, Finish
<1> QED BY <1>2, <1>5, <1>7

\* The start of a call opens it.
LEMMA OpenRefines ==
    ASSUME PortInv, TypeOK', NEW k \in Calls, call[k].stage = "idle",
           call'[k].stage # "idle", Deal(call'[k]), UNCHANGED <<server, late>>,
           \A j \in Calls \ {k} : SameAsk(call'[j], call[j])
    PROVE  (\A j \in Calls : Deal(call'[j])) /\ Port!Next
<1> DEFINE ask == [j \in Calls |-> Ask(j)]
<1>1. \A j \in Calls \ {k} : Deal(call'[j]) /\ Ask(j)' = Ask(j)
  BY SameAskKept
<1>2. ask[k] = None /\ ask'[k] \in Port!Asks
  <2>1. Scope(k)' \in SUBSET Ups /\ call'[k].want \in [Ups -> [Addrs -> Nat]]
    BY DEF Scope, TypeOK, CallType, Listings, Backends
  <2>2. Ask(k)' \in Port!Asks
    BY <2>1 DEF Ask, Port!Asks, Port!Backends
  <2> QED BY <2>2 DEF Ask
<1>3. ask' = [ask EXCEPT ![k] = ask'[k]]
  BY <1>1
<1>4. Port!Open(k)
  BY <1>2, <1>3 DEF Port!Open
<1> QED BY <1>1, <1>4 DEF Port!Next

\* The end of a call closes it.
LEMMA CloseRefines ==
    ASSUME PortInv, NEW k \in Calls, call[k].stage # "idle", call' = [call EXCEPT ![k] = NoCall],
           UNCHANGED <<server, late>>
    PROVE  (\A j \in Calls : Deal(call'[j])) /\ Port!Next
<1> DEFINE ask == [j \in Calls |-> Ask(j)]
<1>1. /\ call'[k].stage = "idle" /\ call'[k] = NoCall
      /\ \A j \in Calls \ {k} : SameAsk(call'[j], call[j])
  BY DEF PortInv, AdapterInv, TypeOK, SameAsk, NoCall
<1>2. \A j \in Calls \ {k} : Deal(call'[j]) /\ Ask(j)' = Ask(j)
  BY <1>1, SameAskKept
<1>3. Deal(call'[k])
  BY <1>1 DEF Deal
<1>4. ask[k] # None /\ Ask(k)' = None
  BY <1>1, AskType DEF Ask, PortInv, AdapterInv
<1>5. ask' = [ask EXCEPT ![k] = None]
  <2>1. \A j \in Calls : ask'[j] = IF j = k THEN None ELSE ask[j]
    BY <1>2, <1>4
  <2> HIDE DEF ask
  <2>2. ask = [j \in Calls |-> ask[j]] /\ ask' = [j \in Calls |-> ask'[j]]
    BY DEF ask
  <2> QED BY <2>1, <2>2
<1>6. Port!Close(k)
  BY <1>4, <1>5 DEF Port!Close
<1> QED BY <1>2, <1>3, <1>6 DEF Port!Next

\* A writer that joins changes only its own call, but for who is alone.
LEMMA JoinedAsk ==
    ASSUME TypeOK, NEW k \in Calls, NEW rec \in CallType, NEW U, call' = Joined(k, rec, U)
    PROVE  /\ call'[k].stage = rec.stage /\ SameAsk(call'[k], rec)
           /\ \A j \in Calls \ {k} : SameAsk(call'[j], call[j])
<1> DEFINE a == /\ late = {}
                /\ \A i \in Calls \ {k} : ~\E u \in U : Writes(i, u)
<1>1. call'[k] = [rec EXCEPT !.alone = a]
  BY DEF Joined
<1>2. \A j \in Calls \ {k} : call'[j] = call[j] \/ call'[j] = [call[j] EXCEPT !.alone = FALSE]
  BY DEF Joined
<1> HIDE DEF a
<1>3. call'[k].stage = rec.stage /\ SameAsk(call'[k], rec)
  BY <1>1 DEF CallType, SameAsk
<1>4. \A j \in Calls \ {k} : SameAsk([call[j] EXCEPT !.alone = FALSE], call[j])
  BY DEF TypeOK, CallType, SameAsk
<1>5. \A j \in Calls : SameAsk(call[j], call[j])
  BY DEF SameAsk
<1> QED BY <1>2, <1>3, <1>4, <1>5

\* SyncUpstream asks for its one upstream.
LEMMA SyncUpstreamRefines ==
    ASSUME PortInv, TypeOK', NEW k \in Calls, NEW u \in Ups, NEW bs \in Inputs,
           SyncUpstream(k, u, bs)
    PROVE  (\A j \in Calls : Deal(call'[j])) /\ Port!Next
<1> DEFINE w == [[v \in Ups |-> Empty] EXCEPT ![u] = Aggregated(bs)]
           rec == [NoCall EXCEPT !.stage = "run", !.up = u, !.desired = {u}, !.want = w]
<1>1. w \in Listings /\ \A v \in Ups \ {u} : w[v] = Empty
  BY AggregatedType, InputsAssumption, EmptyType DEF Listings
<1>2. call' = Joined(k, rec, {u}) /\ call[k].stage = "idle" /\ UNCHANGED <<server, late>>
  BY DEF SyncUpstream, NoCall
<1> HIDE DEF w
<1>3. rec \in CallType /\ rec.stage = "run" /\ rec.desired = {u} /\ rec.want = w
  BY <1>1 DEF NoCall, CallType
<1> HIDE DEF rec
<1>4. /\ call'[k].stage = "run" /\ SameAsk(call'[k], rec)
      /\ \A j \in Calls \ {k} : SameAsk(call'[j], call[j])
  BY <1>2, <1>3, JoinedAsk DEF PortInv, AdapterInv
<1>5. Deal(call'[k])
  BY <1>1, <1>3, <1>4 DEF Deal, SameAsk
<1> QED BY <1>2, <1>4, <1>5, OpenRefines

\* An upstream that is not desired is asked to be empty.
LEMMA NoInput == Aggregated(<< >>) = Empty
<1> SUFFICES ASSUME NEW x \in Addrs
             PROVE  Cardinality(UNION {Units(<< >>, i) :
                                         i \in {j \in 1..Len(<< >>) : << >>[j].addr = x}}) = 0
  BY DEF Aggregated, Empty
<1>1. {j \in 1..Len(<< >>) : << >>[j].addr = x} = {}
  OBVIOUS
<1> QED BY <1>1, FS_EmptySet

\* SyncAllUpstreams asks for what is desired and not preserved, and its prune
\* for the upstreams that are not desired.
LEMMA SyncAllRefines ==
    ASSUME PortInv, TypeOK', NEW k \in Calls, NEW desired \in SUBSET Ups,
           NEW keep \in SUBSET desired, NEW f \in [Ups -> Seq([addr : Addrs, weight : Nat])],
           \A u \in Ups \ desired : f[u] = << >>, SyncAllUpstreams(k, desired, keep, f)
    PROVE  (\A j \in Calls : Deal(call'[j])) /\ Port!Next
<1> DEFINE w == [u \in Ups |-> Aggregated(f[u])]
           rec == [NoCall EXCEPT !.stage = "next", !.bulk = TRUE, !.desired = desired,
                                 !.keep = keep, !.left = desired \ keep, !.want = w]
<1>1. \A u \in Ups \ desired : w[u] = Empty
  BY NoInput
<1>2. call' = [call EXCEPT ![k] = rec] /\ call[k].stage = "idle" /\ UNCHANGED <<server, late>>
  BY DEF SyncAllUpstreams
<1> HIDE DEF w
<1>3. rec.stage = "next" /\ rec.desired = desired /\ rec.want = w /\ rec.bulk
  BY DEF NoCall
<1> HIDE DEF rec
<1>4. call'[k] = rec /\ \A j \in Calls \ {k} : SameAsk(call'[j], call[j])
  BY <1>2 DEF PortInv, AdapterInv, TypeOK, SameAsk
<1>5. Deal(call'[k])
  BY <1>1, <1>3, <1>4 DEF Deal
<1> QED BY <1>2, <1>3, <1>4, <1>5, OpenRefines

\* The steps of a bulk call between its start and its end are invisible.
LEMMA CallerRefines ==
    ASSUME PortInv, NEW k \in Calls, Caller(k)
    PROVE  /\ \A j \in Calls : Deal(call'[j])
           /\ Port!Next \/ UNCHANGED Port!vars
<1>0. call[k] \in CallType /\ call \in [Calls -> CallType] /\ TypeOK
  BY DEF PortInv, AdapterInv, TypeOK
<1>1. CASE UNCHANGED <<server, late>> /\ \A j \in Calls : SameAsk(call'[j], call[j])
  BY <1>1, AsksSame DEF Port!vars
<1>2. ASSUME NEW rec \in CallType, NEW U, call' = Joined(k, rec, U), SameAsk(rec, call[k])
      PROVE  \A j \in Calls : SameAsk(call'[j], call[j])
  BY <1>0, <1>2, JoinedAsk DEF SameAsk
<1>3. ASSUME NEW u \in Ups, NextUpstream(k, u)
      PROVE  \A j \in Calls : SameAsk(call'[j], call[j])
  <2> DEFINE rec == [call[k] EXCEPT !.stage = "run", !.up = u, !.left = @ \ {u}]
  <2>1. rec \in CallType /\ SameAsk(rec, call[k])
    BY <1>0, <1>3 DEF CallType, SameAsk, NextUpstream
  <2>2. call' = Joined(k, rec, {u})
    BY <1>3 DEF NextUpstream
  <2> QED BY <1>2, <2>1, <2>2
<1>4. CASE StartPrune(k) /\ ~PruneOrphans
  BY <1>4, CloseRefines DEF StartPrune
<1>5. CASE StartPrune(k) /\ PruneOrphans
  <2> DEFINE rec == [call[k] EXCEPT !.stage = "prune", !.up = None]
  <2>0. call[k].bulk /\ call[k].stage = "next"
    BY <1>5 DEF StartPrune, PortInv, Deal
  <2>1. rec \in CallType /\ SameAsk(rec, call[k])
    BY <1>0, <1>5, <2>0 DEF CallType, SameAsk
  <2>2. call' = Joined(k, rec, Ups \ call[k].desired) /\ UNCHANGED <<server, late>>
    BY <1>5 DEF StartPrune
  <2> QED BY <1>1, <1>2, <2>1, <2>2
<1>6. CASE Return(k) /\ ~(call[k].stage = "run" /\ call[k].bulk)
  <2>1. call' = [call EXCEPT ![k] = NoCall] /\ call[k].stage # "idle"
    BY <1>6 DEF Return
  <2> QED BY <1>6, <2>1, CloseRefines DEF Return
<1>7. CASE Return(k) /\ call[k].stage = "run" /\ call[k].bulk
  <2> DEFINE rec == [call[k] EXCEPT !.stage = "next", !.up = None, !.addFailed = FALSE]
  <2>1. call' = [call EXCEPT ![k] = rec] /\ UNCHANGED <<server, late>>
    BY <1>7 DEF Return
  <2>2. SameAsk(rec, call[k])
    BY <1>0, <1>7 DEF CallType, SameAsk
  <2> HIDE DEF rec
  <2>3. \A j \in Calls : SameAsk(call'[j], call[j])
    BY <1>0, <2>1, <2>2 DEF SameAsk
  <2> QED BY <1>1, <2>1, <2>3
<1> QED BY <1>1, <1>3, <1>4, <1>5, <1>6, <1>7 DEF Caller, NextUpstream

\* A late request is carried out.
LEMMA LateRefines ==
    ASSUME PortInv, NEW r \in late, LateRequest(r)
    PROVE  (\A j \in Calls : Deal(call'[j])) /\ Port!Next
<1>1. \A j \in Calls : SameAsk(call'[j], call[j])
  BY DEF LateRequest, SameAsk
<1>2. Port!CarryOut(r) /\ \A j \in Calls : Deal(call'[j])
  BY <1>1, AsksSame DEF Port!CarryOut, LateRequest
<1> QED BY <1>2 DEF Port!Next

\* Every step of the adapter is one of the port, or invisible to its callers.
LEMMA PortStep ==
    PortInv /\ [Next]_vars => PortInv' /\ [Port!Next]_(Port!vars)
<1> SUFFICES ASSUME PortInv, [Next]_vars
             PROVE  (\A j \in Calls : Deal(call'[j])) /\ (Port!Next \/ UNCHANGED Port!vars)
  BY AdapterStep DEF PortInv
<1>0. TypeOK'
  BY AdapterStep DEF PortInv, AdapterInv
<1>1. ASSUME NEW k \in Calls, Start(k) PROVE (\A j \in Calls : Deal(call'[j])) /\ Port!Next
  <2>1. CASE \E u \in Ups, bs \in Inputs : SyncUpstream(k, u, bs)
    BY <1>0, <2>1, SyncUpstreamRefines
  <2>2. ASSUME NEW desired \in SUBSET Ups, NEW keep \in SUBSET desired,
               NEW f \in [desired -> Inputs],
               SyncAllUpstreams(k, desired, keep,
                                [u \in Ups |-> IF u \in desired THEN f[u] ELSE << >>])
        PROVE  (\A j \in Calls : Deal(call'[j])) /\ Port!Next
    <3> DEFINE g == [u \in Ups |-> IF u \in desired THEN f[u] ELSE << >>]
    <3>1. /\ g \in [Ups -> Seq([addr : Addrs, weight : Nat])]
          /\ \A u \in Ups \ desired : g[u] = << >>
      BY InputsAssumption, EmptySeq
    <3> HIDE DEF g
    <3> QED BY <1>0, <2>2, <3>1, SyncAllRefines DEF g
  <2> QED BY <1>1, <2>1, <2>2 DEF Start
<1>2. CASE \E k \in Calls : Caller(k) \/ \E c \in Clients : Acquire(k, c) \/ Goroutine(k, c)
  BY <1>2, CallerRefines, GoroutineRefines
<1>3. CASE \E r \in late : LateRequest(r)
  BY <1>3, LateRefines
<1>4. CASE (\E c \in Clients : Expire(c)) \/ CtxEnds \/ UNCHANGED vars
  <2>1. UNCHANGED <<server, late, call>>
    BY <1>4 DEF Expire, CtxEnds, vars
  <2>2. \A j \in Calls : SameAsk(call'[j], call[j])
    BY <2>1 DEF SameAsk
  <2> QED BY <2>1, <2>2, AsksSame DEF Port!vars
<1> QED BY <1>1, <1>2, <1>3, <1>4 DEF Next

\* Initially no call is open.
LEMMA PortInit == Init => PortInv /\ Port!Init
<1> SUFFICES ASSUME Init PROVE PortInv /\ Port!Init
  OBVIOUS
<1>1. AdapterInv /\ \A k \in Calls : call[k].stage = "idle"
  BY AdapterInit DEF Init, NoCall
<1>2. PortInv
  BY <1>1 DEF PortInv, Deal
<1>3. server \in [Clients -> [Ups -> [Addrs -> Nat]]]
  BY <1>1 DEF AdapterInv, TypeOK, Listings, Backends
<1>4. \A k \in Calls : Ask(k) = None
  BY <1>1 DEF Ask
<1> QED BY <1>2, <1>3, <1>4 DEF Init, Port!Init, Port!Backends

\* The adapter implements the port for any number of callers, NGINX instances,
\* attempts and permits: whatever its listings, retries and time-outs, what it
\* writes is what an open call asks for, or a request of an earlier one.
THEOREM PortImplemented == Spec => PortRefined
<1>1. Init => PortInv /\ Port!Init
  BY PortInit
<1>2. PortInv /\ [Next]_vars => PortInv' /\ [Port!Next]_(Port!vars)
  BY PortStep
<1> QED BY <1>1, <1>2, PTL DEF Spec, PortRefined, Port!Spec
=============================================================================
