-------------------------- MODULE TurnCoordinator --------------------------
(***************************************************************************)
(* core/concurrency.py: admission of streamed turns and the ownership and  *)
(* cancellation of a session's generation.                                  *)
(*                                                                          *)
(* Every API process has one TurnCoordinator object: a global semaphore, a  *)
(* semaphore per user, and two dictionaries under one lock.  With Redis the *)
(* processes also share two capacity counters, a generation key and a       *)
(* cancellation key per session.  A run is one turn: the generation IS the  *)
(* run id.  acquire is split at every point where another thread or another *)
(* process can act; a Redis call that raises may or may not have taken      *)
(* effect on the server.                                                    *)
(***************************************************************************)
EXTENDS Naturals, FiniteSets

CONSTANTS
  Procs,             \* API processes, each with its own TurnCoordinator
  Sessions, Users,
  Runs,              \* run ids = generations; each is acquired at most once
  SessionOf, UserOf, \* [Runs -> Sessions], [Runs -> Users]
  MaxStreams,        \* HAILIANG_MAX_SSE_CONNECTIONS
  PerUser,           \* HAILIANG_MAX_SSE_PER_USER
  RedisEnabled,      \* production (TRUE) or the local development service
  LeasesOutliveTTL,  \* may a capacity counter live 900 s while leases are held?
  Stoppable,         \* bound: the runs some user tries to stop
  MaxFaults,         \* bound: Redis calls that raise
  MaxCrashes,        \* bound: processes that die
  None

ASSUME ConstantsAssumption ==
  /\ SessionOf \in [Runs -> Sessions]
  /\ UserOf \in [Runs -> Users]
  /\ IsFiniteSet(Runs)
  /\ MaxStreams \in Nat /\ PerUser \in Nat
  /\ RedisEnabled \in BOOLEAN /\ LeasesOutliveTTL \in BOOLEAN
  /\ Stoppable \subseteq Runs
  /\ MaxFaults \in Nat /\ MaxCrashes \in Nat
  /\ None \notin Runs \cup Procs

VARIABLES
  permits,         \* _global, per process
  userPermits,     \* _user_locks[user], per process
  localGen,        \* _local_generations, per process
  localCancelled,  \* _local_cancelled, per process
  redisActive,     \* hailiang:sse:active
  redisUser,       \* hailiang:sse:user:<user>
  redisGen,        \* hailiang:turn:<session>:generation
  redisCancelled,  \* hailiang:turn:<session>:cancelled
  pc,              \* where the run's acquire/release is
  proc,            \* the process that serves the run
  cancelling,      \* cancel calls between the local mark and the Redis eval
  acked,           \* runs for which some cancel returned True
  rejected,        \* runs for which cancel returned False while they were current
  faults, crashes  \* bounded counters of the environment's misfortunes

local == <<permits, userPermits, localGen, localCancelled>>
redis == <<redisActive, redisUser, redisGen, redisCancelled>>
stops == <<cancelling, acked, rejected>>
env   == <<faults, crashes>>
vars  == <<local, redis, pc, proc, stops, env>>

-----------------------------------------------------------------------------
(* The stages of acquire and release. *)

WaitsGlobal == {"arrived"}
HasGlobal   == {"user"}                        \* _global acquired
HasBoth     == {"admitted", "reserve", "counted", "held"}
Counted     == {"counted", "held", "closing"}  \* the Redis counters include the run
Settled     == {"refused", "done"}
Stages      == {"idle"} \cup WaitsGlobal \cup HasGlobal \cup HasBoth
                 \cup Counted \cup Settled

At(r) == SessionOf[r]
Own(r) == UserOf[r]

Held(r) == pc[r] = "held"
CountedRuns == {r \in Runs : pc[r] \in Counted}
CountedOf(u) == {r \in CountedRuns : UserOf[r] = u}

Init ==
  /\ permits = [p \in Procs |-> MaxStreams]
  /\ userPermits = [p \in Procs |-> [u \in Users |-> PerUser]]
  /\ localGen = [p \in Procs |-> [s \in Sessions |-> None]]
  /\ localCancelled = [p \in Procs |-> [s \in Sessions |-> None]]
  /\ redisActive = 0
  /\ redisUser = [u \in Users |-> 0]
  /\ redisGen = [s \in Sessions |-> None]
  /\ redisCancelled = [s \in Sessions |-> None]
  /\ pc = [r \in Runs |-> "idle"]
  /\ proc = [r \in Runs |-> None]
  /\ cancelling = {} /\ acked = {} /\ rejected = {}
  /\ faults = 0 /\ crashes = 0

-----------------------------------------------------------------------------
(* supersede: called by the chat handler before the new run is acquired.    *)
(* Only this process's dictionaries change; Redis is not touched.           *)

Supersede(p, r) ==
  LET current == localGen[p][At(r)] IN
  /\ current \notin {None, r}
  /\ localCancelled' = [localCancelled EXCEPT ![p][At(r)] = current]
  /\ localGen' = [localGen EXCEPT ![p][At(r)] = r]
  /\ UNCHANGED <<permits, userPermits, redis, pc, proc, stops, env>>

\* Process p calls acquire for the run, superseded others or not: the non-v2
\* endpoints do not, nor does a request that switches the child profile.
Arrive(p, r) ==
  /\ pc[r] = "idle"
  /\ pc' = [pc EXCEPT ![r] = "arrived"]
  /\ proc' = [proc EXCEPT ![r] = p]
  /\ UNCHANGED <<local, redis, stops, env>>

-----------------------------------------------------------------------------
(* acquire *)

AcquireGlobal(r) ==
  LET p == proc[r] IN
  /\ pc[r] = "arrived"
  /\ permits[p] > 0
  /\ permits' = [permits EXCEPT ![p] = @ - 1]
  /\ pc' = [pc EXCEPT ![r] = "user"]
  /\ UNCHANGED <<userPermits, localGen, localCancelled, redis, proc, stops, env>>

\* The queue timeout lapses with the semaphore still at zero.
GlobalTimeout(r) ==
  /\ pc[r] = "arrived"
  /\ permits[proc[r]] = 0
  /\ pc' = [pc EXCEPT ![r] = "refused"]
  /\ UNCHANGED <<local, redis, proc, stops, env>>

AcquireUser(r) ==
  LET p == proc[r] IN
  /\ pc[r] = "user"
  /\ userPermits[p][Own(r)] > 0
  /\ userPermits' = [userPermits EXCEPT ![p][Own(r)] = @ - 1]
  /\ pc' = [pc EXCEPT ![r] = "admitted"]
  /\ UNCHANGED <<permits, localGen, localCancelled, redis, proc, stops, env>>

UserTimeout(r) ==
  LET p == proc[r] IN
  /\ pc[r] = "user"
  /\ userPermits[p][Own(r)] = 0
  /\ permits' = [permits EXCEPT ![p] = @ + 1]
  /\ pc' = [pc EXCEPT ![r] = "refused"]
  /\ UNCHANGED <<userPermits, localGen, localCancelled, redis, proc, stops, env>>

PopCancelled(p, r) ==
  localCancelled' = IF localCancelled[p][At(r)] = r
                      THEN [localCancelled EXCEPT ![p][At(r)] = None]
                      ELSE localCancelled

SetGeneration(r) ==
  LET p == proc[r] IN
  /\ pc[r] = "admitted"
  /\ localGen' = [localGen EXCEPT ![p][At(r)] = r]
  /\ PopCancelled(p, r)
  /\ pc' = [pc EXCEPT ![r] = IF RedisEnabled THEN "reserve" ELSE "held"]
  /\ UNCHANGED <<permits, userPermits, redis, proc, stops, env>>

\* Mutant: a refused run keeps its permits.
KeepPermits(r) == UNCHANGED <<permits, userPermits>>

\* user_sem.release() and _global.release() of the run's process.
ReturnPermits(r) ==
  LET p == proc[r] IN
  /\ permits' = [permits EXCEPT ![p] = @ + 1]
  /\ userPermits' = [userPermits EXCEPT ![p][Own(r)] = @ + 1]

\* Mutant: the caps are compared before the increment.
CapPassed(r) == redisActive > MaxStreams \/ redisUser[Own(r)] > PerUser

CapReached(r) == \/ redisActive + 1 > MaxStreams
                 \/ redisUser[Own(r)] + 1 > PerUser

IncrementCounters(r) ==
  /\ redisActive' = redisActive + 1
  /\ redisUser' = [redisUser EXCEPT ![Own(r)] = @ + 1]

\* _release_redis_capacity: each counter is decremented unless it is at zero.
DecrementCounters(r) ==
  /\ redisActive' = IF redisActive > 0 THEN redisActive - 1 ELSE 0
  /\ redisUser' = [redisUser EXCEPT ![Own(r)] = IF @ > 0 THEN @ - 1 ELSE 0]

ReserveRedis(r) ==
  /\ pc[r] = "reserve"
  /\ ~CapReached(r)
  /\ IncrementCounters(r)
  /\ pc' = [pc EXCEPT ![r] = "counted"]
  /\ UNCHANGED <<local, redisGen, redisCancelled, proc, stops, env>>

ReserveRefused(r) ==
  /\ pc[r] = "reserve"
  /\ CapReached(r)
  /\ ReturnPermits(r)
  /\ pc' = [pc EXCEPT ![r] = "refused"]
  /\ UNCHANGED <<localGen, localCancelled, redis, proc, stops, env>>

\* The eval raises: redis_reserved stays False, so a call that did reach the
\* server leaves its increment behind.
ReserveFault(r) ==
  /\ pc[r] = "reserve"
  /\ faults < MaxFaults
  /\ faults' = faults + 1
  /\ \/ UNCHANGED <<redisActive, redisUser>>
     \/ ~CapReached(r) /\ IncrementCounters(r)
  /\ ReturnPermits(r)
  /\ pc' = [pc EXCEPT ![r] = "done"]
  /\ UNCHANGED <<localGen, localCancelled, redisGen, redisCancelled, proc, stops, crashes>>

PublishGeneration(r) ==
  /\ pc[r] = "counted"
  /\ redisGen' = [redisGen EXCEPT ![At(r)] = r]
  /\ pc' = [pc EXCEPT ![r] = "held"]
  /\ UNCHANGED <<local, redisActive, redisUser, redisCancelled, proc, stops, env>>

\* The SET raises: permits go back and the reserved capacity is returned.
PublishFault(r) ==
  /\ pc[r] = "counted"
  /\ faults < MaxFaults
  /\ faults' = faults + 1
  /\ \/ UNCHANGED redisGen
     \/ redisGen' = [redisGen EXCEPT ![At(r)] = r]
  /\ ReturnPermits(r)
  /\ pc' = [pc EXCEPT ![r] = "closing"]
  /\ UNCHANGED <<localGen, localCancelled, redisActive, redisUser, redisCancelled,
                 proc, stops, crashes>>

-----------------------------------------------------------------------------
(* release: the local half, then the counters; a failing decrement is       *)
(* swallowed and leaks the permit until the key expires.                    *)

Release(r) ==
  /\ Held(r)
  /\ PopCancelled(proc[r], r)
  /\ ReturnPermits(r)
  /\ pc' = [pc EXCEPT ![r] = IF RedisEnabled THEN "closing" ELSE "done"]
  /\ UNCHANGED <<localGen, redis, proc, stops, env>>

ReleaseRedis(r) ==
  /\ pc[r] = "closing"
  /\ DecrementCounters(r)
  /\ pc' = [pc EXCEPT ![r] = "done"]
  /\ UNCHANGED <<local, redisGen, redisCancelled, proc, stops, env>>

\* Mutant: a failing decrement is retried although it may have been applied.
ReleaseFaultRetries(r) ==
  /\ pc[r] = "closing"
  /\ faults < MaxFaults
  /\ faults' = faults + 1
  /\ DecrementCounters(r)
  /\ UNCHANGED <<local, redisGen, redisCancelled, pc, proc, stops, crashes>>

ReleaseFault(r) ==
  /\ pc[r] = "closing"
  /\ faults < MaxFaults
  /\ faults' = faults + 1
  /\ pc' = [pc EXCEPT ![r] = "done"]
  /\ UNCHANGED <<local, redis, proc, stops, crashes>>

-----------------------------------------------------------------------------
(* is_current and is_cancelled, as the run's own process evaluates them     *)
(* when Redis answers.  When it does not, is_current is False.              *)

\* Mutant: only this process's generation is compared.
IsCurrentLocally(r) == localGen[proc[r]][At(r)] = r

IsCurrent(r) ==
  /\ localGen[proc[r]][At(r)] = r
  /\ RedisEnabled => redisGen[At(r)] = r

\* Mutant: only this process's mark is looked at.
IsCancelledLocally(r) == localCancelled[proc[r]][At(r)] = r

IsCancelled(r) ==
  \/ localCancelled[proc[r]][At(r)] = r
  \/ RedisEnabled /\ redisCancelled[At(r)] = r

(* cancel(session, run) served by process p. *)

CancelLocal(p, r) ==
  /\ r \in Stoppable
  /\ localGen[p][At(r)] = r
  /\ <<p, r>> \notin cancelling
  /\ localCancelled' = [localCancelled EXCEPT ![p][At(r)] = r]
  /\ IF RedisEnabled
       THEN cancelling' = cancelling \cup {<<p, r>>} /\ UNCHANGED acked
       ELSE acked' = acked \cup {r} /\ UNCHANGED cancelling
  /\ UNCHANGED <<permits, userPermits, localGen, redis, pc, proc, rejected, env>>

\* cancel returns False at once: this process does not know the run.
CancelRejected(p, r) ==
  /\ r \in Stoppable
  /\ localGen[p][At(r)] # r
  /\ Held(r) /\ IsCurrent(r)
  /\ rejected' = rejected \cup {r}
  /\ UNCHANGED <<local, redis, pc, proc, cancelling, acked, env>>

CancelRedis(p, r) ==
  /\ <<p, r>> \in cancelling
  /\ cancelling' = cancelling \ {<<p, r>>}
  /\ IF redisGen[At(r)] = r
       THEN /\ redisCancelled' = [redisCancelled EXCEPT ![At(r)] = r]
            /\ acked' = acked \cup {r}
            /\ UNCHANGED localCancelled
       ELSE /\ PopCancelled(p, r)
            /\ UNCHANGED <<redisCancelled, acked>>
  /\ UNCHANGED <<permits, userPermits, localGen, redisActive, redisUser, redisGen,
                 pc, proc, rejected, env>>

\* The eval raises: cancel answers True on the strength of the local mark.
CancelFault(p, r) ==
  /\ <<p, r>> \in cancelling
  /\ faults < MaxFaults
  /\ faults' = faults + 1
  /\ cancelling' = cancelling \ {<<p, r>>}
  /\ acked' = acked \cup {r}
  /\ \/ UNCHANGED redisCancelled
     \/ /\ redisGen[At(r)] = r
        /\ redisCancelled' = [redisCancelled EXCEPT ![At(r)] = r]
  /\ UNCHANGED <<local, redisActive, redisUser, redisGen, pc, proc, rejected, crashes>>

-----------------------------------------------------------------------------
(* The environment: keys expire after 900 s, processes die.                 *)

\* A counter's TTL is set when it goes from 0 to 1 and never refreshed.
\* Mutant: the expiry is armed by the second increment.
ExpireActiveSecond ==
  /\ redisActive > 1
  /\ LeasesOutliveTTL \/ CountedRuns = {}
  /\ redisActive' = 0
  /\ UNCHANGED <<local, redisUser, redisGen, redisCancelled, pc, proc, stops, env>>

ExpireActive ==
  /\ redisActive > 0
  /\ LeasesOutliveTTL \/ CountedRuns = {}
  /\ redisActive' = 0
  /\ UNCHANGED <<local, redisUser, redisGen, redisCancelled, pc, proc, stops, env>>

ExpireUser(u) ==
  /\ redisUser[u] > 0
  /\ LeasesOutliveTTL \/ CountedOf(u) = {}
  /\ redisUser' = [redisUser EXCEPT ![u] = 0]
  /\ UNCHANGED <<local, redisActive, redisGen, redisCancelled, pc, proc, stops, env>>

ExpireGeneration(s) ==
  /\ redisGen[s] # None
  /\ LeasesOutliveTTL \/ \A r \in CountedRuns : At(r) # s
  /\ redisGen' = [redisGen EXCEPT ![s] = None]
  /\ UNCHANGED <<local, redisActive, redisUser, redisCancelled, pc, proc, stops, env>>

\* The mark is written after its generation with the same TTL: it goes later.
ExpireCancelled(s) ==
  /\ redisCancelled[s] \notin {None, redisGen[s]}
  /\ LeasesOutliveTTL \/ \A r \in CountedRuns : At(r) # s
  /\ redisCancelled' = [redisCancelled EXCEPT ![s] = None]
  /\ UNCHANGED <<local, redisActive, redisUser, redisGen, pc, proc, stops, env>>

\* A process dies and restarts empty; what it held in Redis stays there.
Crash(p) ==
  /\ crashes < MaxCrashes
  /\ crashes' = crashes + 1
  /\ permits' = [permits EXCEPT ![p] = MaxStreams]
  /\ userPermits' = [userPermits EXCEPT ![p] = [u \in Users |-> PerUser]]
  /\ localGen' = [localGen EXCEPT ![p] = [s \in Sessions |-> None]]
  /\ localCancelled' = [localCancelled EXCEPT ![p] = [s \in Sessions |-> None]]
  /\ pc' = [r \in Runs |-> IF proc[r] = p THEN "done" ELSE pc[r]]
  /\ cancelling' = {c \in cancelling : c[1] # p}
  /\ UNCHANGED <<redis, proc, acked, rejected, faults>>

-----------------------------------------------------------------------------

Acquire(r) ==
  \/ AcquireGlobal(r) \/ GlobalTimeout(r)
  \/ AcquireUser(r) \/ UserTimeout(r)
  \/ SetGeneration(r)
  \/ ReserveRedis(r) \/ ReserveRefused(r) \/ ReserveFault(r)
  \/ PublishGeneration(r) \/ PublishFault(r)

ReleaseStep(r) == Release(r) \/ ReleaseRedis(r) \/ ReleaseFault(r)

CancelStep(p, r) ==
  CancelLocal(p, r) \/ CancelRejected(p, r) \/ CancelRedis(p, r) \/ CancelFault(p, r)

Expire == \/ ExpireActive
          \/ \E u \in Users : ExpireUser(u)
          \/ \E s \in Sessions : ExpireGeneration(s) \/ ExpireCancelled(s)

Next ==
  \/ \E r \in Runs : Acquire(r) \/ ReleaseStep(r)
  \/ \E p \in Procs, r \in Runs :
       Arrive(p, r) \/ (pc[r] = "idle" /\ Supersede(p, r)) \/ CancelStep(p, r)
  \/ Expire
  \/ \E p \in Procs : Crash(p)

Spec == Init /\ [][Next]_vars

\* A request thread runs on, a stream's worker reaches its finally block, and
\* Redis does expire keys.  Requests, stops, faults and crashes are not owed.
Fairness ==
  /\ \A r \in Runs : WF_vars(Acquire(r)) /\ WF_vars(ReleaseStep(r))
  /\ WF_vars(ExpireActive)
  /\ \A u \in Users : WF_vars(ExpireUser(u))

FairSpec == Spec /\ Fairness

-----------------------------------------------------------------------------
(* Properties *)

RunOrNone == Runs \cup {None}

TypeOK ==
  /\ permits \in [Procs -> 0..MaxStreams]
  /\ userPermits \in [Procs -> [Users -> 0..PerUser]]
  /\ localGen \in [Procs -> [Sessions -> RunOrNone]]
  /\ localCancelled \in [Procs -> [Sessions -> RunOrNone]]
  /\ redisActive \in Nat
  /\ redisUser \in [Users -> Nat]
  /\ redisGen \in [Sessions -> RunOrNone]
  /\ redisCancelled \in [Sessions -> RunOrNone]
  /\ pc \in [Runs -> Stages]
  /\ proc \in [Runs -> Procs \cup {None}]
  /\ \A r \in Runs : pc[r] # "idle" => proc[r] \in Procs
  /\ cancelling \subseteq Procs \X Runs
  /\ acked \subseteq Runs /\ rejected \subseteq Runs
  /\ faults \in 0..MaxFaults /\ crashes \in 0..MaxCrashes

HoldersOfGlobal(p) == {r \in Runs : proc[r] = p /\ pc[r] \in HasGlobal \cup HasBoth}
HoldersOfUser(p, u) ==
  {r \in Runs : proc[r] = p /\ UserOf[r] = u /\ pc[r] \in HasBoth}

\* No path out of acquire or release, a refusal, a Redis error or a crash
\* included, loses or duplicates a permit of a process's semaphores.
PermitsConserved ==
  \A p \in Procs :
    /\ permits[p] + Cardinality(HoldersOfGlobal(p)) = MaxStreams
    /\ \A u \in Users :
         userPermits[p][u] + Cardinality(HoldersOfUser(p, u)) = PerUser

\* As long as no counter expires under a live lease, the shared counters never
\* fall below the number of runs they stand for, whatever calls fail: errors
\* and crashes leak capacity, they never hand it out twice.
CapacityCovered ==
  RedisEnabled /\ ~LeasesOutliveTTL =>
    /\ Cardinality(CountedRuns) <= redisActive /\ redisActive <= MaxStreams
    /\ \A u \in Users :
         Cardinality(CountedOf(u)) <= redisUser[u] /\ redisUser[u] <= PerUser

Leases == {r \in Runs : pc[r] \in {"counted", "held"}}

Gate == INSTANCE CapacityGate WITH leases <- Leases

\* The processes together implement one deployment-wide admission gate.
ImplementsGate == Gate!Spec

Displaced(r) == Held(r) /\ ~( /\ localGen[proc[r]][At(r)] = r
                              /\ RedisEnabled => redisGen[At(r)] = r )

\* A stream that another turn displaced never becomes the session's current
\* stream again, however the steps of acquire, supersede and expiry interleave.
DisplacedForGood ==
  [][\A r \in Runs : Displaced(r) /\ Held(r)' => Displaced(r)' /\ ~IsCurrent(r)']_vars

\* As long as Redis answers, a stop that was acknowledged is seen by the run's
\* worker for as long as the run may still output or persist.
AckedStopSticks ==
  faults = 0 => \A r \in acked : Held(r) /\ IsCurrent(r) => IsCancelled(r)

\* When requests stop coming, all capacity comes back: every process has its
\* permits, and what failed calls and dead processes leaked in Redis is gone.
CapacityRecovers ==
  <>[]( /\ \A p \in Procs : /\ permits[p] = MaxStreams
                            /\ \A u \in Users : userPermits[p][u] = PerUser
        /\ redisActive = 0 /\ \A u \in Users : redisUser[u] = 0 )
=============================================================================
