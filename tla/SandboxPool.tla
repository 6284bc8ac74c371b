------------------------------ MODULE SandboxPool ------------------------------
(***************************************************************************)
(* Script execution in pooled sandboxes (runtime_bridge/ms_agent_adapter.py,*)
(* runtime_bridge/script_cache.py, agent_skill_runtime_core/core.py).      *)
(*                                                                         *)
(* Requests of several threads run the script of a skill.  A request waits *)
(* for the preparation of its skill, looks in the result cache, takes a    *)
(* worker of the pool (creating, expiring or evicting one under the lock of*)
(* the pool) or, after a timeout, a sandbox of its own, runs, gives the    *)
(* worker back and, if the run failed, throws it away.  Start-up prepares  *)
(* skills in the background and puts a first worker in the pool.           *)
(***************************************************************************)
EXTENDS Integers, FiniteSets, Sequences

CONSTANTS
  Requests,
  Keys,       \* skill, content, requirements, image and policy: what a worker is for
  Native,     \* keys of skills that are prepared when the application starts
  KeyOf,      \* the key of a request
  Script,     \* the cache key of a request's script and input; None if not cacheable
  SizeOf,     \* the size of the result
  Workers,    \* identities of workers; one that is gone may be used again
  MaxTotal,   \* sandbox_worker_pool_max_total
  PoolSize,   \* sandbox_worker_pool_size_per_key
  MaxEntries, MaxBytes,   \* of the result cache
  None

Callers == Requests \cup Keys  \* a key stands for its background preparation
Of(c) == IF c \in Keys THEN c ELSE KeyOf[c]
Results == {Script[r] : r \in Requests} \ {None}

ASSUME SandboxPoolAssumption ==
  /\ Requests \cap Keys = {} /\ None \notin Requests \cup Keys \cup Workers
  /\ KeyOf \in [Requests -> Keys] /\ Native \subseteq Keys
  /\ SizeOf \in [Results -> Nat]
  /\ MaxTotal \in Nat \ {0} /\ PoolSize \in Nat \ {0}
  /\ MaxEntries \in Nat \ {0} /\ MaxBytes \in Nat

VARIABLES
  pc,      \* where each caller is
  my,      \* the worker it has taken
  end,     \* how its run ended
  pooled,  \* the workers in the pool
  keyOf,   \* what a worker is for
  locked,  \* workers whose lock is held
  paid,    \* workers with capacity_reserved
  free,    \* the value of _sandbox_capacity
  prep,    \* _sandbox_prepare_records: the future of each key
  cache,   \* _items of the result cache, oldest first
  bytes,   \* _bytes of it
  off,     \* close() has run
  failed   \* history: workers in which a run failed

poolVars == <<pooled, keyOf, locked, paid, free>>
cacheVars == <<cache, bytes>>
vars == <<pc, my, end, pooled, keyOf, locked, paid, free, prep, cache, bytes, off, failed>>

Init ==
  /\ \E native \in {{}, Native} :   \* nothing, if prewarming is off
       /\ prep = [k \in Keys |-> IF k \in native THEN "running" ELSE "none"]
       /\ pc = [c \in Callers |-> IF c \in native THEN "preparing"
                                  ELSE IF c \in Keys THEN "done" ELSE "idle"]
  /\ my = [c \in Callers |-> None]
  /\ end = [c \in Callers |-> None]
  /\ pooled = {} /\ locked = {} /\ paid = {}
  /\ keyOf = [w \in Workers |-> None]
  /\ free = MaxTotal
  /\ cache = <<>> /\ bytes = 0
  /\ off = FALSE
  /\ failed = {}

Goto(c, p) == pc' = [pc EXCEPT ![c] = p]
At(c, p) == pc[c] = p
Uses(c, w) == my[c] = w /\ pc[c] \in {"run", "rerun", "release"}

-----------------------------------------------------------------------------
(* Preparation.                                                            *)

\* A request finds a record, or prepares the sandbox itself without leaving one.
Start(r) ==
  /\ At(r, "idle")
  /\ \E p \in IF prep[Of(r)] = "none" THEN {"look", "done"} ELSE {"await"} : Goto(r, p)
  /\ UNCHANGED <<my, end, prep, off, failed, poolVars, cacheVars>>

\* A main-planner helper from the allowlist needs no sandbox.
StartLocal(r) ==
  /\ At(r, "idle")
  /\ Goto(r, "done")
  /\ UNCHANGED <<my, end, prep, off, failed, poolVars, cacheVars>>

Await(r) ==
  /\ At(r, "await")
  /\ prep[Of(r)] # "running"
  /\ Goto(r, IF prep[Of(r)] = "ready" THEN "look" ELSE "done")
  /\ UNCHANGED <<my, end, prep, off, failed, poolVars, cacheVars>>

\* The future is done before its callback puts a worker in the pool, whatever the
\* result; only a future that was cancelled ends it.
Prepared(k) ==
  /\ At(k, "preparing")
  /\ \/ \E s \in {"ready", "blocked"} : prep' = [prep EXCEPT ![k] = s] /\ Goto(k, "acquire")
     \/ off /\ prep' = [prep EXCEPT ![k] = "blocked"] /\ Goto(k, "done")
  /\ UNCHANGED <<my, end, off, failed, poolVars, cacheVars>>

-----------------------------------------------------------------------------
(* The result cache.                                                       *)

Position(s) == {i \in 1..Len(cache) : cache[i] = s}

\* The results of q but s, which is in it at most once.
Without(q, s) ==
  LET at == {i \in 1..Len(q) : q[i] = s}
      p == CHOOSE i \in at : TRUE
  IN IF at = {} THEN q ELSE SubSeq(q, 1, p - 1) \o SubSeq(q, p + 1, Len(q))

\* The bytes of the first i results of q.
Weight(q) ==
  LET w[i \in 0..Len(q)] == IF i = 0 THEN 0 ELSE w[i - 1] + SizeOf[q[i]] IN w

\* get: a hit is the youngest now; an entry that has expired is removed.
Look(r) ==
  /\ At(r, "look")
  /\ \/ /\ Position(Script[r]) = {}
        /\ Goto(r, "acquire")
        /\ UNCHANGED cacheVars
     \/ /\ Position(Script[r]) # {}
        /\ Goto(r, "done")
        /\ cache' = Append(Without(cache, Script[r]), Script[r])
        /\ UNCHANGED bytes
     \/ /\ Position(Script[r]) # {}
        /\ Goto(r, "acquire")
        /\ cache' = Without(cache, Script[r])
        /\ bytes' = bytes - SizeOf[Script[r]]
  /\ UNCHANGED <<my, end, prep, off, failed, poolVars>>

\* Mutant: a result that replaces another keeps its bytes.
FreedKeepsBytes(s) == IF Position(s) = {} THEN bytes ELSE bytes

\* put: the bytes that are left when the old result is gone.
Freed(s) == IF Position(s) = {} THEN bytes ELSE bytes - SizeOf[s]

\* Results fit: there is room for one more, in number and in bytes.
Fits(n, b, s) == n < MaxEntries /\ b + SizeOf[s] <= MaxBytes

\* The oldest results go until the new one fits or none is left.
Room(q, b, s) ==
  LET drops == {i \in 0..Len(q) : i = Len(q) \/ Fits(Len(q) - i, b - Weight(q)[i], s)}
      n == CHOOSE i \in drops : \A j \in drops : i <= j
  IN [items |-> SubSeq(q, n + 1, Len(q)), bytes |-> b - Weight(q)[n]]

Store(r) ==
  /\ At(r, "store")
  /\ LET s == Script[r]
         room == Room(Without(cache, s), Freed(s), s)
     IN IF s = None \/ end[r] \notin {"ok", "repeated"} \/ SizeOf[s] > MaxBytes
          THEN UNCHANGED cacheVars
          ELSE /\ cache' = Append(room.items, s)
               /\ bytes' = room.bytes + SizeOf[s]
  /\ Goto(r, "done")
  /\ end' = [end EXCEPT ![r] = None]
  /\ UNCHANGED <<my, prep, off, failed, poolVars>>

-----------------------------------------------------------------------------
(* The pool: a step is what happens while its lock is held.                *)

OfKey(k, W) == {w \in W : keyOf[w] = k}

\* Mutant: a worker that has not been used for long may be busy.
IdleAll(W) == W

Idle(W) == W \ locked

\* Mutant: a worker is in the pool before its lock is held.
TakenLate(w) == locked

Taken(w) == locked \cup {w}

Unused == {w \in Workers : /\ w \notin pooled \cup locked \cup paid
                           /\ \A c \in Callers : my[c] # w}

\* _close_worker: the permit of a worker goes back once.
Closed(W) == /\ paid' = paid \ W
             /\ free' = free + Cardinality(W \cap paid)

\* What is in the pool when workers that have expired are gone.
Expire(k, dead) == dead \subseteq Idle(OfKey(k, pooled))

Acquires(c) == pc[c] \in {"acquire", "last"}

Reuse(c, dead) ==
  /\ Acquires(c)
  /\ Expire(Of(c), dead)
  /\ \E w \in Idle(OfKey(Of(c), pooled \ dead)) :
       /\ locked' = Taken(w)
       /\ my' = [my EXCEPT ![c] = w]
       /\ Goto(c, IF c \in Keys THEN "release" ELSE "run")
  /\ pooled' = pooled \ dead
  /\ Closed(dead)
  /\ UNCHANGED <<keyOf, end, prep, off, failed, cacheVars>>

\* A full pool gives up a worker of any key that nobody uses.
Evict(rest) ==
  IF Cardinality(rest) >= MaxTotal /\ Idle(rest) # {}
    THEN {{w} : w \in Idle(rest)} ELSE {{}}

NoneIdle(c, dead) ==
  /\ Acquires(c)
  /\ Expire(Of(c), dead)
  /\ Idle(OfKey(Of(c), pooled \ dead)) = {}

HasRoom(c, kept) == Cardinality(OfKey(Of(c), kept)) < PoolSize /\ Cardinality(kept) < MaxTotal

\* Mutant: a sandbox that does not start keeps its permit.
StartupFailedKeepsPermit(c, permits) ==
  /\ free' = permits - 1
  /\ Goto(c, IF c \in Keys THEN "done" ELSE "cold")
  /\ UNCHANGED <<keyOf, locked, my>>

\* A sandbox that does not start gives its permit back.
StartupFailed(c, permits) ==
  /\ free' = permits
  /\ Goto(c, IF c \in Keys THEN "done" ELSE "cold")
  /\ UNCHANGED <<keyOf, locked, my>>

Create(c, dead) ==
  /\ NoneIdle(c, dead)
  /\ \E gone \in Evict(pooled \ dead) :
       LET kept == pooled \ (dead \cup gone)
           permits == free + Cardinality((dead \cup gone) \cap paid)
       IN /\ HasRoom(c, kept) /\ permits > 0
          /\ \/ \E w \in Unused :
                  /\ pooled' = kept \cup {w}
                  /\ locked' = Taken(w)
                  /\ paid' = (paid \ (dead \cup gone)) \cup {w}
                  /\ keyOf' = [keyOf EXCEPT ![w] = Of(c)]
                  /\ my' = [my EXCEPT ![c] = w]
                  /\ free' = permits - 1
                  /\ failed' = failed \ {w}
                  /\ Goto(c, IF c \in Keys THEN "release" ELSE "run")
             \/ /\ StartupFailed(c, permits)
                /\ pooled' = kept /\ paid' = paid \ (dead \cup gone)
                /\ UNCHANGED failed
  /\ UNCHANGED <<end, prep, off, cacheVars>>

\* No worker and no room, or no permit: the caller waits, or its time is over.
Wait(c, dead) ==
  /\ NoneIdle(c, dead)
  /\ \E gone \in Evict(pooled \ dead) :
       LET kept == pooled \ (dead \cup gone)
           permits == free + Cardinality((dead \cup gone) \cap paid)
       IN /\ ~(HasRoom(c, kept) /\ permits > 0)
          /\ pooled' = kept
          /\ Closed(dead \cup gone)
          /\ IF At(c, "acquire") THEN UNCHANGED pc
               ELSE Goto(c, IF c \in Keys THEN "done" ELSE "cold")
  /\ UNCHANGED <<my, end, keyOf, locked, prep, off, failed, cacheVars>>

\* The deadline passes: the next time round is the last.
Deadline(c) ==
  /\ At(c, "acquire")
  /\ Goto(c, "last")
  /\ UNCHANGED <<my, end, prep, off, failed, poolVars, cacheVars>>

Acquire(c) == \E dead \in SUBSET Workers : Reuse(c, dead) \/ Create(c, dead) \/ Wait(c, dead)

\* A sandbox of its own needs a permit too, or the request is deferred.
Cold(r) ==
  /\ At(r, "cold")
  /\ IF free > 0 THEN free' = free - 1 /\ Goto(r, "coldrun")
                 ELSE Goto(r, "done") /\ UNCHANGED free
  /\ UNCHANGED <<my, end, pooled, keyOf, locked, paid, prep, off, failed, cacheVars>>

ColdRun(r) ==
  /\ At(r, "coldrun")
  /\ free' = free + 1
  /\ \E e \in {"ok", "bad", "raised"} :
       /\ end' = [end EXCEPT ![r] = e]
       /\ Goto(r, IF e = "raised" THEN "done" ELSE "store")
  /\ UNCHANGED <<my, pooled, keyOf, locked, paid, prep, off, failed, cacheVars>>

-----------------------------------------------------------------------------
(* A run in a worker.                                                      *)

\* One that raises is repeated, without the worker and without a permit.
Run(r) ==
  /\ At(r, "run")
  /\ \/ end' = [end EXCEPT ![r] = "ok"] /\ Goto(r, "release") /\ UNCHANGED failed
     \/ end' = [end EXCEPT ![r] = "bad"] /\ Goto(r, "release") /\ failed' = failed \cup {my[r]}
     \/ Goto(r, "rerun") /\ failed' = failed \cup {my[r]} /\ UNCHANGED end
  /\ UNCHANGED <<my, prep, off, poolVars, cacheVars>>

\* "repeated": the result is good, the worker is not.
Rerun(r) ==
  /\ At(r, "rerun")
  /\ \E e \in {"repeated", "bad", "raised"} : end' = [end EXCEPT ![r] = e]
  /\ Goto(r, "release")
  /\ UNCHANGED <<my, prep, off, failed, poolVars, cacheVars>>

\* Where a caller goes on: a failed worker is thrown away, unless the failure goes up.
Past(c) ==
  IF c \in Keys \/ end[c] = "raised" THEN "done"
    ELSE IF end[c] = "ok" THEN "store" ELSE "discard"

\* _release_worker gives back the lock before it takes that of the pool.
Release(c) ==
  /\ At(c, "release")
  /\ locked' = locked \ {my[c]}
  /\ Goto(c, Past(c))
  /\ my' = [my EXCEPT ![c] = IF Past(c) = "discard" THEN @ ELSE None]
  /\ UNCHANGED <<end, pooled, keyOf, paid, free, prep, off, failed, cacheVars>>

\* _discard_worker: removed under the lock, closed after it.
Discard(r) ==
  /\ At(r, "discard")
  /\ IF my[r] \in pooled
       THEN /\ pooled' = pooled \ {my[r]}
            /\ Goto(r, "close")
            /\ UNCHANGED my
       ELSE /\ Goto(r, "store")
            /\ my' = [my EXCEPT ![r] = None]
            /\ UNCHANGED pooled
  /\ UNCHANGED <<end, keyOf, locked, paid, free, prep, off, failed, cacheVars>>

CloseDiscarded(r) ==
  /\ At(r, "close")
  /\ Closed({my[r]})
  /\ my' = [my EXCEPT ![r] = None]
  /\ Goto(r, "store")
  /\ UNCHANGED <<end, pooled, keyOf, locked, prep, off, failed, cacheVars>>

\* close(): the pool is emptied at once, its workers are closed one by one.
Shutdown ==
  /\ ~off
  /\ off' = TRUE
  /\ pooled' = {}
  /\ UNCHANGED <<pc, my, end, keyOf, locked, paid, free, prep, failed, cacheVars>>

ShutdownClose(w) ==
  /\ off
  /\ w \in paid \ pooled
  /\ ~\E r \in Requests : At(r, "close") /\ my[r] = w
  /\ Closed({w})
  /\ UNCHANGED <<pc, my, end, pooled, keyOf, locked, prep, off, failed, cacheVars>>

RequestStep(r) ==
  \/ Start(r) \/ StartLocal(r) \/ Await(r) \/ Look(r) \/ Acquire(r)
  \/ Deadline(r) \/ Cold(r) \/ ColdRun(r) \/ Run(r) \/ Rerun(r) \/ Release(r) \/ Discard(r)
  \/ CloseDiscarded(r) \/ Store(r)

PrewarmStep(k) == Prepared(k) \/ Acquire(k) \/ Deadline(k) \/ Release(k)

Next ==
  \/ \E r \in Requests : RequestStep(r)
  \/ \E k \in Keys : PrewarmStep(k)
  \/ Shutdown
  \/ \E w \in Workers : ShutdownClose(w)

Spec == Init /\ [][Next]_vars

-----------------------------------------------------------------------------
(* Properties.                                                             *)

Stages == {"idle", "await", "preparing", "look", "acquire", "last", "cold",
           "coldrun", "run", "rerun", "release", "discard", "close", "store", "done"}

TypeOK ==
  /\ pc \in [Callers -> Stages]
  /\ my \in [Callers -> Workers \cup {None}]
  /\ end \in [Callers -> {None, "ok", "bad", "raised", "repeated"}]
  /\ pooled \subseteq Workers /\ locked \subseteq Workers /\ paid \subseteq Workers
  /\ keyOf \in [Workers -> Keys \cup {None}]
  /\ free \in 0..MaxTotal
  /\ prep \in [Keys -> {"none", "running", "ready", "blocked"}]
  /\ off \in BOOLEAN /\ failed \subseteq Workers

\* The result cache holds each result once, within both of its bounds, and counts its
\* bytes right.
CacheCounts ==
  /\ \A i, j \in 1..Len(cache) : cache[i] = cache[j] => i = j
  /\ Len(cache) <= MaxEntries
  /\ bytes = Weight(cache)[Len(cache)] /\ bytes <= MaxBytes

\* Every permit is free, with a worker that will give it back, or with a request that
\* runs in a sandbox of its own: none is lost and none comes back twice.
PermitsKept ==
  /\ free + Cardinality(paid) + Cardinality({r \in Requests : At(r, "coldrun")}) = MaxTotal
  /\ \A w \in paid : w \in pooled \/ off \/ \E r \in Requests : At(r, "close") /\ my[r] = w

\* Two requests never run in one worker.
OneRequestPerWorker ==
  \A c, d \in Callers, w \in Workers : Uses(c, w) /\ Uses(d, w) => c = d

\* What the requests share is accounted for.
SharedAccounts == TypeOK /\ CacheCounts /\ PermitsKept /\ OneRequestPerWorker

\* A worker is closed under a request only when it had failed another one before, or
\* the process shuts down: never for being idle or in the way.
CutOnlyAfterFailure ==
  [][\A w \in paid \ paid', r \in Requests : Uses(r, w) => w \in failed \/ off]_vars
=============================================================================
