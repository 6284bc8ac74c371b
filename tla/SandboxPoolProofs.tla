---------------------------- MODULE SandboxPoolProofs ----------------------------
(***************************************************************************)
(* For any requests, keys, workers and sizes of the pool and of the cache: *)
(* two requests never run in one worker, no permit is lost or comes back   *)
(* twice, and a worker is closed under a request only after a failed run   *)
(* in it or at shut-down.                                                  *)
(*                                                                         *)
(* None of them is inductive by itself.  Who runs in a worker holds its    *)
(* lock (Held), which is why the pool neither gives it to another nor      *)
(* closes it; whoever is about to close a worker has seen a run fail in it *)
(* (Spoiled); and the permits can only be counted while the sets they are  *)
(* in are finite (Counted).                                                *)
(* The cache is apart: its byte counter is the sum of the sizes it holds,   *)
(* by induction over its entries.                                          *)
(***************************************************************************)
EXTENDS SandboxPool, Integers, FiniteSetTheorems, WellFoundedInduction, SequenceTheorems, TLAPS

-----------------------------------------------------------------------------
(* Induction over the numbers up to n, for a set instead of a predicate: the *)
(* induction theorems of the library have a predicate as a parameter, these  *)
(* lemmas have none, so that any step can cite them.  The smallest number of *)
(* a set comes from the well-founded order of the finite sets 0..m by        *)
(* inclusion.                                                                *)

\* A set of natural numbers that is not empty has a smallest one.
LEMMA LeastNat ==
  ASSUME NEW T \in SUBSET Nat, T # {}
  PROVE  \E m \in T : \A k \in T : m <= k
<1> DEFINE U == {0..m : m \in T}
<1>1. U \subseteq FiniteSubsetsOf(Nat) /\ U # {}
  <2>1. \A m \in Nat : IsFiniteSet(0..m) /\ 0..m \subseteq Nat
    BY FS_Interval
  <2> QED BY <2>1 DEF FiniteSubsetsOf
<1>2. IsWellFoundedOn(StrictSubsetOrdering(Nat), FiniteSubsetsOf(Nat))
  BY FS_StrictSubsetOrderingWellFounded
<1>3. PICK X \in U : \A Y \in U : <<Y, X>> \notin StrictSubsetOrdering(Nat)
  <2> HIDE DEF U
  <2> QED BY <1>1, <1>2, WFMin
<1>4. PICK m \in T : X = 0..m
  OBVIOUS
<1>5. ASSUME NEW k \in T, k < m PROVE FALSE
  <2>1. 0..k \in U /\ 0..k \subseteq 0..m /\ m \notin 0..k /\ m \in 0..m
    BY <1>5
  <2>2. <<0..k, X>> \in StrictSubsetOrdering(Nat)
    BY <2>1, <1>4, <1>5 DEF StrictSubsetOrdering
  <2> QED BY <2>1, <2>2, <1>3
<1> QED BY <1>5

\* A set with 0, and with i + 1 for every i below n in it, has all the numbers up to n.
LEMMA UpTo ==
  ASSUME NEW n \in Nat, NEW T, 0 \in T,
         \A i \in 0..n - 1 : i \in T => i + 1 \in T
  PROVE  0..n \subseteq T
<1> SUFFICES ASSUME ~(0..n \subseteq T) PROVE FALSE
  OBVIOUS
<1> DEFINE B == {i \in 0..n : i \notin T}
<1>1. PICK m \in B : \A k \in B : m <= k
  <2>1. B \in SUBSET Nat /\ B # {}
    OBVIOUS
  <2> HIDE DEF B
  <2> QED BY <2>1, LeastNat
<1>2. m # 0 /\ m \in 1..n
  OBVIOUS
<1>3. m - 1 \in T
  BY <1>1, <1>2
<1> QED BY <1>2, <1>3

\* f adds up the sizes of the first i elements of q.
Sums(f, n, q, size) == f = [i \in 0..n |-> IF i = 0 THEN 0 ELSE f[i - 1] + size[q[i]]]

\* There is such a function.
LEMMA SumDefined ==
  ASSUME NEW n \in Nat, NEW q, NEW size
  PROVE  \E f : Sums(f, n, q, size)
<1> DEFINE Is(f, k) == f = [i \in 0..k |-> IF i = 0 THEN 0 ELSE f[i - 1] + size[q[i]]]
           T == {k \in Nat : \E f : Is(f, k)}
<1>1. 0 \in T
  <2>1. Is([i \in 0..0 |-> 0], 0)
    OBVIOUS
  <2> QED BY <2>1
<1>2. ASSUME NEW k \in 0..n - 1, k \in T PROVE k + 1 \in T
  <2>1. PICK f : Is(f, k)
    BY <1>2
  <2> DEFINE h == [i \in 0..k + 1 |-> IF i = k + 1 THEN f[k] + size[q[k + 1]] ELSE f[i]]
  <2>2. ASSUME NEW i \in 0..k + 1 PROVE h[i] = IF i = 0 THEN 0 ELSE h[i - 1] + size[q[i]]
    <3>1. CASE i = k + 1
      BY <3>1, <1>2
    <3>2. CASE i # k + 1
      <4>1. i \in 0..k /\ h[i] = f[i] /\ (i # 0 => i - 1 \in 0..k /\ h[i - 1] = f[i - 1])
        BY <3>2, <1>2
      <4>2. f[i] = IF i = 0 THEN 0 ELSE f[i - 1] + size[q[i]]
        BY <2>1, <4>1
      <4> QED BY <4>1, <4>2
    <3> QED BY <3>1, <3>2
  <2>3. Is(h, k + 1)
    BY <2>2
  <2>4. \E e : Is(e, k + 1)
    <3> HIDE DEF Is, h
    <3> QED BY <2>3
  <2>5. k + 1 \in Nat
    BY <1>2
  <2> HIDE DEF Is
  <2> QED BY <2>4, <2>5
<1>3. n \in T
  <2> HIDE DEF T
  <2>1. 0..n \subseteq T
    BY <1>1, <1>2, UpTo
  <2> QED BY <2>1
<1>4. \E f : Is(f, n)
  BY <1>3
<1> QED BY <1>4 DEF Sums

-----------------------------------------------------------------------------
(* The pool.                                                                 *)

\* The types without the bounds on the permits, which follow from their number.
Typed ==
  /\ pc \in [Callers -> Stages]
  /\ my \in [Callers -> Workers \cup {None}]
  /\ end \in [Callers -> {None, "ok", "bad", "raised", "repeated"}]
  /\ pooled \subseteq Workers /\ locked \subseteq Workers /\ paid \subseteq Workers
  /\ keyOf \in [Workers -> Keys \cup {None}]
  /\ free \in Nat
  /\ prep \in [Keys -> {"none", "running", "ready", "blocked"}]
  /\ off \in BOOLEAN /\ failed \subseteq Workers

Busy == {"run", "rerun", "release"}
Holding == Busy \cup {"discard", "close"}

\* A caller has a worker exactly at the stages that need one, and keys only release.
Mine ==
  /\ \A c \in Callers : pc[c] \in Holding <=> my[c] # None
  /\ \A k \in Keys : pc[k] \notin Holding \ {"release"} /\ pc[k] \notin {"cold", "coldrun"}

\* The lock of a worker is held while a caller uses it, by that caller alone.
Held ==
  /\ \A c \in Callers : pc[c] \in Busy => my[c] \in locked
  /\ \A c, d \in Callers : pc[c] \in Busy /\ pc[d] \in Busy /\ my[c] = my[d] => c = d

\* A run has failed in the worker of a request that runs again, gives it up, or is
\* about to.
Spoiled ==
  \A r \in Requests :
    pc[r] \in {"rerun", "discard", "close"} \/ (pc[r] = "release" /\ end[r] # "ok")
      => my[r] \in failed

ColdRuns == {r \in Requests : At(r, "coldrun")}

\* The permits that are not free: with a worker, or with a run in a sandbox of its own.
Counted ==
  /\ IsFiniteSet(paid) /\ IsFiniteSet(ColdRuns)
  /\ free + Cardinality(paid) + Cardinality(ColdRuns) = MaxTotal

\* A worker with a permit is in the pool, or somebody is about to close it.
Returned == \A w \in paid : w \in pooled \/ off \/ \E r \in Requests : At(r, "close") /\ my[r] = w

IInv == Typed /\ Mine /\ Held /\ Spoiled /\ Counted /\ Returned

Control == Typed /\ Mine /\ Held /\ Spoiled
Permits == Counted /\ Returned

-----------------------------------------------------------------------------
(* Counting permits.                                                       *)

LEMMA NotNone == None \notin Callers \cup Workers /\ Requests \cap Keys = {}
                 /\ Requests \subseteq Callers /\ Keys \subseteq Callers
BY SandboxPoolAssumption DEF SandboxPoolAssumption, Callers

\* Closing some workers gives back as many permits as they had.
LEMMA ClosedCounts ==
  ASSUME Counted, free \in Nat, NEW W
  PROVE  /\ IsFiniteSet(paid \ W)
         /\ free + Cardinality(W \cap paid) \in Nat
         /\ free + Cardinality(W \cap paid) + Cardinality(paid \ W) + Cardinality(ColdRuns) = MaxTotal
<1>1. IsFiniteSet(paid \ W) /\ Cardinality(paid \ W) = Cardinality(paid) - Cardinality(paid \cap W)
  BY FS_Difference DEF Counted
<1>2. paid \cap W = W \cap paid
  OBVIOUS
<1>3. Cardinality(paid) \in Nat /\ Cardinality(ColdRuns) \in Nat
  BY FS_CardinalityType DEF Counted
<1>4. IsFiniteSet(W \cap paid) /\ Cardinality(W \cap paid) \in Nat
  BY FS_Intersection, FS_CardinalityType DEF Counted
<1> QED BY <1>1, <1>2, <1>3, <1>4 DEF Counted

\* The runs in sandboxes of their own, when a caller moves that has none before or after.
LEMMA ColdRunsStay ==
  ASSUME Typed, NEW c \in Callers, NEW p, Goto(c, p),
         pc[c] # "coldrun", p # "coldrun"
  PROVE  ColdRuns' = ColdRuns
BY NotNone DEF Typed, Goto, ColdRuns, At

\* Steps that leave the permits alone keep them.
LEMMA PermitsStay ==
  ASSUME Typed, Permits, UNCHANGED <<pooled, paid, free>>, ColdRuns' = ColdRuns,
         off => off', \A r \in Requests : At(r, "close") => At(r, "close")' /\ my'[r] = my[r]
  PROVE  Permits'
<1>1. Counted'
  BY DEF Permits, Counted
<1>2. Returned'
  BY DEF Permits, Returned
<1> QED BY <1>1, <1>2 DEF Permits

-----------------------------------------------------------------------------
(* Steps of a caller that has no worker and takes none.                    *)

Away == Stages \ (Holding \cup {"cold", "coldrun"})

LEMMA MoveControl ==
  ASSUME Control, NEW c \in Callers, NEW p \in Stages \ Holding, Goto(c, p),
         pc[c] \notin Holding, c \in Keys => p \notin {"cold", "coldrun"},
         Typed', UNCHANGED <<my, locked, failed>>,
         \A d \in Callers : d # c => end'[d] = end[d]
  PROVE  Control'
<1> USE NotNone
<1>1. \A d \in Callers : pc'[d] = IF d = c THEN p ELSE pc[d]
  BY DEF Goto, Control, Typed
<1>2. p \notin Busy /\ pc[c] \notin Busy
  BY DEF Holding
<1>3. Mine'
  BY <1>1 DEF Control, Mine, Holding, Busy
<1>4. Held'
  BY <1>1, <1>2 DEF Control, Held
<1>5. Spoiled'
  BY <1>1 DEF Control, Spoiled, Holding, Busy
<1> QED BY <1>3, <1>4, <1>5 DEF Control

LEMMA QuietStep ==
  ASSUME IInv, NEW c \in Callers, NEW p \in Away, Goto(c, p), pc[c] \in Away,
         Typed', UNCHANGED <<my, poolVars, off, failed>>,
         \A d \in Callers : d # c => end'[d] = end[d]
  PROVE  IInv'
<1>1. Control'
  BY MoveControl DEF Away, poolVars, IInv, Control, Stages
<1>2. ColdRuns' = ColdRuns
  BY ColdRunsStay DEF Away, IInv
<1>3. \A r \in Requests : At(r, "close") => At(r, "close")' /\ my'[r] = my[r]
  BY NotNone DEF At, Goto, Away, Holding, IInv, Typed
<1>4. Permits'
  BY <1>2, <1>3, PermitsStay DEF poolVars, IInv, Permits
<1> QED BY <1>1, <1>4 DEF IInv, Control, Permits

\* Typing of such a step.
LEMMA QuietTyped ==
  ASSUME Typed, NEW c \in Callers, NEW p \in Stages, Goto(c, p),
         UNCHANGED <<my, poolVars, off, failed>>,
         end' \in [Callers -> {None, "ok", "bad", "raised", "repeated"}],
         prep' \in [Keys -> {"none", "running", "ready", "blocked"}]
  PROVE  Typed'
BY DEF Typed, Goto, poolVars

LEMMA StartStep == ASSUME IInv, NEW r \in Requests, Start(r) PROVE IInv'
<1>1. PICK p \in {"look", "done", "await"} : Goto(r, p)
  BY DEF Start
<1>2. p \in Away /\ pc[r] \in Away
  BY DEF Start, At, Away, Stages, Holding, Busy
<1>3. Typed'
  BY <1>1, <1>2, QuietTyped, NotNone DEF Start, IInv, Typed, Away
<1> QED BY <1>1, <1>2, <1>3, QuietStep, NotNone DEF Start

LEMMA StartLocalStep == ASSUME IInv, NEW r \in Requests, StartLocal(r) PROVE IInv'
<1>1. Goto(r, "done") /\ "done" \in Away /\ pc[r] \in Away
  BY DEF StartLocal, At, Away, Stages, Holding, Busy
<1>2. Typed'
  BY <1>1, QuietTyped, NotNone DEF StartLocal, IInv, Typed, Away
<1> QED BY <1>1, <1>2, QuietStep, NotNone DEF StartLocal

LEMMA AwaitStep == ASSUME IInv, NEW r \in Requests, Await(r) PROVE IInv'
<1>1. PICK p \in {"look", "done"} : Goto(r, p)
  BY DEF Await
<1>2. p \in Away /\ pc[r] \in Away
  BY DEF Await, At, Away, Stages, Holding, Busy
<1>3. Typed'
  BY <1>1, <1>2, QuietTyped, NotNone DEF Await, IInv, Typed, Away
<1> QED BY <1>1, <1>2, <1>3, QuietStep, NotNone DEF Await

LEMMA PreparedStep == ASSUME IInv, NEW k \in Keys, Prepared(k) PROVE IInv'
<1>1. PICK p \in {"acquire", "done"} : Goto(k, p)
  BY DEF Prepared
<1>2. p \in Away /\ pc[k] \in Away
  BY DEF Prepared, At, Away, Stages, Holding, Busy
<1>3. prep' \in [Keys -> {"none", "running", "ready", "blocked"}]
  BY DEF Prepared, IInv, Typed
<1>4. Typed'
  BY <1>1, <1>2, <1>3, QuietTyped, NotNone DEF Prepared, IInv, Typed, Away
<1> QED BY <1>1, <1>2, <1>4, QuietStep, NotNone DEF Prepared

LEMMA LookStep == ASSUME IInv, NEW r \in Requests, Look(r) PROVE IInv'
<1>1. PICK p \in {"acquire", "done"} : Goto(r, p)
  BY DEF Look
<1>2. p \in Away /\ pc[r] \in Away
  BY DEF Look, At, Away, Stages, Holding, Busy
<1>3. Typed'
  BY <1>1, <1>2, QuietTyped, NotNone DEF Look, IInv, Typed, Away
<1> QED BY <1>1, <1>2, <1>3, QuietStep, NotNone DEF Look

LEMMA StoreStep == ASSUME IInv, NEW r \in Requests, Store(r) PROVE IInv'
<1>1. Goto(r, "done") /\ "done" \in Away /\ pc[r] \in Away
  BY DEF Store, At, Away, Stages, Holding, Busy
<1>2. end' = [end EXCEPT ![r] = None]
      /\ UNCHANGED <<my, prep, off, failed, poolVars>>
  BY DEF Store
<1>3. Typed'
  BY <1>1, <1>2, QuietTyped, NotNone DEF IInv, Typed, Away
<1> QED BY <1>1, <1>2, <1>3, QuietStep, NotNone DEF IInv, Typed

LEMMA DeadlineStep == ASSUME IInv, NEW c \in Callers, Deadline(c) PROVE IInv'
<1>1. Goto(c, "last") /\ "last" \in Away /\ pc[c] \in Away
  BY DEF Deadline, At, Away, Stages, Holding, Busy
<1>2. Typed'
  BY <1>1, QuietTyped DEF Deadline, IInv, Typed, Away
<1> QED BY <1>1, <1>2, QuietStep DEF Deadline

-----------------------------------------------------------------------------
(* Steps under the lock of the pool.                                       *)

\* Workers that leave the pool and are closed in the same step.
LEMMA PermitsClosed ==
  ASSUME Typed, Permits, NEW W, pooled' = pooled \ W, Closed(W), ColdRuns' = ColdRuns,
         off => off', \A r \in Requests : At(r, "close") => At(r, "close")' /\ my'[r] = my[r]
  PROVE  Permits' /\ free' \in Nat
<1>1. Counted' /\ free' \in Nat
  BY ClosedCounts DEF Permits, Counted, Closed, Typed
<1>2. Returned'
  BY DEF Permits, Returned, Closed
<1> QED BY <1>1, <1>2 DEF Permits

\* What the pool gives up is not in use.
LEMMA EvictIdle ==
  ASSUME NEW rest, NEW gone \in Evict(rest)
  PROVE  gone \subseteq Idle(rest)
BY DEF Evict, Idle

\* A caller takes a worker whose lock nobody holds and that has not failed anybody, or
\* did so before.
LEMMA TakeControl ==
  ASSUME Control, NEW c \in Callers, NEW w \in Workers \ locked, pc[c] \in {"acquire", "last"},
         my' = [my EXCEPT ![c] = w], locked' = Taken(w),
         Goto(c, IF c \in Keys THEN "release" ELSE "run"),
         failed' \in {failed, failed \ {w}},
         failed' # failed => \A d \in Callers : my[d] # w,
         Typed', UNCHANGED end
  PROVE  Control'
<1> USE NotNone
<1> DEFINE p == IF c \in Keys THEN "release" ELSE "run"
<1>1. /\ \A d \in Callers : pc'[d] = IF d = c THEN p ELSE pc[d]
      /\ \A d \in Callers : my'[d] = IF d = c THEN w ELSE my[d]
  BY DEF Goto, Control, Typed
<1>2. pc[c] \notin Holding /\ p \in Busy
  BY DEF Holding, Busy
<1>3. Mine'
  <2>1. \A d \in Callers : pc'[d] \in Holding <=> my'[d] # None
    BY <1>1, <1>2 DEF Control, Mine, Holding
  <2>2. \A k \in Keys : pc'[k] \notin Holding \ {"release"} /\ pc'[k] \notin {"cold", "coldrun"}
    BY <1>1 DEF Control, Mine, Holding, Busy
  <2> QED BY <2>1, <2>2 DEF Mine
<1>4. Held'
  <2>1. \A d \in Callers : pc'[d] \in Busy => my'[d] \in locked'
    BY <1>1 DEF Control, Held, Taken
  <2>2. \A d \in Callers : d # c /\ pc'[d] \in Busy => my'[d] # w
    BY <1>1 DEF Control, Held
  <2>3. ASSUME NEW d \in Callers, NEW e \in Callers, pc'[d] \in Busy, pc'[e] \in Busy, my'[d] = my'[e]
        PROVE  d = e
    BY <1>1, <2>2, <2>3 DEF Control, Held
  <2> QED BY <2>1, <2>3 DEF Held
<1>5. Spoiled'
  <2> SUFFICES ASSUME NEW r \in Requests,
                      pc'[r] \in {"rerun", "discard", "close"} \/ (pc'[r] = "release" /\ end'[r] # "ok")
               PROVE  my'[r] \in failed'
    BY DEF Spoiled
  <2>1. r # c
    BY <1>1
  <2>2. my[r] \in failed /\ my'[r] = my[r]
    BY <1>1, <2>1 DEF Control, Spoiled
  <2> QED BY <2>2
<1> QED BY <1>3, <1>4, <1>5 DEF Control

LEMMA ReuseStep ==
  ASSUME IInv, NEW c \in Callers, NEW dead \in SUBSET Workers, Reuse(c, dead) PROVE IInv'
<1> USE NotNone
<1>1. PICK w \in Idle(OfKey(Of(c), pooled \ dead)) :
        /\ locked' = Taken(w) /\ my' = [my EXCEPT ![c] = w]
        /\ Goto(c, IF c \in Keys THEN "release" ELSE "run")
  BY DEF Reuse
<1>2. w \in Workers \ locked
  BY DEF Idle, OfKey, IInv, Typed
<1>3. pc[c] \in {"acquire", "last"}
  BY DEF Reuse, Acquires
<1>4. ColdRuns' = ColdRuns
  BY <1>1, <1>3, ColdRunsStay DEF IInv
<1>5. \A r \in Requests : At(r, "close") => At(r, "close")' /\ my'[r] = my[r]
  BY <1>1, <1>3 DEF At, Goto, IInv, Typed
<1>6. Permits' /\ free' \in Nat
  BY <1>4, <1>5, PermitsClosed DEF Reuse, IInv, Permits
<1>7. Typed'
  BY <1>1, <1>2, <1>6 DEF Reuse, IInv, Typed, Taken, Goto, Stages, Closed
<1>8. Control'
  BY <1>1, <1>2, <1>3, <1>7, TakeControl DEF Reuse, IInv, Control
<1> QED BY <1>6, <1>8 DEF IInv, Control, Permits

LEMMA WaitStep ==
  ASSUME IInv, NEW c \in Callers, NEW dead \in SUBSET Workers, Wait(c, dead) PROVE IInv'
<1> USE NotNone
<1>1. PICK gone \in Evict(pooled \ dead) :
        /\ pooled' = pooled \ (dead \cup gone) /\ Closed(dead \cup gone)
        /\ IF At(c, "acquire") THEN UNCHANGED pc ELSE Goto(c, IF c \in Keys THEN "done" ELSE "cold")
  BY DEF Wait
<1>2. pc[c] \in {"acquire", "last"}
  BY DEF Wait, NoneIdle, Acquires
<1>3. PICK p \in Stages \ (Holding \cup {"coldrun"}) :
        Goto(c, p) /\ (c \in Keys => p # "cold")
  <2>1. CASE At(c, "acquire")
    <3>1. Goto(c, "acquire")
      BY <1>1, <2>1 DEF Goto, At, IInv, Typed
    <3> QED BY <3>1 DEF Stages, Holding, Busy
  <2>2. CASE ~At(c, "acquire")
    BY <1>1, <2>2 DEF Stages, Holding, Busy
  <2> QED BY <2>1, <2>2
<1>4. ColdRuns' = ColdRuns
  BY <1>2, <1>3, ColdRunsStay DEF IInv
<1>5. UNCHANGED <<my, end, keyOf, locked, prep, off, failed>>
  BY DEF Wait
<1>6. \A r \in Requests : At(r, "close") => At(r, "close")' /\ my'[r] = my[r]
  BY <1>2, <1>3, <1>5 DEF At, Goto, IInv, Typed
<1>7. Permits' /\ free' \in Nat
  BY <1>1, <1>4, <1>5, <1>6, PermitsClosed DEF IInv, Permits
<1>8. Typed'
  BY <1>1, <1>3, <1>5, <1>7 DEF IInv, Typed, Goto, Closed
<1>9. Control'
  BY <1>2, <1>3, <1>5, <1>8, MoveControl DEF IInv, Control, Holding, Busy
<1> QED BY <1>7, <1>9 DEF IInv, Control, Permits

LEMMA CreateStep ==
  ASSUME IInv, NEW c \in Callers, NEW dead \in SUBSET Workers, Create(c, dead) PROVE IInv'
<1> USE NotNone
<1>1. PICK gone \in Evict(pooled \ dead) :
        LET W == dead \cup gone
            permits == free + Cardinality(W \cap paid)
        IN /\ permits > 0
           /\ \/ \E w \in Unused :
                  /\ pooled' = (pooled \ W) \cup {w}
                  /\ locked' = Taken(w)
                  /\ paid' = (paid \ W) \cup {w}
                  /\ keyOf' = [keyOf EXCEPT ![w] = Of(c)]
                  /\ my' = [my EXCEPT ![c] = w]
                  /\ free' = permits - 1
                  /\ failed' = failed \ {w}
                  /\ Goto(c, IF c \in Keys THEN "release" ELSE "run")
             \/ /\ StartupFailed(c, permits)
                /\ pooled' = pooled \ W /\ paid' = paid \ W
                /\ UNCHANGED failed
  BY DEF Create
<1> DEFINE W == dead \cup gone
           permits == free + Cardinality(W \cap paid)
<1>2. pc[c] \in {"acquire", "last"} /\ UNCHANGED <<end, prep, off>>
  BY DEF Create, NoneIdle, Acquires
<1>3. /\ IsFiniteSet(paid \ W) /\ permits \in Nat
      /\ permits + Cardinality(paid \ W) + Cardinality(ColdRuns) = MaxTotal
  BY ClosedCounts DEF IInv, Typed
<1>4. Cardinality(paid \ W) \in Nat /\ Cardinality(ColdRuns) \in Nat
  BY <1>3, FS_CardinalityType DEF IInv, Counted
<1>5. ASSUME NEW w \in Unused,
             pooled' = (pooled \ W) \cup {w}, locked' = Taken(w), paid' = (paid \ W) \cup {w},
             keyOf' = [keyOf EXCEPT ![w] = Of(c)], my' = [my EXCEPT ![c] = w],
             free' = permits - 1, failed' = failed \ {w},
             Goto(c, IF c \in Keys THEN "release" ELSE "run")
      PROVE  IInv'
  <2>1. w \in Workers /\ w \notin pooled /\ w \notin locked /\ w \notin paid
        /\ \A d \in Callers : my[d] # w
    BY DEF Unused
  <2>2. ColdRuns' = ColdRuns
    BY <1>2, <1>5, ColdRunsStay DEF IInv
  <2>3. Counted' /\ free' \in Nat
    <3>1. IsFiniteSet(paid') /\ Cardinality(paid') = Cardinality(paid \ W) + 1
      BY <1>3, <1>5, <2>1, FS_AddElement
    <3> HIDE DEF W, permits
    <3> QED BY <3>1, <1>1, <1>3, <1>4, <1>5, <2>2 DEF IInv, Counted, W, permits
  <2>4. Returned'
    <3>1. \A r \in Requests : At(r, "close") => At(r, "close")' /\ my'[r] = my[r]
      BY <1>2, <1>5 DEF At, Goto, IInv, Typed
    <3> QED BY <3>1, <1>2, <1>5 DEF IInv, Returned
  <2>5. Of(c) \in Keys
    BY SandboxPoolAssumption DEF Of, Callers, SandboxPoolAssumption
  <2>6. Typed'
    BY <1>2, <1>5, <2>1, <2>3, <2>5 DEF IInv, Typed, Taken, Goto, Stages
  <2>7. Control'
    BY <1>2, <1>5, <2>1, <2>6, TakeControl DEF IInv, Control
  <2> QED BY <2>3, <2>4, <2>7 DEF IInv, Control
<1>6. ASSUME StartupFailed(c, permits), pooled' = pooled \ W, paid' = paid \ W, UNCHANGED failed
      PROVE  IInv'
  <2>1. Closed(W) /\ UNCHANGED <<keyOf, locked, my>>
        /\ Goto(c, IF c \in Keys THEN "done" ELSE "cold")
    BY <1>6 DEF StartupFailed, Closed
  <2>2. PICK p \in Stages \ (Holding \cup {"coldrun"}) :
          Goto(c, p) /\ (c \in Keys => p # "cold")
    BY <2>1 DEF Stages, Holding, Busy
  <2>3. ColdRuns' = ColdRuns
    BY <1>2, <2>2, ColdRunsStay DEF IInv
  <2>4. \A r \in Requests : At(r, "close") => At(r, "close")' /\ my'[r] = my[r]
    BY <1>2, <2>1, <2>2 DEF At, Goto, IInv, Typed
  <2>5. Permits' /\ free' \in Nat
    BY <1>2, <1>6, <2>1, <2>3, <2>4, PermitsClosed DEF IInv, Permits
  <2>6. Typed'
    BY <1>2, <1>6, <2>1, <2>2, <2>5 DEF IInv, Typed, Goto
  <2>7. Control'
    BY <1>2, <1>6, <2>1, <2>2, <2>6, MoveControl DEF IInv, Control, Holding, Busy
  <2> QED BY <2>5, <2>7 DEF IInv, Control, Permits
<1> QED BY <1>1, <1>5, <1>6

-----------------------------------------------------------------------------
(* A sandbox of a request's own.                                           *)

LEMMA ColdStep == ASSUME IInv, NEW r \in Requests, Cold(r) PROVE IInv'
<1> USE NotNone
<1>1. CASE free > 0
  <2>1. Goto(r, "coldrun") /\ free' = free - 1 /\ pc[r] = "cold" /\ pc' = [pc EXCEPT ![r] = "coldrun"]
        /\ UNCHANGED <<my, end, pooled, keyOf, locked, paid, prep, off, failed>>
    BY <1>1 DEF Cold, At, Goto
  <2>2. Typed'
    BY <1>1, <2>1 DEF IInv, Typed, Stages
  <2>3. Control'
    BY <2>1, <2>2, MoveControl DEF IInv, Control, Stages, Holding, Busy
  <2>4. ColdRuns' = ColdRuns \cup {r} /\ r \notin ColdRuns
    BY <2>1 DEF ColdRuns, At, IInv, Typed
  <2>5. IsFiniteSet(ColdRuns') /\ Cardinality(ColdRuns') = Cardinality(ColdRuns) + 1
    BY <2>4, FS_AddElement DEF IInv, Counted
  <2>6. Cardinality(paid) \in Nat /\ Cardinality(ColdRuns) \in Nat
    BY FS_CardinalityType DEF IInv, Counted
  <2>7. Counted'
    BY <1>1, <2>1, <2>5, <2>6 DEF IInv, Typed, Counted
  <2>8. Returned'
    BY <2>1 DEF IInv, Typed, Returned, At
  <2> QED BY <2>3, <2>7, <2>8 DEF IInv, Control
<1>2. CASE ~(free > 0)
  <2>1. Goto(r, "done") /\ pc[r] = "cold"
        /\ UNCHANGED <<my, end, pooled, keyOf, locked, paid, free, prep, off, failed>>
    BY <1>2 DEF Cold, At
  <2>2. Typed'
    BY <2>1 DEF IInv, Typed, Stages, Goto
  <2>3. Control'
    BY <2>1, <2>2, MoveControl DEF IInv, Control, Stages, Holding, Busy
  <2>4. ColdRuns' = ColdRuns
    BY <2>1, ColdRunsStay DEF IInv
  <2>5. \A q \in Requests : At(q, "close") => At(q, "close")' /\ my'[q] = my[q]
    BY <2>1 DEF At, Goto, IInv, Typed
  <2>6. Permits'
    BY <2>1, <2>4, <2>5, PermitsStay DEF IInv, Permits
  <2> QED BY <2>3, <2>6 DEF IInv, Control, Permits
<1> QED BY <1>1, <1>2

LEMMA ColdRunStep == ASSUME IInv, NEW r \in Requests, ColdRun(r) PROVE IInv'
<1> USE NotNone
<1>1. PICK e \in {"ok", "bad", "raised"} :
        end' = [end EXCEPT ![r] = e] /\ Goto(r, IF e = "raised" THEN "done" ELSE "store")
  BY DEF ColdRun
<1>2. pc[r] = "coldrun" /\ free' = free + 1
      /\ UNCHANGED <<my, pooled, keyOf, locked, paid, prep, off, failed>>
  BY DEF ColdRun, At
<1>3. PICK p \in {"done", "store"} : Goto(r, p)
  BY <1>1
<1>4. Typed'
  BY <1>1, <1>2, <1>3 DEF IInv, Typed, Stages, Goto
<1>5. Control'
  <2>1. \A d \in Callers : d # r => end'[d] = end[d]
    BY <1>1 DEF IInv, Typed
  <2>2. p \in Stages \ Holding /\ pc[r] \notin Holding
    BY <1>2, <1>3 DEF Stages, Holding, Busy
  <2> QED BY <1>2, <1>3, <1>4, <2>1, <2>2, MoveControl DEF IInv, Control
<1>6. ColdRuns' = ColdRuns \ {r} /\ r \in ColdRuns
  BY <1>2, <1>3 DEF ColdRuns, At, Goto, IInv, Typed
<1>7. IsFiniteSet(ColdRuns') /\ Cardinality(ColdRuns') = Cardinality(ColdRuns) - 1
  BY <1>6, FS_RemoveElement DEF IInv, Counted
<1>8. Cardinality(paid) \in Nat /\ Cardinality(ColdRuns) \in Nat
  BY FS_CardinalityType DEF IInv, Counted
<1>9. Counted'
  BY <1>2, <1>7, <1>8 DEF IInv, Typed, Counted
<1>10. Returned'
  BY <1>2, <1>3 DEF IInv, Typed, Returned, At, Goto
<1> QED BY <1>5, <1>9, <1>10 DEF IInv, Control

-----------------------------------------------------------------------------
(* A run in a worker, and the end of it.                                   *)

\* A caller goes on with its worker.
LEMMA KeepControl ==
  ASSUME Control, NEW r \in Requests, NEW p \in Busy, Goto(r, p), pc[r] \in Busy,
         UNCHANGED <<my, locked>>, failed \subseteq failed',
         \A q \in Requests \ {r} : end'[q] = end[q],
         p = "rerun" \/ (p = "release" /\ end'[r] # "ok") => my[r] \in failed',
         Typed'
  PROVE  Control'
<1> USE NotNone
<1>1. \A d \in Callers : pc'[d] = IF d = r THEN p ELSE pc[d]
  BY DEF Goto, Control, Typed
<1>2. Mine'
  BY <1>1 DEF Control, Mine, Holding, Busy
<1>3. Held'
  BY <1>1 DEF Control, Held
<1>4. Spoiled'
  BY <1>1 DEF Control, Spoiled, Busy
<1> QED BY <1>2, <1>3, <1>4 DEF Control

LEMMA KeepPermits ==
  ASSUME IInv, NEW r \in Requests, NEW p \in Busy, Goto(r, p), pc[r] \in Busy,
         UNCHANGED <<my, off, poolVars>>
  PROVE  Permits'
<1> USE NotNone
<1>1. ColdRuns' = ColdRuns
  BY ColdRunsStay DEF IInv, Busy
<1>2. \A q \in Requests : At(q, "close") => At(q, "close")' /\ my'[q] = my[q]
  BY DEF At, Goto, IInv, Typed, Busy
<1> QED BY <1>1, <1>2, PermitsStay DEF IInv, Permits, poolVars

LEMMA RunStep == ASSUME IInv, NEW r \in Requests, Run(r) PROVE IInv'
<1> USE NotNone
<1>1. pc[r] = "run" /\ UNCHANGED <<my, prep, off, poolVars>>
  BY DEF Run, At
<1>2. my[r] \in Workers
  BY <1>1 DEF IInv, Typed, Mine, Holding, Busy
<1>3. PICK p \in {"release", "rerun"} : Goto(r, p)
  BY DEF Run
<1>4. /\ end' \in [Callers -> {None, "ok", "bad", "raised", "repeated"}]
      /\ \A q \in Requests \ {r} : end'[q] = end[q]
      /\ failed' \in {failed, failed \cup {my[r]}}
      /\ p = "rerun" \/ end'[r] # "ok" => my[r] \in failed'
  <2>1. CASE end' = [end EXCEPT ![r] = "ok"] /\ Goto(r, "release") /\ UNCHANGED failed
    BY <1>1, <1>3, <2>1 DEF IInv, Typed, Goto
  <2>2. CASE end' = [end EXCEPT ![r] = "bad"] /\ Goto(r, "release") /\ failed' = failed \cup {my[r]}
    BY <2>2 DEF IInv, Typed
  <2>3. CASE Goto(r, "rerun") /\ failed' = failed \cup {my[r]} /\ UNCHANGED end
    BY <2>3 DEF IInv, Typed
  <2> QED BY <2>1, <2>2, <2>3 DEF Run
<1>5. Typed'
  BY <1>1, <1>2, <1>3, <1>4 DEF IInv, Typed, Goto, Stages, poolVars
<1>6. Control'
  BY <1>1, <1>3, <1>4, <1>5, KeepControl DEF IInv, Control, Busy, poolVars
<1>7. Permits'
  BY <1>1, <1>3, KeepPermits DEF Busy
<1> QED BY <1>6, <1>7 DEF IInv, Control, Permits

LEMMA RerunStep == ASSUME IInv, NEW r \in Requests, Rerun(r) PROVE IInv'
<1> USE NotNone
<1>1. pc[r] = "rerun" /\ Goto(r, "release") /\ UNCHANGED <<my, prep, off, failed, poolVars>>
  BY DEF Rerun, At
<1>2. my[r] \in failed
  BY <1>1 DEF IInv, Spoiled
<1>3. /\ end' \in [Callers -> {None, "ok", "bad", "raised", "repeated"}]
      /\ \A q \in Requests \ {r} : end'[q] = end[q]
  BY DEF Rerun, IInv, Typed
<1>4. Typed'
  BY <1>1, <1>3 DEF IInv, Typed, Goto, Stages, poolVars
<1>5. Control'
  BY <1>1, <1>2, <1>3, <1>4, KeepControl DEF IInv, Control, Busy, poolVars
<1>6. Permits'
  BY <1>1, KeepPermits DEF Busy
<1> QED BY <1>5, <1>6 DEF IInv, Control, Permits

\* The lock goes back; who discards keeps the worker in hand.
LEMMA ReleaseStep == ASSUME IInv, NEW c \in Callers, Release(c) PROVE IInv'
<1> USE NotNone
<1>1. pc[c] = "release" /\ Goto(c, Past(c)) /\ locked' = locked \ {my[c]}
      /\ my' = [my EXCEPT ![c] = IF Past(c) = "discard" THEN @ ELSE None]
      /\ UNCHANGED <<end, pooled, keyOf, paid, free, prep, off, failed>>
  BY DEF Release, At
<1>2. Past(c) \in {"done", "store", "discard"} /\ Past(c) \in Stages
  BY DEF Past, Stages
<1>3. /\ \A d \in Callers : pc'[d] = IF d = c THEN Past(c) ELSE pc[d]
      /\ \A d \in Callers \ {c} : my'[d] = my[d]
      /\ my'[c] = IF Past(c) = "discard" THEN my[c] ELSE None
  BY <1>1 DEF Goto, IInv, Typed
<1>4. Typed'
  BY <1>1, <1>2 DEF IInv, Typed, Goto
<1>5. Mine'
  <2>1. my[c] # None
    BY <1>1 DEF IInv, Mine, Holding, Busy
  <2>2. \A d \in Callers : pc'[d] \in Holding <=> my'[d] # None
    BY <1>2, <1>3, <2>1 DEF IInv, Mine, Holding, Busy
  <2>3. \A k \in Keys : pc'[k] \notin Holding \ {"release"} /\ pc'[k] \notin {"cold", "coldrun"}
    BY <1>3 DEF Past, IInv, Mine, Holding, Busy
  <2> QED BY <2>2, <2>3 DEF Mine
<1>6. Held'
  <2>1. \A d \in Callers : pc'[d] \in Busy => d # c /\ pc[d] \in Busy /\ my'[d] = my[d]
    BY <1>2, <1>3 DEF Busy
  <2>2. \A d \in Callers : pc'[d] \in Busy => my[d] # my[c]
    BY <1>1, <2>1 DEF IInv, Held, Busy
  <2> QED BY <1>1, <2>1, <2>2 DEF IInv, Held
<1>7. Spoiled'
  <2> SUFFICES ASSUME NEW r \in Requests,
                      pc'[r] \in {"rerun", "discard", "close"} \/ (pc'[r] = "release" /\ end'[r] # "ok")
               PROVE  my'[r] \in failed'
    BY DEF Spoiled
  <2>1. CASE r = c
    <3>1. Past(c) = "discard" /\ end[c] # "ok"
      BY <1>2, <1>3, <2>1 DEF Past
    <3> QED BY <1>1, <1>3, <2>1, <3>1 DEF IInv, Spoiled
  <2>2. CASE r # c
    BY <1>1, <1>3, <2>2 DEF IInv, Spoiled
  <2> QED BY <2>1, <2>2
<1>8. ColdRuns' = ColdRuns
  BY <1>1, <1>2, ColdRunsStay DEF IInv
<1>9. \A r \in Requests : At(r, "close") => At(r, "close")' /\ my'[r] = my[r]
  BY <1>1, <1>3 DEF At
<1>10. Permits'
  BY <1>1, <1>8, <1>9, PermitsStay DEF IInv, Permits
<1> QED BY <1>4, <1>5, <1>6, <1>7, <1>10 DEF IInv, Permits

\* A worker leaves the pool in the hands of the one who closes it.
LEMMA DiscardStep == ASSUME IInv, NEW r \in Requests, Discard(r) PROVE IInv'
<1> USE NotNone
<1>1. pc[r] = "discard" /\ UNCHANGED <<end, keyOf, locked, paid, free, prep, off, failed>>
  BY DEF Discard, At
<1>2. PICK p \in {"close", "store"} :
        /\ Goto(r, p)
        /\ p = "close" => my' = my
        /\ p = "store" => my' = [my EXCEPT ![r] = None]
        /\ pooled' \in {pooled, pooled \ {my[r]}}
        /\ pooled' # pooled => p = "close"
  BY DEF Discard
<1>3. /\ \A d \in Callers : pc'[d] = IF d = r THEN p ELSE pc[d]
      /\ \A d \in Callers \ {r} : my'[d] = my[d]
      /\ my'[r] = IF p = "close" THEN my[r] ELSE None
  BY <1>2 DEF Goto, IInv, Typed
<1>4. Typed'
  BY <1>1, <1>2 DEF IInv, Typed, Goto, Stages
<1>5. Mine'
  BY <1>1, <1>3 DEF IInv, Mine, Holding, Busy
<1>6. Held'
  BY <1>1, <1>3 DEF IInv, Held, Busy
<1>7. Spoiled'
  BY <1>1, <1>3 DEF IInv, Spoiled
<1>8. Counted'
  <2>1. ColdRuns' = ColdRuns
    BY <1>1, <1>2, ColdRunsStay DEF IInv
  <2> QED BY <1>1, <2>1 DEF IInv, Counted
<1>9. Returned'
  <2> SUFFICES ASSUME NEW w \in paid, w \notin pooled', ~off
               PROVE  \E q \in Requests : At(q, "close")' /\ my'[q] = w
    BY <1>1 DEF Returned
  <2>1. CASE w \in pooled
    BY <1>2, <1>3, <2>1 DEF At
  <2>2. CASE w \notin pooled
    <3>1. PICK q \in Requests : pc[q] = "close" /\ my[q] = w
      BY <2>2 DEF IInv, Returned, At
    <3> QED BY <1>1, <1>3, <3>1 DEF At
  <2> QED BY <2>1, <2>2
<1> QED BY <1>4, <1>5, <1>6, <1>7, <1>8, <1>9 DEF IInv

LEMMA CloseDiscardedStep == ASSUME IInv, NEW r \in Requests, CloseDiscarded(r) PROVE IInv'
<1> USE NotNone
<1>1. /\ pc[r] = "close" /\ Goto(r, "store") /\ my' = [my EXCEPT ![r] = None]
      /\ Closed({my[r]}) /\ UNCHANGED <<end, pooled, keyOf, locked, prep, off, failed>>
  BY DEF CloseDiscarded, At
<1>2. /\ \A d \in Callers : pc'[d] = IF d = r THEN "store" ELSE pc[d]
      /\ \A d \in Callers \ {r} : my'[d] = my[d]
      /\ my'[r] = None
  BY <1>1 DEF Goto, IInv, Typed
<1>3. ColdRuns' = ColdRuns
  BY <1>1, ColdRunsStay DEF IInv
<1>4. Counted' /\ free' \in Nat
  BY <1>1, <1>3, ClosedCounts DEF IInv, Typed, Counted, Closed
<1>5. Returned'
  <2> SUFFICES ASSUME NEW w \in paid \ {my[r]}, w \notin pooled, ~off
               PROVE  \E q \in Requests : At(q, "close")' /\ my'[q] = w
    BY <1>1 DEF Returned, Closed
  <2>1. PICK q \in Requests : pc[q] = "close" /\ my[q] = w
    BY DEF IInv, Returned, At
  <2> QED BY <1>2, <2>1 DEF At
<1>6. Typed'
  BY <1>1, <1>4 DEF IInv, Typed, Goto, Stages, Closed
<1>7. Mine'
  BY <1>2 DEF IInv, Mine, Holding, Busy
<1>8. Held'
  BY <1>1, <1>2 DEF IInv, Held, Busy
<1>9. Spoiled'
  BY <1>1, <1>2 DEF IInv, Spoiled
<1> QED BY <1>4, <1>5, <1>6, <1>7, <1>8, <1>9 DEF IInv

-----------------------------------------------------------------------------
(* Shutting down.                                                          *)

LEMMA ShutdownStep == ASSUME IInv, Shutdown PROVE IInv'
<1>1. off' = TRUE /\ pooled' = {}
      /\ UNCHANGED <<pc, my, end, keyOf, locked, paid, free, prep, failed>>
  BY DEF Shutdown
<1>2. Typed'
  BY <1>1 DEF IInv, Typed
<1>3. Mine' /\ Held' /\ Spoiled'
  BY <1>1 DEF IInv, Mine, Held, Spoiled
<1>4. Counted'
  BY <1>1 DEF IInv, Counted, ColdRuns, At
<1>5. Returned'
  BY <1>1 DEF Returned
<1> QED BY <1>2, <1>3, <1>4, <1>5 DEF IInv

LEMMA ShutdownCloseStep == ASSUME IInv, NEW w \in Workers, ShutdownClose(w) PROVE IInv'
<1>1. off /\ Closed({w}) /\ UNCHANGED <<pc, my, end, pooled, keyOf, locked, prep, off, failed>>
  BY DEF ShutdownClose
<1>2. ColdRuns' = ColdRuns
  BY <1>1 DEF ColdRuns, At
<1>3. Counted' /\ free' \in Nat
  BY <1>1, <1>2, ClosedCounts DEF IInv, Typed, Counted, Closed
<1>4. Typed'
  BY <1>1, <1>3 DEF IInv, Typed, Closed
<1>5. Mine' /\ Held' /\ Spoiled'
  BY <1>1 DEF IInv, Mine, Held, Spoiled
<1>6. Returned'
  BY <1>1 DEF Returned
<1> QED BY <1>3, <1>4, <1>5, <1>6 DEF IInv

-----------------------------------------------------------------------------
(* The invariant.                                                          *)

LEMMA InitIInv == Init => IInv
<1> SUFFICES ASSUME Init PROVE IInv
  OBVIOUS
<1> USE NotNone
<1>1. PICK native \in {{}, Native} :
        /\ prep = [k \in Keys |-> IF k \in native THEN "running" ELSE "none"]
        /\ pc = [c \in Callers |-> IF c \in native THEN "preparing"
                                   ELSE IF c \in Keys THEN "done" ELSE "idle"]
  BY DEF Init
<1>2. MaxTotal \in Nat
  BY SandboxPoolAssumption DEF SandboxPoolAssumption
<1>3. \A c \in Callers : pc[c] \in {"preparing", "done", "idle"}
  BY <1>1
<1>4. Typed
  BY <1>1, <1>2 DEF Init, Typed, Stages
<1>5. Mine
  BY <1>3 DEF Init, Mine, Holding, Busy
<1>6. Held /\ Spoiled
  BY <1>3 DEF Init, Held, Spoiled, Busy
<1>7. Counted
  <2>1. ColdRuns = {}
    BY <1>3 DEF ColdRuns, At
  <2> QED BY <1>2, <2>1, FS_EmptySet DEF Init, Counted
<1>8. Returned
  BY DEF Init, Returned
<1> QED BY <1>4, <1>5, <1>6, <1>7, <1>8 DEF IInv

LEMMA AcquireStep == ASSUME IInv, NEW c \in Callers, Acquire(c) PROVE IInv'
BY ReuseStep, CreateStep, WaitStep DEF Acquire

LEMMA RequestKeeps == ASSUME IInv, NEW r \in Requests, RequestStep(r) PROVE IInv'
<1>1. r \in Callers
  BY NotNone
<1> QED
  BY <1>1, StartStep, StartLocalStep, AwaitStep, LookStep, AcquireStep, DeadlineStep, ColdStep,
     ColdRunStep, RunStep, RerunStep, ReleaseStep, DiscardStep, CloseDiscardedStep, StoreStep
  DEF RequestStep

LEMMA PrewarmKeeps == ASSUME IInv, NEW k \in Keys, PrewarmStep(k) PROVE IInv'
<1>1. k \in Callers
  BY NotNone
<1> QED BY <1>1, PreparedStep, AcquireStep, DeadlineStep, ReleaseStep DEF PrewarmStep

LEMMA NextIInv == IInv /\ [Next]_vars => IInv'
<1>1. ASSUME IInv, Next PROVE IInv'
  BY <1>1, RequestKeeps, PrewarmKeeps, ShutdownStep, ShutdownCloseStep DEF Next
<1>2. ASSUME IInv, UNCHANGED vars PROVE IInv'
  BY <1>2 DEF vars, IInv, Typed, Mine, Held, Spoiled, Counted, Returned, ColdRuns, At
<1> QED BY <1>1, <1>2

LEMMA Invariance == Spec => []IInv
<1> QED BY InitIInv, NextIInv, PTL DEF Spec

\* The types, with every permit that is free one of MaxTotal.
THEOREM TypeTheorem == Spec => []TypeOK
<1>1. IInv => TypeOK
  <2> SUFFICES ASSUME IInv PROVE TypeOK
    OBVIOUS
  <2>1. Cardinality(paid) \in Nat /\ Cardinality(ColdRuns) \in Nat
    BY FS_CardinalityType DEF IInv, Counted
  <2>2. free \in 0..MaxTotal
    BY <2>1, SandboxPoolAssumption DEF IInv, Typed, Counted, SandboxPoolAssumption
  <2> QED BY <2>2 DEF IInv, Typed, TypeOK
<1> QED BY <1>1, Invariance, PTL

\* No permit of the capacity is lost or comes back twice, on whichever of the paths of
\* ms_agent_adapter.py a worker goes away.
THEOREM PermitsTheorem == Spec => []PermitsKept
<1>1. IInv => PermitsKept
  BY DEF IInv, Counted, Returned, PermitsKept, ColdRuns
<1> QED BY <1>1, Invariance, PTL

\* Two requests never run in one worker (_acquire_worker, _release_worker).
THEOREM OneRequestTheorem == Spec => []OneRequestPerWorker
<1>1. IInv => OneRequestPerWorker
  BY DEF IInv, Held, Busy, Uses, OneRequestPerWorker
<1> QED BY <1>1, Invariance, PTL

-----------------------------------------------------------------------------
(* Whose worker is closed.                                                 *)

Cut == \A w \in paid \ paid', r \in Requests : Uses(r, w) => w \in failed \/ off

LEMMA UsesHeld ==
  ASSUME IInv, NEW r \in Requests, NEW w, Uses(r, w)
  PROVE  w \in locked
BY NotNone DEF IInv, Held, Uses, Busy

LEMMA AcquireCuts == ASSUME IInv, NEW c \in Callers, Acquire(c) PROVE Cut
<1>1. PICK dead \in SUBSET Workers : Reuse(c, dead) \/ Create(c, dead) \/ Wait(c, dead)
  BY DEF Acquire
<1>2. dead \cap locked = {}
  BY <1>1 DEF Reuse, Create, Wait, NoneIdle, Expire, Idle
<1>3. PICK gone \in {{}} \cup Evict(pooled \ dead) : paid \ paid' \subseteq dead \cup gone
  BY <1>1 DEF Reuse, Create, Wait, Closed, StartupFailed
<1>4. gone \cap locked = {}
  BY <1>3, EvictIdle DEF Idle
<1> QED BY <1>2, <1>3, <1>4, UsesHeld DEF Cut

LEMMA NextCuts == IInv /\ [Next]_vars => Cut
<1> SUFFICES ASSUME IInv, [Next]_vars PROVE Cut
  OBVIOUS
<1>1. CASE UNCHANGED paid
  BY <1>1 DEF Cut
<1>2. ASSUME NEW c \in Callers, Acquire(c) PROVE Cut
  BY <1>2, AcquireCuts
<1>3. ASSUME NEW r \in Requests, CloseDiscarded(r) PROVE Cut
  BY <1>3 DEF CloseDiscarded, Closed, Cut, IInv, Spoiled, At
<1>4. ASSUME NEW w \in Workers, ShutdownClose(w) PROVE Cut
  BY <1>4 DEF ShutdownClose, Cut
<1>5. ASSUME NEW r \in Requests, RequestStep(r)
      PROVE  UNCHANGED paid \/ Acquire(r) \/ CloseDiscarded(r)
  BY <1>5 DEF RequestStep, Start, StartLocal, Await, Look, Deadline, Cold, ColdRun, Run, Rerun,
     Release, Discard, Store, poolVars
<1>6. ASSUME NEW k \in Keys, PrewarmStep(k) PROVE UNCHANGED paid \/ Acquire(k)
  BY <1>6 DEF PrewarmStep, Prepared, Deadline, Release, poolVars
<1>7. CASE Next
  BY <1>1, <1>2, <1>3, <1>4, <1>5, <1>6, <1>7, NotNone DEF Next, Shutdown
<1>8. CASE UNCHANGED vars
  BY <1>1, <1>8 DEF vars
<1> QED BY <1>7, <1>8

\* Expiry, eviction and the discarding of a failed worker never take it from a request
\* that runs in it, unless a run in it failed before or the process shuts down.
THEOREM CutTheorem == Spec => CutOnlyAfterFailure
<1>1. IInv /\ [Next]_vars => [\A w \in paid \ paid', r \in Requests : Uses(r, w) => w \in failed \/ off]_vars
  BY NextCuts DEF Cut
<1> QED BY <1>1, Invariance, PTL DEF Spec, CutOnlyAfterFailure
-----------------------------------------------------------------------------
(* The result cache: what its operators do to the weight of a sequence.    *)

LEMMA WeightSums ==
  ASSUME NEW q \in Seq(Results)
  PROVE  /\ Weight(q)[0] = 0
         /\ \A i \in 1..Len(q) : Weight(q)[i] = Weight(q)[i - 1] + SizeOf[q[i]]
         /\ \A i \in 0..Len(q) : Weight(q)[i] \in Nat
<1>1. Len(q) \in Nat
  OBVIOUS
<1>2. Weight(q) = [i \in 0..Len(q) |->
                     IF i = 0 THEN 0 ELSE Weight(q)[i - 1] + SizeOf[q[i]]]
  <2>1. \E w : Sums(w, Len(q), q, SizeOf)
    BY <1>1, SumDefined
  <2>2. Weight(q) = CHOOSE w : Sums(w, Len(q), q, SizeOf)
    BY DEF Weight, Sums
  <2>3. Sums(Weight(q), Len(q), q, SizeOf)
    BY <2>1, <2>2
  <2> QED BY <2>3 DEF Sums
<1>3. /\ Weight(q)[0] = 0
      /\ \A i \in 1..Len(q) : Weight(q)[i] = Weight(q)[i - 1] + SizeOf[q[i]]
  <2> HIDE DEF Weight
  <2>1. \A i \in 0..Len(q) : Weight(q)[i] = IF i = 0 THEN 0 ELSE Weight(q)[i - 1] + SizeOf[q[i]]
    BY <1>2
  <2> QED BY <1>1, <2>1
<1> DEFINE T == {i \in 0..Len(q) : Weight(q)[i] \in Nat}
<1>4. 0 \in T
  BY <1>1, <1>3
<1>5. ASSUME NEW i \in 0..Len(q) - 1, i \in T PROVE i + 1 \in T
  <2>1. i + 1 \in 1..Len(q) /\ q[i + 1] \in Results
    BY <1>1
  <2>2. SizeOf[q[i + 1]] \in Nat
    BY <2>1, SandboxPoolAssumption DEF SandboxPoolAssumption
  <2>3. Weight(q)[i + 1] = Weight(q)[i] + SizeOf[q[i + 1]]
    BY <1>1, <1>3, <2>1
  <2> QED BY <1>1, <1>5, <2>1, <2>2, <2>3
<1>6. 0..Len(q) \subseteq T
  <2> HIDE DEF T
  <2> QED BY <1>1, <1>4, <1>5, UpTo
<1> QED BY <1>3, <1>6

\* Equal stretches of two sequences weigh the same.
LEMMA WeightShift ==
  ASSUME NEW p \in Seq(Results), NEW a \in 0..Len(p), NEW c \in a..Len(p),
         NEW q \in Seq(Results), NEW b \in 0..Len(q), NEW d \in b..Len(q),
         c - a = d - b, \A i \in 1..c - a : p[a + i] = q[b + i]
  PROVE  Weight(p)[c] - Weight(p)[a] = Weight(q)[d] - Weight(q)[b]
<1> DEFINE n == c - a
<1>0. n \in Nat /\ a \in Nat /\ b \in Nat /\ a + n = c /\ b + n = d
      /\ c <= Len(p) /\ d <= Len(q) /\ Len(p) \in Nat /\ Len(q) \in Nat
      /\ \A i \in 1..n : p[a + i] = q[b + i]
  OBVIOUS
<1> HIDE DEF n
<1> DEFINE T == {i \in 0..n : Weight(p)[a + i] - Weight(p)[a] = Weight(q)[b + i] - Weight(q)[b]}
<1>1. /\ \A i \in 0..n : Weight(p)[a + i] \in Nat /\ Weight(q)[b + i] \in Nat
      /\ Weight(p)[a] \in Nat /\ Weight(q)[b] \in Nat
  <2>1. /\ \A i \in 0..Len(p) : Weight(p)[i] \in Nat
        /\ \A i \in 0..Len(q) : Weight(q)[i] \in Nat
    BY WeightSums
  <2>2. \A i \in 0..n : a + i \in 0..Len(p) /\ b + i \in 0..Len(q)
    BY <1>0
  <2>3. a \in 0..Len(p) /\ b \in 0..Len(q)
    BY <1>0
  <2> QED BY <2>1, <2>2, <2>3
<1>2. 0 \in T
  BY <1>0, <1>1
<1>3. ASSUME NEW i \in 0..n - 1, i \in T PROVE i + 1 \in T
  <2> DEFINE k == a + (i + 1)
             l == b + (i + 1)
  <2>1. i + 1 \in 1..n /\ k \in 1..Len(p) /\ l \in 1..Len(q)
        /\ k - 1 = a + i /\ l - 1 = b + i
    BY <1>0
  <2>2. Weight(p)[a + i] - Weight(p)[a] = Weight(q)[b + i] - Weight(q)[b]
        /\ i \in 0..n /\ i + 1 \in 0..n
    BY <1>0, <1>3
  <2>3. p[k] = q[l]
    BY <1>0, <2>1
  <2> HIDE DEF k, l, T
  <2>4. p[k] \in Results
    BY <2>1
  <2>5. SizeOf[p[k]] \in Nat
    BY <2>4, SandboxPoolAssumption DEF SandboxPoolAssumption
  <2>6. /\ Weight(p)[k] = Weight(p)[k - 1] + SizeOf[p[k]]
        /\ Weight(q)[l] = Weight(q)[l - 1] + SizeOf[q[l]]
    BY <2>1, WeightSums
  <2>7. /\ Weight(p)[k - 1] \in Nat /\ Weight(q)[l - 1] \in Nat
        /\ Weight(p)[a] \in Nat /\ Weight(q)[b] \in Nat
        /\ Weight(p)[k - 1] - Weight(p)[a] = Weight(q)[l - 1] - Weight(q)[b]
    <3>1. k - 1 \in 0..Len(p) /\ l - 1 \in 0..Len(q)
      BY <2>1
    <3> QED BY <2>1, <2>2, <3>1, WeightSums
  <2>8. Weight(p)[k] - Weight(p)[a] = Weight(q)[l] - Weight(q)[b]
    <3> DEFINE x == Weight(p)[k - 1]
               u == Weight(p)[a]
               y == Weight(q)[l - 1]
               v == Weight(q)[b]
               z == SizeOf[p[k]]
    <3>1. x \in Nat /\ u \in Nat /\ y \in Nat /\ v \in Nat /\ z \in Nat /\ x - u = y - v
      BY <2>5, <2>7
    <3>2. Weight(p)[k] = x + z /\ Weight(q)[l] = y + z
      BY <2>3, <2>6
    <3> HIDE DEF x, u, y, v, z
    <3>3. (x + z) - u = (y + z) - v
      BY <3>1
    <3> QED BY <3>2, <3>3 DEF u, v
  <2> QED BY <2>2, <2>8 DEF T, k, l
<1>4. n \in T
  <2> HIDE DEF T
  <2>1. 0..n \subseteq T
    BY <1>0, <1>2, <1>3, UpTo
  <2> QED BY <1>0, <2>1
<1>5. Weight(p)[a + n] - Weight(p)[a] = Weight(q)[b + n] - Weight(q)[b]
  BY <1>4
<1> QED BY <1>0, <1>5

LEMMA WeightPrefix ==
  ASSUME NEW p \in Seq(Results), NEW q \in Seq(Results), NEW m \in 0..Len(p), m \in 0..Len(q),
         \A i \in 1..m : p[i] = q[i]
  PROVE  Weight(p)[m] = Weight(q)[m]
<1>1. 0 \in 0..Len(p) /\ 0 \in 0..Len(q)
  OBVIOUS
<1>2. \A i \in 1..m - 0 : p[0 + i] = q[0 + i]
  OBVIOUS
<1>3. Weight(p)[m] - Weight(p)[0] = Weight(q)[m] - Weight(q)[0]
  BY <1>1, <1>2, WeightShift
<1>4. Weight(p)[0] = 0 /\ Weight(q)[0] = 0 /\ Weight(p)[m] \in Nat /\ Weight(q)[m] \in Nat
  BY WeightSums
<1> QED BY <1>3, <1>4

Total(q) == Weight(q)[Len(q)]
Once(q) == \A i, j \in 1..Len(q) : q[i] = q[j] => i = j
In(q, s) == \E i \in 1..Len(q) : q[i] = s

LEMMA TotalNat == ASSUME NEW q \in Seq(Results) PROVE Total(q) \in Nat
BY WeightSums DEF Total

LEMMA AppendCounts ==
  ASSUME NEW q \in Seq(Results), NEW s \in Results, Once(q), ~In(q, s)
  PROVE  /\ Append(q, s) \in Seq(Results) /\ Once(Append(q, s))
         /\ Len(Append(q, s)) = Len(q) + 1
         /\ Total(Append(q, s)) = Total(q) + SizeOf[s]
<1> DEFINE a == Append(q, s)
<1>1. /\ a \in Seq(Results) /\ Len(a) = Len(q) + 1 /\ Len(q) \in Nat
      /\ \A i \in 1..Len(q) : a[i] = q[i]
      /\ a[Len(q) + 1] = s
  OBVIOUS
<1> HIDE DEF a
<1>2. Once(a)
  BY <1>1 DEF Once, In
<1>3. Weight(a)[Len(q)] = Weight(q)[Len(q)]
  <2>1. Len(q) \in 0..Len(a) /\ Len(q) \in 0..Len(q)
    BY <1>1
  <2> QED BY <1>1, <2>1, WeightPrefix
<1>4. Weight(a)[Len(q) + 1] = Weight(a)[Len(q)] + SizeOf[s]
  <2>1. Len(q) + 1 \in 1..Len(a) /\ (Len(q) + 1) - 1 = Len(q)
    BY <1>1
  <2> QED BY <1>1, <2>1, WeightSums
<1> QED BY <1>1, <1>2, <1>3, <1>4 DEF Total, a

\* The youngest results: their weight is what the others leave of it.
LEMMA YoungestCounts ==
  ASSUME NEW q \in Seq(Results), Once(q), NEW n \in 0..Len(q)
  PROVE  LET t == SubSeq(q, n + 1, Len(q)) IN
         /\ t \in Seq(Results) /\ Once(t) /\ Len(t) = Len(q) - n
         /\ \A s : In(t, s) => In(q, s)
         /\ Total(t) = Total(q) - Weight(q)[n]
<1> DEFINE t == SubSeq(q, n + 1, Len(q))
<1>1. /\ t \in Seq(Results) /\ Len(t) = Len(q) - n /\ Len(q) \in Nat /\ n \in Nat
      /\ \A i \in 1..Len(q) - n : t[i] = q[n + i]
  OBVIOUS
<1> HIDE DEF t
<1>2. Once(t)
  BY <1>1 DEF Once
<1>3. \A s : In(t, s) => In(q, s)
  <2>1. \A i \in 1..Len(t) : n + i \in 1..Len(q) /\ t[i] = q[n + i]
    BY <1>1
  <2> QED BY <2>1 DEF In
<1>4. Weight(t)[Len(t)] - Weight(t)[0] = Weight(q)[Len(q)] - Weight(q)[n]
  <2>1. 0 \in 0..Len(t) /\ Len(t) \in 0..Len(t) /\ n \in 0..Len(q) /\ Len(q) \in n..Len(q)
        /\ Len(t) - 0 = Len(q) - n
    BY <1>1
  <2>2. \A i \in 1..Len(t) - 0 : t[0 + i] = q[n + i]
    BY <1>1
  <2> QED BY <1>1, <2>1, <2>2, WeightShift
<1>5. Weight(t)[0] = 0 /\ Weight(t)[Len(t)] \in Nat
      /\ Weight(q)[Len(q)] \in Nat /\ Weight(q)[n] \in Nat
  <2>1. 0 \in 0..Len(t) /\ Len(t) \in 0..Len(t) /\ Len(q) \in 0..Len(q)
    BY <1>1
  <2> QED BY <1>1, <2>1, WeightSums
<1>6. Total(t) = Total(q) - Weight(q)[n]
  BY <1>1, <1>4, <1>5 DEF Total
<1> QED BY <1>1, <1>2, <1>3, <1>6 DEF t

\* One result less, and its bytes.
LEMMA WithoutCounts ==
  ASSUME NEW q \in Seq(Results), Once(q), NEW s
  PROVE  LET t == Without(q, s) IN
         /\ t \in Seq(Results) /\ Once(t) /\ ~In(t, s)
         /\ Len(t) = IF In(q, s) THEN Len(q) - 1 ELSE Len(q)
         /\ Total(t) = IF In(q, s) THEN Total(q) - SizeOf[s] ELSE Total(q)
<1> DEFINE t == Without(q, s)
           at == {i \in 1..Len(q) : q[i] = s}
<1>1. CASE at = {}
  <2>1. t = q /\ ~In(q, s)
    BY <1>1 DEF Without, In
  <2> QED BY <2>1
<1>2. CASE at # {}
  <2> DEFINE p == CHOOSE i \in at : TRUE
  <2>1. p \in at
    BY <1>2
  <2>2. p \in 1..Len(q) /\ q[p] = s /\ Len(q) \in Nat
    BY <2>1
  <2>3. In(q, s) /\ s \in Results
    BY <2>2 DEF In
  <2> DEFINE u == SubSeq(q, 1, p - 1)
             v == SubSeq(q, p + 1, Len(q))
  <2>4. t = u \o v
    BY <1>2 DEF Without
  <2> HIDE DEF p, t
  <2>5. /\ t \in Seq(Results) /\ Len(t) = Len(q) - 1
        /\ \A i \in 1..p - 1 : t[i] = q[i]
        /\ \A i \in p..Len(q) - 1 : t[i] = q[i + 1]
    <3>1. /\ u \in Seq(Results) /\ Len(u) = p - 1
          /\ \A i \in 1..p - 1 : u[i] = q[i]
      BY <2>2
    <3>2. /\ v \in Seq(Results) /\ Len(v) = Len(q) - p
          /\ \A i \in 1..Len(q) - p : v[i] = q[p + i]
      BY <2>2
    <3> HIDE DEF u, v
    <3>3. /\ t \in Seq(Results) /\ Len(t) = Len(u) + Len(v)
          /\ \A i \in 1..Len(u) + Len(v) : t[i] = IF i <= Len(u) THEN u[i] ELSE v[i - Len(u)]
      BY <2>4, <3>1, <3>2, ConcatProperties
    <3>4. \A i \in 1..p - 1 : t[i] = q[i]
      BY <2>2, <3>1, <3>2, <3>3
    <3>5. ASSUME NEW i \in p..Len(q) - 1 PROVE t[i] = q[i + 1]
      <4>1. i - (p - 1) \in 1..Len(q) - p /\ p + (i - (p - 1)) = i + 1
            /\ i \in 1..(p - 1) + (Len(q) - p) /\ ~(i <= p - 1)
        BY <2>2
      <4> QED BY <3>1, <3>2, <3>3, <4>1
    <3> QED BY <2>2, <3>1, <3>2, <3>3, <3>4, <3>5
  <2>6. Once(t) /\ ~In(t, s)
    <3> DEFINE Old(i) == IF i < p THEN i ELSE i + 1
    <3>1. \A i \in 1..Len(t) : Old(i) \in 1..Len(q) /\ Old(i) # p /\ t[i] = q[Old(i)]
      BY <2>2, <2>5
    <3>2. \A i, j \in 1..Len(t) : Old(i) = Old(j) => i = j
      BY <2>2, <2>5
    <3> HIDE DEF Old
    <3> QED BY <2>2, <3>1, <3>2 DEF Once, In
  <2>7. p - 1 \in 0..Len(t) /\ p - 1 \in 0..Len(q) /\ p \in 0..Len(q)
        /\ Len(t) \in 0..Len(t) /\ Len(q) \in 0..Len(q) /\ Len(t) \in Nat
        /\ Len(q) - p \in Nat /\ p - 1 \in Nat /\ p \in Nat
        /\ (p - 1) + (Len(q) - p) = Len(t) /\ p + (Len(q) - p) = Len(q) /\ 0 \in Nat
    BY <2>2, <2>5
  <2>8. /\ Weight(t)[Len(t)] \in Nat /\ Weight(t)[p - 1] \in Nat /\ Weight(t)[0] = 0
        /\ Weight(q)[Len(q)] \in Nat /\ Weight(q)[p] \in Nat /\ Weight(q)[p - 1] \in Nat
        /\ Weight(q)[0] = 0
    BY <2>5, <2>7, WeightSums
  <2>9. Weight(t)[p - 1] = Weight(q)[p - 1]
    BY <2>5, <2>7, WeightPrefix
  <2>10. Weight(q)[p] = Weight(q)[p - 1] + SizeOf[s]
    BY <2>2, WeightSums
  <2>11. Weight(t)[Len(t)] - Weight(t)[p - 1] = Weight(q)[Len(q)] - Weight(q)[p]
    <3>1. \A i \in 1..Len(q) - p : t[(p - 1) + i] = q[p + i]
      <4>1. \A i \in 1..Len(q) - p : /\ (p - 1) + i \in p..Len(q) - 1
                                     /\ ((p - 1) + i) + 1 = p + i
        BY <2>7
      <4>2. \A j \in p..Len(q) - 1 : t[j] = q[j + 1]
        BY <2>5
      <4> QED BY <4>1, <4>2
    <3> DEFINE m == p - 1
    <3>2. m \in 0..Len(t) /\ Len(t) \in m..Len(t) /\ p \in 0..Len(q) /\ Len(q) \in p..Len(q)
          /\ Len(t) - m = Len(q) - p
      BY <2>2, <2>5
    <3>3. \A i \in 1..Len(t) - m : t[m + i] = q[p + i]
      BY <3>1, <3>2
    <3> HIDE DEF m
    <3>4. Weight(t)[Len(t)] - Weight(t)[m] = Weight(q)[Len(q)] - Weight(q)[p]
      BY <2>5, <3>2, <3>3, WeightShift
    <3> QED BY <3>4 DEF m
  <2>12. SizeOf[s] \in Nat
    BY <2>3, SandboxPoolAssumption DEF SandboxPoolAssumption
  <2>13. Total(t) = Total(q) - SizeOf[s]
    BY <2>8, <2>9, <2>10, <2>11, <2>12 DEF Total
  <2> QED BY <2>3, <2>5, <2>6, <2>13 DEF t
<1> QED BY <1>1, <1>2

\* As many of the oldest results go as have to, and the bytes left are those of the rest.
LEMMA RoomFits ==
  ASSUME NEW q \in Seq(Results), Once(q), NEW s \in Results, SizeOf[s] <= MaxBytes
  PROVE  LET room == Room(q, Total(q), s) IN
         /\ room.items \in Seq(Results) /\ Once(room.items)
         /\ \A x : In(room.items, x) => In(q, x)
         /\ room.bytes = Total(room.items)
         /\ Len(room.items) + 1 <= MaxEntries
         /\ room.bytes + SizeOf[s] <= MaxBytes
<1> DEFINE drops == {i \in 0..Len(q) : i = Len(q) \/ Fits(Len(q) - i, Total(q) - Weight(q)[i], s)}
           n == CHOOSE i \in drops : \A j \in drops : i <= j
           room == Room(q, Total(q), s)
<1>1. n \in drops
  <2>1. drops \in SUBSET Nat /\ drops # {}
    <3>1. Len(q) \in drops
      OBVIOUS
    <3> QED BY <3>1
  <2> HIDE DEF drops
  <2>2. \E i \in drops : \A j \in drops : i <= j
    BY <2>1, LeastNat
  <2> QED BY <2>2
<1>2. room = [items |-> SubSeq(q, n + 1, Len(q)), bytes |-> Total(q) - Weight(q)[n]]
  BY DEF Room
<1>3. n \in 0..Len(q) /\ (n = Len(q) \/ Fits(Len(q) - n, Total(q) - Weight(q)[n], s))
  BY <1>1
<1> HIDE DEF n, room
<1>4. /\ room.items \in Seq(Results) /\ Once(room.items) /\ Len(room.items) = Len(q) - n
      /\ \A x : In(room.items, x) => In(q, x)
      /\ Total(room.items) = Total(q) - Weight(q)[n]
  BY <1>2, <1>3, YoungestCounts
<1>5. CASE n = Len(q)
  <2>1. Total(q) \in Nat /\ Total(q) = Weight(q)[n]
    BY <1>5, TotalNat DEF Total
  <2>2. SizeOf[s] \in Nat /\ MaxBytes \in Nat /\ MaxEntries \in Nat \ {0}
    BY SandboxPoolAssumption DEF SandboxPoolAssumption
  <2> QED BY <1>2, <1>4, <1>5, <2>1, <2>2 DEF room
<1>6. CASE Fits(Len(q) - n, Total(q) - Weight(q)[n], s)
  <2>1. Len(q) \in Nat /\ n \in Nat /\ MaxEntries \in Nat
    BY <1>3, SandboxPoolAssumption DEF SandboxPoolAssumption
  <2> QED BY <1>2, <1>4, <1>6, <2>1 DEF Fits, room
<1> QED BY <1>3, <1>5, <1>6

Cached ==
  /\ cache \in Seq(Results) /\ Once(cache) /\ Len(cache) <= MaxEntries
  /\ bytes = Total(cache) /\ bytes <= MaxBytes

LEMMA PositionIn == ASSUME NEW s PROVE Position(s) # {} <=> In(cache, s)
BY DEF Position, In

LEMMA QuietCached == ASSUME Cached, UNCHANGED cacheVars PROVE Cached'
BY DEF cacheVars, Cached, Total, Once, Weight

LEMMA LookCached == ASSUME Cached, NEW r \in Requests, Look(r) PROVE Cached'
<1> DEFINE s == Script[r]
           rest == Without(cache, s)
<1>1. CASE UNCHANGED cacheVars
  BY <1>1, QuietCached
<1>2. ASSUME Position(s) # {} PROVE
        /\ s \in Results /\ SizeOf[s] \in Nat /\ bytes \in Nat /\ Len(cache) \in Nat
        /\ rest \in Seq(Results) /\ Once(rest) /\ ~In(rest, s)
        /\ Len(rest) = Len(cache) - 1 /\ Total(rest) = bytes - SizeOf[s]
  <2>1. In(cache, s)
    BY <1>2, PositionIn
  <2>2. s \in Results /\ bytes \in Nat /\ Len(cache) \in Nat
    BY <2>1, TotalNat DEF In, Cached
  <2>3. SizeOf[s] \in Nat
    BY <2>2, SandboxPoolAssumption DEF SandboxPoolAssumption
  <2> QED BY <2>1, <2>2, <2>3, WithoutCounts DEF Cached
<1>3. MaxEntries \in Nat /\ MaxBytes \in Nat
  BY SandboxPoolAssumption DEF SandboxPoolAssumption
<1>4. CASE Position(s) # {} /\ cache' = Append(rest, s) /\ bytes' = bytes
  <2> HIDE DEF rest, s
  <2>1. /\ Append(rest, s) \in Seq(Results) /\ Once(Append(rest, s))
        /\ Len(Append(rest, s)) = Len(rest) + 1
        /\ Total(Append(rest, s)) = Total(rest) + SizeOf[s]
    BY <1>2, <1>4, AppendCounts
  <2>2. Total(cache)' = Total(cache')  /\ Once(cache)' = Once(cache')
    BY DEF Total, Weight, Once
  <2> QED BY <1>2, <1>4, <2>1, <2>2 DEF Cached
<1>5. CASE Position(s) # {} /\ cache' = rest /\ bytes' = bytes - SizeOf[s]
  <2> HIDE DEF rest, s
  <2>1. Total(cache)' = Total(cache')  /\ Once(cache)' = Once(cache')
    BY DEF Total, Weight, Once
  <2> QED BY <1>2, <1>3, <1>5, <2>1 DEF Cached
<1> QED BY <1>1, <1>4, <1>5 DEF Look, cacheVars

LEMMA StoreCached == ASSUME Cached, NEW r \in Requests, Store(r) PROVE Cached'
<1> DEFINE s == Script[r]
           rest == Without(cache, s)
           room == Room(rest, Freed(s), s)
<1>1. CASE UNCHANGED cacheVars
  BY <1>1, QuietCached
<1>2. CASE /\ s # None /\ ~(SizeOf[s] > MaxBytes)
           /\ cache' = Append(room.items, s) /\ bytes' = room.bytes + SizeOf[s]
  <2>1. s \in Results /\ SizeOf[s] \in Nat /\ SizeOf[s] <= MaxBytes
    BY <1>2, SandboxPoolAssumption DEF SandboxPoolAssumption, Results
  <2>2. /\ rest \in Seq(Results) /\ Once(rest) /\ ~In(rest, s)
        /\ Total(rest) = IF In(cache, s) THEN Total(cache) - SizeOf[s] ELSE Total(cache)
    BY WithoutCounts DEF Cached
  <2>3. Freed(s) = Total(rest)
    BY <2>2, PositionIn DEF Freed, Cached
  <2>4. Total(cache)' = Total(cache')  /\ Once(cache)' = Once(cache')
    BY DEF Total, Weight, Once
  <2>5. room = Room(rest, Total(rest), s)
    BY <2>3
  <2> HIDE DEF rest, s, room
  <2>6. /\ room.items \in Seq(Results) /\ Once(room.items) /\ ~In(room.items, s)
        /\ room.bytes = Total(room.items)
        /\ Len(room.items) + 1 <= MaxEntries
        /\ room.bytes + SizeOf[s] <= MaxBytes
    BY <2>1, <2>2, <2>5, RoomFits
  <2>7. /\ Append(room.items, s) \in Seq(Results) /\ Once(Append(room.items, s))
        /\ Len(Append(room.items, s)) = Len(room.items) + 1
        /\ Total(Append(room.items, s)) = Total(room.items) + SizeOf[s]
    BY <2>1, <2>6, AppendCounts
  <2> QED BY <1>2, <2>4, <2>6, <2>7 DEF Cached
<1> QED BY <1>1, <1>2 DEF Store

LEMMA InitCached == Init => Cached
<1> SUFFICES ASSUME Init PROVE Cached
  OBVIOUS
<1>1. cache = <<>> /\ bytes = 0 /\ cache \in Seq(Results) /\ Len(cache) = 0
  BY DEF Init
<1>2. Total(cache) = 0
  BY <1>1, WeightSums DEF Total
<1> QED
  BY <1>1, <1>2, SandboxPoolAssumption DEF Cached, Once, SandboxPoolAssumption

LEMMA NextCached == Cached /\ [Next]_vars => Cached'
<1> SUFFICES ASSUME Cached, [Next]_vars PROVE Cached'
  OBVIOUS
<1>1. CASE UNCHANGED cacheVars
  BY <1>1, QuietCached
<1>2. ASSUME NEW r \in Requests, RequestStep(r) PROVE Look(r) \/ Store(r) \/ UNCHANGED cacheVars
  BY <1>2 DEF RequestStep, Start, StartLocal, Await, Acquire, Reuse, Create, Wait, Deadline, Cold,
     ColdRun, Run, Rerun, Release, Discard, CloseDiscarded
<1>3. ASSUME NEW k \in Keys, PrewarmStep(k) PROVE UNCHANGED cacheVars
  BY <1>3 DEF PrewarmStep, Prepared, Acquire, Reuse, Create, Wait, Deadline, Release
<1>4. CASE Next
  BY <1>1, <1>2, <1>3, <1>4, LookCached, StoreCached DEF Next, Shutdown, ShutdownClose
<1>5. CASE UNCHANGED vars
  BY <1>1, <1>5 DEF vars, cacheVars
<1> QED BY <1>4, <1>5

\* The result cache (script_cache.py, get and put) never holds a result twice, never
\* exceeds its entries or its bytes, and counts the bytes it holds.
THEOREM CacheTheorem == Spec => []CacheCounts
<1>1. Cached => CacheCounts
  BY DEF Cached, CacheCounts, Once, Total
<1> QED BY <1>1, InitCached, NextCached, PTL DEF Spec

-----------------------------------------------------------------------------
(* All that is shared.                                                     *)

\* Permits, workers and cached results together.
THEOREM SharedTheorem == Spec => []SharedAccounts
<1>1. TypeOK /\ CacheCounts /\ PermitsKept /\ OneRequestPerWorker => SharedAccounts
  BY DEF SharedAccounts
<1> QED BY <1>1, TypeTheorem, CacheTheorem, PermitsTheorem, OneRequestTheorem, PTL
=============================================================================
