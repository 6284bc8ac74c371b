----------------------- MODULE TurnCoordinatorProofs -----------------------
(***************************************************************************)
(* Theorems of TurnCoordinator for any processes, sessions, users and runs, *)
(* any caps and any number of Redis errors and crashes.                     *)
(***************************************************************************)
EXTENDS TurnCoordinator, FiniteSetTheorems, TLAPS

-----------------------------------------------------------------------------
(* Counting sets of runs. *)

\* A set of runs is finite, and one run more or less changes its size by one.
LEMMA RunCount ==
  ASSUME NEW A \in SUBSET Runs, NEW r \in Runs
  PROVE  /\ IsFiniteSet(A) /\ Cardinality(A) \in Nat
         /\ r \notin A => Cardinality(A \cup {r}) = Cardinality(A) + 1
         /\ r \in A => Cardinality(A \ {r}) = Cardinality(A) - 1
<1>1. IsFiniteSet(A)
  BY ConstantsAssumption, FS_Subset
<1>2. QED
  BY <1>1, FS_CardinalityType, FS_AddElement, FS_RemoveElement

-----------------------------------------------------------------------------
(* The permits of a process's semaphores.                                   *)

Admitted == HasGlobal \cup HasBoth

\* The run does not enter or leave the stages that hold a permit of process p.
KeepsGlobal(r, st, p) == proc[r] # p \/ (pc[r] \in Admitted <=> st \in Admitted)
KeepsUser(r, st, p, u) ==
  proc[r] # p \/ UserOf[r] # u \/ (pc[r] \in HasBoth <=> st \in HasBoth)

\* n is m, one less when the run takes a permit, one more when it gives it back.
Moved(n, m, keeps, takes) == n = IF keeps THEN m ELSE IF takes THEN m - 1 ELSE m + 1

\* What moving one run to another stage does to the holders of the permits of
\* process p: their number moves opposite to the permits.
LEMMA HoldersMove ==
  ASSUME TypeOK, NEW r \in Runs, NEW st \in Stages,
         pc' = [pc EXCEPT ![r] = st], proc' = proc,
         NEW p \in Procs, NEW u \in Users
  PROVE  /\ Cardinality(HoldersOfGlobal(p)) \in Nat
         /\ Cardinality(HoldersOfGlobal(p)') \in Nat
         /\ Moved(Cardinality(HoldersOfGlobal(p)), Cardinality(HoldersOfGlobal(p)'),
                  KeepsGlobal(r, st, p), st \in Admitted)
         /\ Cardinality(HoldersOfUser(p, u)) \in Nat
         /\ Cardinality(HoldersOfUser(p, u)') \in Nat
         /\ Moved(Cardinality(HoldersOfUser(p, u)), Cardinality(HoldersOfUser(p, u)'),
                  KeepsUser(r, st, p, u), st \in HasBoth)
<1>1. /\ HoldersOfGlobal(p) \in SUBSET Runs
      /\ HoldersOfGlobal(p)' \in SUBSET Runs
      /\ HoldersOfUser(p, u) \in SUBSET Runs
      /\ HoldersOfUser(p, u)' \in SUBSET Runs
  BY DEF HoldersOfGlobal, HoldersOfUser
<1>2. pc \in [Runs -> Stages]
  BY DEF TypeOK
<1>3. /\ KeepsGlobal(r, st, p) => HoldersOfGlobal(p)' = HoldersOfGlobal(p)
      /\ ~KeepsGlobal(r, st, p) /\ st \in Admitted
           => HoldersOfGlobal(p)' = HoldersOfGlobal(p) \cup {r} /\ r \notin HoldersOfGlobal(p)
      /\ ~KeepsGlobal(r, st, p) /\ st \notin Admitted
           => HoldersOfGlobal(p)' = HoldersOfGlobal(p) \ {r} /\ r \in HoldersOfGlobal(p)
  BY <1>2 DEF KeepsGlobal, HoldersOfGlobal, Admitted, HasGlobal, HasBoth
<1>4. /\ KeepsUser(r, st, p, u) => HoldersOfUser(p, u)' = HoldersOfUser(p, u)
      /\ ~KeepsUser(r, st, p, u) /\ st \in HasBoth
           => HoldersOfUser(p, u)' = HoldersOfUser(p, u) \cup {r} /\ r \notin HoldersOfUser(p, u)
      /\ ~KeepsUser(r, st, p, u) /\ st \notin HasBoth
           => HoldersOfUser(p, u)' = HoldersOfUser(p, u) \ {r} /\ r \in HoldersOfUser(p, u)
  BY <1>2 DEF KeepsUser, HoldersOfUser, HasBoth
<1>5. /\ Cardinality(HoldersOfGlobal(p)) \in Nat
      /\ Cardinality(HoldersOfGlobal(p)') \in Nat
      /\ Cardinality(HoldersOfUser(p, u)) \in Nat
      /\ Cardinality(HoldersOfUser(p, u)') \in Nat
  BY <1>1, RunCount
<1>6. Moved(Cardinality(HoldersOfGlobal(p)), Cardinality(HoldersOfGlobal(p)'),
            KeepsGlobal(r, st, p), st \in Admitted)
  BY <1>1, <1>3, <1>5, RunCount DEF Moved
<1>7. Moved(Cardinality(HoldersOfUser(p, u)), Cardinality(HoldersOfUser(p, u)'),
            KeepsUser(r, st, p, u), st \in HasBoth)
  BY <1>1, <1>4, <1>5, RunCount DEF Moved
<1>8. QED
  BY <1>5, <1>6, <1>7

\* A step that moves one run and with it exactly the permits it takes or gives
\* back conserves the permits.
LEMMA MovePermits ==
  ASSUME TypeOK, PermitsConserved, NEW r \in Runs, NEW st \in Stages,
         pc' = [pc EXCEPT ![r] = st], proc' = proc,
         \A p \in Procs :
           /\ Moved(permits'[p], permits[p], KeepsGlobal(r, st, p), st \in Admitted)
           /\ \A u \in Users :
                Moved(userPermits'[p][u], userPermits[p][u],
                      KeepsUser(r, st, p, u), st \in HasBoth)
  PROVE  PermitsConserved'
<1>1. ASSUME NEW p \in Procs, NEW u \in Users
      PROVE  /\ permits'[p] + Cardinality(HoldersOfGlobal(p)') = MaxStreams
             /\ userPermits'[p][u] + Cardinality(HoldersOfUser(p, u)') = PerUser
  <2>1. /\ permits[p] + Cardinality(HoldersOfGlobal(p)) = MaxStreams
        /\ userPermits[p][u] + Cardinality(HoldersOfUser(p, u)) = PerUser
    BY DEF PermitsConserved
  <2>2. permits[p] \in Nat /\ userPermits[p][u] \in Nat
    BY DEF TypeOK
  <2>3. /\ Cardinality(HoldersOfGlobal(p)) \in Nat
        /\ Cardinality(HoldersOfGlobal(p)') \in Nat
        /\ Moved(Cardinality(HoldersOfGlobal(p)), Cardinality(HoldersOfGlobal(p)'),
                 KeepsGlobal(r, st, p), st \in Admitted)
        /\ Cardinality(HoldersOfUser(p, u)) \in Nat
        /\ Cardinality(HoldersOfUser(p, u)') \in Nat
        /\ Moved(Cardinality(HoldersOfUser(p, u)), Cardinality(HoldersOfUser(p, u)'),
                 KeepsUser(r, st, p, u), st \in HasBoth)
    BY HoldersMove
  <2>4. /\ Moved(permits'[p], permits[p], KeepsGlobal(r, st, p), st \in Admitted)
        /\ Moved(userPermits'[p][u], userPermits[p][u], KeepsUser(r, st, p, u), st \in HasBoth)
    OBVIOUS
  <2>5. permits'[p] + Cardinality(HoldersOfGlobal(p)') = MaxStreams
    <3>1. CASE KeepsGlobal(r, st, p)
      BY <3>1, <2>1, <2>2, <2>3, <2>4 DEF Moved
    <3>2. CASE ~KeepsGlobal(r, st, p)
      BY <3>2, <2>1, <2>2, <2>3, <2>4 DEF Moved
    <3>3. QED
      BY <3>1, <3>2
  <2>6. userPermits'[p][u] + Cardinality(HoldersOfUser(p, u)') = PerUser
    <3>1. CASE KeepsUser(r, st, p, u)
      BY <3>1, <2>1, <2>2, <2>3, <2>4 DEF Moved
    <3>2. CASE ~KeepsUser(r, st, p, u)
      BY <3>2, <2>1, <2>2, <2>3, <2>4 DEF Moved
    <3>3. QED
      BY <3>1, <3>2
  <2>7. QED
    BY <2>5, <2>6
<1>2. UserOf[r] \in Users
  BY ConstantsAssumption
<1>3. QED
  BY <1>1, <1>2 DEF PermitsConserved

\* The permits and the stages are what they were.
LEMMA KeepsPermits ==
  ASSUME PermitsConserved,
         UNCHANGED <<permits, userPermits, pc, proc>>
  PROVE  PermitsConserved'
  BY DEF PermitsConserved, HoldersOfGlobal, HoldersOfUser

\* Every step of every process, of Redis and of the environment conserves the
\* permits.
LEMMA PermitsStep ==
  ASSUME TypeOK, PermitsConserved, [Next]_vars
  PROVE  PermitsConserved'
<1> USE DEF local, redis, stops, env
<1>1. ASSUME NEW r \in Runs, NEW st \in Stages,
             pc' = [pc EXCEPT ![r] = st],
             UNCHANGED <<permits, userPermits, proc>>,
             pc[r] \in Admitted <=> st \in Admitted, pc[r] \in HasBoth <=> st \in HasBoth
      PROVE  PermitsConserved'
  BY <1>1, MovePermits DEF KeepsGlobal, KeepsUser, Moved
<1>2. ASSUME NEW r \in Runs, AcquireGlobal(r) PROVE PermitsConserved'
  <2>1. pc' = [pc EXCEPT ![r] = "user"] /\ proc' = proc /\ "user" \in Stages
    BY <1>2 DEF AcquireGlobal, Stages, WaitsGlobal, HasGlobal, HasBoth, Counted, Settled
  <2>2. ASSUME NEW p \in Procs
        PROVE  /\ Moved(permits'[p], permits[p], KeepsGlobal(r, "user", p), "user" \in Admitted)
               /\ \A u \in Users :
                    Moved(userPermits'[p][u], userPermits[p][u],
                          KeepsUser(r, "user", p, u), "user" \in HasBoth)
    BY <1>2, ConstantsAssumption
       DEF AcquireGlobal, Own, TypeOK, KeepsGlobal, KeepsUser, Moved, Admitted, HasGlobal, HasBoth
  <2>3. QED
    BY <2>1, <2>2, MovePermits
<1>3. ASSUME NEW r \in Runs, AcquireUser(r) PROVE PermitsConserved'
  <2>1. pc' = [pc EXCEPT ![r] = "admitted"] /\ proc' = proc /\ "admitted" \in Stages
    BY <1>3 DEF AcquireUser, Stages, WaitsGlobal, HasGlobal, HasBoth, Counted, Settled
  <2>2. ASSUME NEW p \in Procs
        PROVE  /\ Moved(permits'[p], permits[p], KeepsGlobal(r, "admitted", p), "admitted" \in Admitted)
               /\ \A u \in Users :
                    Moved(userPermits'[p][u], userPermits[p][u],
                          KeepsUser(r, "admitted", p, u), "admitted" \in HasBoth)
    BY <1>3, ConstantsAssumption
       DEF AcquireUser, Own, TypeOK, KeepsGlobal, KeepsUser, Moved, Admitted, HasGlobal, HasBoth
  <2>3. QED
    BY <2>1, <2>2, MovePermits
<1>4. ASSUME NEW r \in Runs, UserTimeout(r) PROVE PermitsConserved'
  <2>1. pc' = [pc EXCEPT ![r] = "refused"] /\ proc' = proc /\ "refused" \in Stages
    BY <1>4 DEF UserTimeout, Stages, WaitsGlobal, HasGlobal, HasBoth, Counted, Settled
  <2>2. ASSUME NEW p \in Procs
        PROVE  /\ Moved(permits'[p], permits[p], KeepsGlobal(r, "refused", p), "refused" \in Admitted)
               /\ \A u \in Users :
                    Moved(userPermits'[p][u], userPermits[p][u],
                          KeepsUser(r, "refused", p, u), "refused" \in HasBoth)
    BY <1>4, ConstantsAssumption
       DEF UserTimeout, Own, TypeOK, KeepsGlobal, KeepsUser, Moved, Admitted, HasGlobal, HasBoth
  <2>3. QED
    BY <2>1, <2>2, MovePermits
<1>5. ASSUME NEW r \in Runs, ReserveRefused(r) PROVE PermitsConserved'
  <2>1. pc' = [pc EXCEPT ![r] = "refused"] /\ proc' = proc /\ "refused" \in Stages
    BY <1>5 DEF ReserveRefused, Stages, WaitsGlobal, HasGlobal, HasBoth, Counted, Settled
  <2>2. ASSUME NEW p \in Procs
        PROVE  /\ Moved(permits'[p], permits[p], KeepsGlobal(r, "refused", p), "refused" \in Admitted)
               /\ \A u \in Users :
                    Moved(userPermits'[p][u], userPermits[p][u],
                          KeepsUser(r, "refused", p, u), "refused" \in HasBoth)
    BY <1>5, ConstantsAssumption
       DEF ReserveRefused, ReturnPermits, Own, TypeOK, KeepsGlobal, KeepsUser, Moved, Admitted, HasGlobal, HasBoth
  <2>3. QED
    BY <2>1, <2>2, MovePermits
<1>6. ASSUME NEW r \in Runs, ReserveFault(r) PROVE PermitsConserved'
  <2>1. pc' = [pc EXCEPT ![r] = "done"] /\ proc' = proc /\ "done" \in Stages
    BY <1>6 DEF ReserveFault, Stages, WaitsGlobal, HasGlobal, HasBoth, Counted, Settled
  <2>2. ASSUME NEW p \in Procs
        PROVE  /\ Moved(permits'[p], permits[p], KeepsGlobal(r, "done", p), "done" \in Admitted)
               /\ \A u \in Users :
                    Moved(userPermits'[p][u], userPermits[p][u],
                          KeepsUser(r, "done", p, u), "done" \in HasBoth)
    BY <1>6, ConstantsAssumption
       DEF ReserveFault, ReturnPermits, Own, TypeOK, KeepsGlobal, KeepsUser, Moved, Admitted, HasGlobal, HasBoth
  <2>3. QED
    BY <2>1, <2>2, MovePermits
<1>7. ASSUME NEW r \in Runs, PublishFault(r) PROVE PermitsConserved'
  <2>1. pc' = [pc EXCEPT ![r] = "closing"] /\ proc' = proc /\ "closing" \in Stages
    BY <1>7 DEF PublishFault, Stages, WaitsGlobal, HasGlobal, HasBoth, Counted, Settled
  <2>2. ASSUME NEW p \in Procs
        PROVE  /\ Moved(permits'[p], permits[p], KeepsGlobal(r, "closing", p), "closing" \in Admitted)
               /\ \A u \in Users :
                    Moved(userPermits'[p][u], userPermits[p][u],
                          KeepsUser(r, "closing", p, u), "closing" \in HasBoth)
    BY <1>7, ConstantsAssumption
       DEF PublishFault, ReturnPermits, Own, TypeOK, KeepsGlobal, KeepsUser, Moved, Admitted, HasGlobal, HasBoth
  <2>3. QED
    BY <2>1, <2>2, MovePermits
<1>8. ASSUME NEW r \in Runs, GlobalTimeout(r) PROVE PermitsConserved'
  BY <1>8, <1>1 DEF GlobalTimeout, Stages, WaitsGlobal, Counted, Settled, Admitted, HasGlobal, HasBoth
<1>9. ASSUME NEW r \in Runs, ReserveRedis(r) PROVE PermitsConserved'
  BY <1>9, <1>1 DEF ReserveRedis, Stages, WaitsGlobal, Counted, Settled, Admitted, HasGlobal, HasBoth
<1>10. ASSUME NEW r \in Runs, PublishGeneration(r) PROVE PermitsConserved'
  BY <1>10, <1>1 DEF PublishGeneration, Stages, WaitsGlobal, Counted, Settled, Admitted, HasGlobal, HasBoth
<1>11. ASSUME NEW r \in Runs, ReleaseRedis(r) PROVE PermitsConserved'
  BY <1>11, <1>1 DEF ReleaseRedis, Stages, WaitsGlobal, Counted, Settled, Admitted, HasGlobal, HasBoth
<1>12. ASSUME NEW r \in Runs, ReleaseFault(r) PROVE PermitsConserved'
  BY <1>12, <1>1 DEF ReleaseFault, Stages, WaitsGlobal, Counted, Settled, Admitted, HasGlobal, HasBoth
<1>13. ASSUME NEW r \in Runs, SetGeneration(r) PROVE PermitsConserved'
  <2> DEFINE st == IF RedisEnabled THEN "reserve" ELSE "held"
  <2>1. /\ pc' = [pc EXCEPT ![r] = st] /\ st \in Stages
        /\ pc[r] \in HasBoth /\ st \in HasBoth
        /\ UNCHANGED <<permits, userPermits, proc>>
    BY <1>13 DEF SetGeneration, Stages, HasBoth
  <2>2. QED
    BY <2>1, <1>1 DEF Admitted
<1>14. ASSUME NEW r \in Runs, Release(r) PROVE PermitsConserved'
  <2> DEFINE st == IF RedisEnabled THEN "closing" ELSE "done"
  <2>1. pc' = [pc EXCEPT ![r] = st] /\ proc' = proc /\ st \in Stages /\ pc[r] = "held"
    BY <1>14 DEF Release, Held, Stages, Counted, Settled
  <2>2. st \notin Admitted /\ st \notin HasBoth
    BY DEF Admitted, HasGlobal, HasBoth
  <2> HIDE DEF st
  <2>3. ASSUME NEW p \in Procs
        PROVE  /\ Moved(permits'[p], permits[p], KeepsGlobal(r, st, p), st \in Admitted)
               /\ \A u \in Users :
                    Moved(userPermits'[p][u], userPermits[p][u],
                          KeepsUser(r, st, p, u), st \in HasBoth)
    BY <1>14, <2>1, <2>2, ConstantsAssumption
       DEF Release, ReturnPermits, Own, TypeOK, KeepsGlobal, KeepsUser, Moved,
           Admitted, HasGlobal, HasBoth
  <2>4. QED
    BY <2>1, <2>3, MovePermits
<1>15. ASSUME NEW p \in Procs, NEW r \in Runs, Arrive(p, r) PROVE PermitsConserved'
  <2>1. /\ \A q \in Procs : HoldersOfGlobal(q)' = HoldersOfGlobal(q)
        /\ \A q \in Procs, u \in Users : HoldersOfUser(q, u)' = HoldersOfUser(q, u)
    BY <1>15 DEF Arrive, TypeOK, HoldersOfGlobal, HoldersOfUser, HasGlobal, HasBoth
  <2>2. QED
    BY <1>15, <2>1 DEF Arrive, PermitsConserved
<1>16. ASSUME NEW p \in Procs, NEW r \in Runs, Supersede(p, r) \/ CancelStep(p, r)
      PROVE  PermitsConserved'
  BY <1>16, KeepsPermits
     DEF Supersede, CancelStep, CancelLocal, CancelRejected, CancelRedis, CancelFault
<1>17. CASE Expire
  BY <1>17, KeepsPermits
     DEF Expire, ExpireActive, ExpireUser, ExpireGeneration, ExpireCancelled
<1>18. ASSUME NEW p \in Procs, Crash(p) PROVE PermitsConserved'
  <2>1. ASSUME NEW q \in Procs
        PROVE  permits'[q] + Cardinality(HoldersOfGlobal(q)') = MaxStreams
    <3>1. CASE q = p
      <4>1. HoldersOfGlobal(q)' = {} /\ permits'[q] = MaxStreams
        BY <1>18, <3>1 DEF Crash, TypeOK, HoldersOfGlobal, HasGlobal, HasBoth
      <4>2. QED
        BY <4>1, FS_EmptySet, ConstantsAssumption
    <3>2. CASE q # p
      <4>1. HoldersOfGlobal(q)' = HoldersOfGlobal(q) /\ permits'[q] = permits[q]
        BY <1>18, <3>2 DEF Crash, TypeOK, HoldersOfGlobal
      <4>2. QED
        BY <4>1 DEF PermitsConserved
    <3>3. QED
      BY <3>1, <3>2
  <2>2. ASSUME NEW q \in Procs, NEW u \in Users
        PROVE  userPermits'[q][u] + Cardinality(HoldersOfUser(q, u)') = PerUser
    <3>1. CASE q = p
      <4>1. HoldersOfUser(q, u)' = {} /\ userPermits'[q][u] = PerUser
        BY <1>18, <3>1 DEF Crash, TypeOK, HoldersOfUser, HasBoth
      <4>2. QED
        BY <4>1, FS_EmptySet, ConstantsAssumption
    <3>2. CASE q # p
      <4>1. HoldersOfUser(q, u)' = HoldersOfUser(q, u) /\ userPermits'[q][u] = userPermits[q][u]
        BY <1>18, <3>2 DEF Crash, TypeOK, HoldersOfUser
      <4>2. QED
        BY <4>1 DEF PermitsConserved
    <3>3. QED
      BY <3>1, <3>2
  <2>3. QED
    BY <2>1, <2>2 DEF PermitsConserved
<1>19. CASE UNCHANGED vars
  BY <1>19, KeepsPermits DEF vars
<1>20. QED
  BY <1>2, <1>3, <1>4, <1>5, <1>6, <1>7, <1>8, <1>9, <1>10, <1>11, <1>12,
     <1>13, <1>14, <1>15, <1>16, <1>17, <1>18, <1>19
     DEF Next, Acquire, ReleaseStep

-----------------------------------------------------------------------------
(* Type correctness: the bounds of the permits are their conservation.      *)

\* What every step does to the other variables keeps their types, and permits
\* stay numbers.
LEMMA TypeStep ==
  ASSUME TypeOK, PermitsConserved, PermitsConserved', [Next]_vars
  PROVE  TypeOK'
<1> DEFINE Numbers == /\ permits \in [Procs -> Nat]
                      /\ userPermits \in [Procs -> [Users -> Nat]]
           Marks == /\ localGen \in [Procs -> [Sessions -> RunOrNone]]
                    /\ localCancelled \in [Procs -> [Sessions -> RunOrNone]]
                    /\ redisGen \in [Sessions -> RunOrNone]
                    /\ redisCancelled \in [Sessions -> RunOrNone]
           Counters == /\ redisActive \in Nat
                       /\ redisUser \in [Users -> Nat]
                       /\ faults \in 0..MaxFaults /\ crashes \in 0..MaxCrashes
           Places == /\ pc \in [Runs -> Stages]
                     /\ proc \in [Runs -> Procs \cup {None}]
                     /\ \A r \in Runs : pc[r] # "idle" => proc[r] \in Procs
           Stops == /\ cancelling \subseteq Procs \X Runs
                    /\ acked \subseteq Runs /\ rejected \subseteq Runs
<1>1. Numbers /\ Marks /\ Counters /\ Places /\ Stops
  BY ConstantsAssumption DEF TypeOK
<1>2. SUFFICES Numbers' /\ Marks' /\ Counters' /\ Places' /\ Stops'
  <2> SUFFICES ASSUME Numbers', Marks', Counters', Places', Stops' PROVE TypeOK'
    OBVIOUS
  <2>1. ASSUME NEW p \in Procs
        PROVE  permits'[p] \in 0..MaxStreams
    <3>1. Cardinality(HoldersOfGlobal(p)') \in Nat
      <4>1. HoldersOfGlobal(p)' \in SUBSET Runs
        BY DEF HoldersOfGlobal
      <4>2. QED
        BY <4>1, ConstantsAssumption, FS_Subset, FS_CardinalityType
    <3>2. QED
      BY <3>1, ConstantsAssumption DEF PermitsConserved
  <2>2. ASSUME NEW p \in Procs, NEW u \in Users
        PROVE  userPermits'[p][u] \in 0..PerUser
    <3>1. Cardinality(HoldersOfUser(p, u)') \in Nat
      <4>1. HoldersOfUser(p, u)' \in SUBSET Runs
        BY DEF HoldersOfUser
      <4>2. QED
        BY <4>1, ConstantsAssumption, FS_Subset, FS_CardinalityType
    <3>2. QED
      BY <3>1, ConstantsAssumption DEF PermitsConserved
  <2>3. QED
    BY <2>1, <2>2 DEF TypeOK
<1> USE ConstantsAssumption DEF local, redis, stops, env, RunOrNone, Own, At, Stages,
      WaitsGlobal, HasGlobal, HasBoth, Counted, Settled
<1>3. ASSUME NEW r \in Runs, AcquireGlobal(r)
      PROVE  Numbers' /\ Marks' /\ Counters' /\ Places' /\ Stops'
  BY <1>1, <1>3 DEF AcquireGlobal
<1>4. ASSUME NEW r \in Runs, GlobalTimeout(r)
      PROVE  Numbers' /\ Marks' /\ Counters' /\ Places' /\ Stops'
  BY <1>1, <1>4 DEF GlobalTimeout
<1>5. ASSUME NEW r \in Runs, AcquireUser(r)
      PROVE  Numbers' /\ Marks' /\ Counters' /\ Places' /\ Stops'
  BY <1>1, <1>5 DEF AcquireUser
<1>6. ASSUME NEW r \in Runs, UserTimeout(r)
      PROVE  Numbers' /\ Marks' /\ Counters' /\ Places' /\ Stops'
  BY <1>1, <1>6 DEF UserTimeout
<1>7. ASSUME NEW r \in Runs, SetGeneration(r)
      PROVE  Numbers' /\ Marks' /\ Counters' /\ Places' /\ Stops'
  BY <1>1, <1>7 DEF PopCancelled, SetGeneration
<1>8. ASSUME NEW r \in Runs, ReserveRedis(r)
      PROVE  Numbers' /\ Marks' /\ Counters' /\ Places' /\ Stops'
  BY <1>1, <1>8 DEF IncrementCounters, ReserveRedis
<1>9. ASSUME NEW r \in Runs, ReserveRefused(r)
      PROVE  Numbers' /\ Marks' /\ Counters' /\ Places' /\ Stops'
  BY <1>1, <1>9 DEF ReturnPermits, ReserveRefused
<1>10. ASSUME NEW r \in Runs, ReserveFault(r)
      PROVE  Numbers' /\ Marks' /\ Counters' /\ Places' /\ Stops'
  <2>1. Numbers'
    BY <1>1, <1>10 DEF ReturnPermits, ReserveFault
  <2>2. Counters'
    <3>1. faults' \in 0..MaxFaults /\ crashes' \in 0..MaxCrashes
      BY <1>1, <1>10 DEF ReserveFault
    <3>2. redisActive' \in Nat /\ redisUser' \in [Users -> Nat]
      <4>1. CASE UNCHANGED <<redisActive, redisUser>>
        BY <1>1, <4>1
      <4>2. CASE IncrementCounters(r)
        BY <1>1, <4>2 DEF IncrementCounters
      <4>3. QED
        BY <1>10, <4>1, <4>2 DEF ReserveFault
    <3>3. QED
      BY <3>1, <3>2
  <2>3. Marks' /\ Places' /\ Stops'
    BY <1>1, <1>10 DEF ReserveFault
  <2>4. QED
    BY <2>1, <2>2, <2>3
<1>11. ASSUME NEW r \in Runs, PublishGeneration(r)
      PROVE  Numbers' /\ Marks' /\ Counters' /\ Places' /\ Stops'
  BY <1>1, <1>11 DEF PublishGeneration
<1>12. ASSUME NEW r \in Runs, PublishFault(r)
      PROVE  Numbers' /\ Marks' /\ Counters' /\ Places' /\ Stops'
  <2>1. Numbers' /\ Counters'
    BY <1>1, <1>12 DEF ReturnPermits, PublishFault
  <2>2. Marks'
    BY <1>1, <1>12 DEF ReturnPermits, PublishFault
  <2>3. Places' /\ Stops'
    BY <1>1, <1>12 DEF ReturnPermits, PublishFault
  <2>4. QED
    BY <2>1, <2>2, <2>3
<1>13. ASSUME NEW r \in Runs, Release(r)
      PROVE  Numbers' /\ Marks' /\ Counters' /\ Places' /\ Stops'
  BY <1>1, <1>13 DEF PopCancelled, ReturnPermits, Held, Release
<1>14. ASSUME NEW r \in Runs, ReleaseRedis(r)
      PROVE  Numbers' /\ Marks' /\ Counters' /\ Places' /\ Stops'
  BY <1>1, <1>14 DEF DecrementCounters, ReleaseRedis
<1>15. ASSUME NEW r \in Runs, ReleaseFault(r)
      PROVE  Numbers' /\ Marks' /\ Counters' /\ Places' /\ Stops'
  BY <1>1, <1>15 DEF ReleaseFault
<1>16. ASSUME NEW p \in Procs, NEW r \in Runs, Arrive(p, r)
      PROVE  Numbers' /\ Marks' /\ Counters' /\ Places' /\ Stops'
  BY <1>1, <1>16 DEF Arrive
<1>17. ASSUME NEW p \in Procs, NEW r \in Runs, Supersede(p, r)
      PROVE  Numbers' /\ Marks' /\ Counters' /\ Places' /\ Stops'
  BY <1>1, <1>17 DEF Supersede
<1>18. ASSUME NEW p \in Procs, NEW r \in Runs, CancelLocal(p, r)
      PROVE  Numbers' /\ Marks' /\ Counters' /\ Places' /\ Stops'
  BY <1>1, <1>18 DEF CancelLocal
<1>19. ASSUME NEW p \in Procs, NEW r \in Runs, CancelRejected(p, r)
      PROVE  Numbers' /\ Marks' /\ Counters' /\ Places' /\ Stops'
  BY <1>1, <1>19 DEF CancelRejected
<1>20. ASSUME NEW p \in Procs, NEW r \in Runs, CancelRedis(p, r)
      PROVE  Numbers' /\ Marks' /\ Counters' /\ Places' /\ Stops'
  <2>1. Numbers' /\ Counters'
    BY <1>1, <1>20 DEF PopCancelled, CancelRedis
  <2>2. Marks'
    <3>1. CASE redisGen[At(r)] = r
      BY <1>1, <1>20, <3>1 DEF CancelRedis
    <3>2. CASE redisGen[At(r)] # r
      <4>1. PopCancelled(p, r)
        BY <1>20, <3>2 DEF CancelRedis
      <4>2. localCancelled' \in [Procs -> [Sessions -> RunOrNone]]
        BY <1>1, <4>1 DEF PopCancelled
      <4>3. QED
        BY <1>1, <1>20, <3>2, <4>2 DEF CancelRedis
    <3>3. QED
      BY <3>1, <3>2
  <2>3. Places' /\ Stops'
    BY <1>1, <1>20 DEF PopCancelled, CancelRedis
  <2>4. QED
    BY <2>1, <2>2, <2>3
<1>21. ASSUME NEW p \in Procs, NEW r \in Runs, CancelFault(p, r)
      PROVE  Numbers' /\ Marks' /\ Counters' /\ Places' /\ Stops'
  <2>1. Numbers' /\ Counters'
    BY <1>1, <1>21 DEF CancelFault
  <2>2. Marks'
    BY <1>1, <1>21 DEF CancelFault
  <2>3. Places' /\ Stops'
    BY <1>1, <1>21 DEF CancelFault
  <2>4. QED
    BY <2>1, <2>2, <2>3
<1>22. CASE Expire
  <2>1. CASE ExpireActive
    BY <1>1, <2>1 DEF ExpireActive
  <2>2. ASSUME NEW u \in Users, ExpireUser(u)
        PROVE  Numbers' /\ Marks' /\ Counters' /\ Places' /\ Stops'
    BY <1>1, <2>2 DEF ExpireUser
  <2>3. ASSUME NEW s \in Sessions, ExpireGeneration(s)
        PROVE  Numbers' /\ Marks' /\ Counters' /\ Places' /\ Stops'
    BY <1>1, <2>3 DEF ExpireGeneration
  <2>4. ASSUME NEW s \in Sessions, ExpireCancelled(s)
        PROVE  Numbers' /\ Marks' /\ Counters' /\ Places' /\ Stops'
    BY <1>1, <2>4 DEF ExpireCancelled
  <2>5. QED
    <3> HIDE DEF Numbers, Marks, Counters, Places, Stops
    <3> QED
      BY <1>22, <2>1, <2>2, <2>3, <2>4 DEF Expire
<1>23. ASSUME NEW p \in Procs, Crash(p)
      PROVE  Numbers' /\ Marks' /\ Counters' /\ Places' /\ Stops'
  BY <1>1, <1>23 DEF Crash
<1>24. CASE UNCHANGED vars
  BY <1>1, <1>24 DEF vars
<1>25. QED
  <2> HIDE DEF Numbers, Marks, Counters, Places, Stops
  <2> QED
    BY <1>3, <1>4, <1>5, <1>6, <1>7, <1>8, <1>9, <1>10, <1>11, <1>12, <1>13,
     <1>14, <1>15, <1>16, <1>17, <1>18, <1>19, <1>20, <1>21, <1>22,
     <1>23, <1>24
    DEF Next, Acquire, ReleaseStep, CancelStep

\* Types and permits form an inductive invariant together: the bounds of the
\* semaphores rest on the holders, and the holders on the types.
THEOREM PermitsTheorem == Spec => [](TypeOK /\ PermitsConserved)
<1>1. Init => TypeOK /\ PermitsConserved
  <2> SUFFICES ASSUME Init PROVE TypeOK /\ PermitsConserved
    OBVIOUS
  <2>1. TypeOK
    BY ConstantsAssumption DEF Init, TypeOK, RunOrNone, Stages, WaitsGlobal
  <2>2. ASSUME NEW p \in Procs
        PROVE  permits[p] + Cardinality(HoldersOfGlobal(p)) = MaxStreams
    <3>1. HoldersOfGlobal(p) = {}
      BY DEF Init, HoldersOfGlobal, HasGlobal, HasBoth
    <3>2. QED
      BY <3>1, FS_EmptySet, ConstantsAssumption DEF Init
  <2>3. ASSUME NEW p \in Procs, NEW u \in Users
        PROVE  userPermits[p][u] + Cardinality(HoldersOfUser(p, u)) = PerUser
    <3>1. HoldersOfUser(p, u) = {}
      BY DEF Init, HoldersOfUser, HasBoth
    <3>2. QED
      BY <3>1, FS_EmptySet, ConstantsAssumption DEF Init
  <2>4. QED
    BY <2>1, <2>2, <2>3 DEF PermitsConserved
<1>2. TypeOK /\ PermitsConserved /\ [Next]_vars => (TypeOK /\ PermitsConserved)'
  BY PermitsStep, TypeStep
<1>3. QED
  BY <1>1, <1>2, PTL DEF Spec

\* The variables of every process, of Redis and of the stop requests keep
\* their types, and no semaphore is ever above its size.
THEOREM TypeTheorem == Spec => []TypeOK
  BY PermitsTheorem, PTL

\* No path of acquire or release, and no crash, loses or duplicates a permit
\* of a process's semaphores.
THEOREM ConservationTheorem == Spec => []PermitsConserved
  BY PermitsTheorem, PTL

-----------------------------------------------------------------------------
(* The Redis counters cover the runs they stand for.                        *)

\* The runs that count do not get more, and the counters stay.
LEMMA CoverKeeps ==
  ASSUME CapacityCovered, RedisEnabled, ~LeasesOutliveTTL,
         CountedRuns' \subseteq CountedRuns, UNCHANGED <<redisActive, redisUser>>, TypeOK
  PROVE  CapacityCovered'
<1>1. ASSUME NEW A \in SUBSET Runs, NEW B \in SUBSET A
      PROVE  /\ Cardinality(A) \in Nat /\ Cardinality(B) \in Nat
             /\ Cardinality(B) <= Cardinality(A)
  BY ConstantsAssumption, FS_Subset, FS_CardinalityType
<1>2. CountedRuns \in SUBSET Runs
  BY DEF CountedRuns
<1>3. Cardinality(CountedRuns') <= redisActive' /\ redisActive' <= MaxStreams
  <2>1. /\ redisActive' = redisActive /\ redisActive \in Nat
        /\ Cardinality(CountedRuns) <= redisActive /\ redisActive <= MaxStreams
    BY DEF CapacityCovered, TypeOK
  <2>2. QED
    BY <1>1, <1>2, <2>1, ConstantsAssumption
<1>4. ASSUME NEW u \in Users
      PROVE  Cardinality(CountedOf(u)') <= redisUser'[u] /\ redisUser'[u] <= PerUser
  <2>1. CountedOf(u) \in SUBSET Runs /\ CountedOf(u)' \in SUBSET CountedOf(u)
    BY <1>2 DEF CountedOf
  <2>2. Cardinality(CountedOf(u)) <= redisUser[u] /\ redisUser[u] <= PerUser
    BY DEF CapacityCovered
  <2>3. redisUser'[u] = redisUser[u] /\ redisUser[u] \in Nat
    BY DEF TypeOK
  <2>4. QED
    BY <1>1, <2>1, <2>2, <2>3, ConstantsAssumption
<1>5. QED
  BY <1>3, <1>4 DEF CapacityCovered

\* A reserved stream is counted where there was room for it.
LEMMA CoverReserve ==
  ASSUME CapacityCovered, RedisEnabled, ~LeasesOutliveTTL, TypeOK,
         NEW r \in Runs, ~CapReached(r), IncrementCounters(r),
         CountedRuns' = CountedRuns \/ CountedRuns' = CountedRuns \cup {r}
  PROVE  CapacityCovered'
<1>1. CountedRuns \in SUBSET Runs
  BY DEF CountedRuns
<1>2. ASSUME NEW A \in SUBSET Runs, NEW n \in Nat, Cardinality(A) <= n
      PROVE  Cardinality(A) <= n + 1 /\ Cardinality(A \cup {r}) <= n + 1
  <2>1. Cardinality(A) \in Nat
    BY RunCount
  <2>2. CASE r \in A
    <3>1. A \cup {r} = A
      BY <2>2
    <3>2. QED
      BY <1>2, <2>1, <3>1
  <2>3. CASE r \notin A
    <3>1. Cardinality(A \cup {r}) = Cardinality(A) + 1
      BY <2>3, RunCount
    <3>2. QED
      BY <1>2, <2>1, <3>1
  <2>4. QED
    BY <2>2, <2>3
<1>3. Cardinality(CountedRuns') <= redisActive' /\ redisActive' <= MaxStreams
  <2>1. redisActive \in Nat /\ Cardinality(CountedRuns) <= redisActive
    BY DEF CapacityCovered, TypeOK
  <2>2. redisActive' = redisActive + 1 /\ redisActive' <= MaxStreams
    BY <2>1, ConstantsAssumption DEF IncrementCounters, CapReached
  <2>3. QED
    BY <1>1, <1>2, <2>1, <2>2
<1>4. ASSUME NEW u \in Users
      PROVE  Cardinality(CountedOf(u)') <= redisUser'[u] /\ redisUser'[u] <= PerUser
  <2>1. CountedOf(u) \in SUBSET Runs
    BY <1>1 DEF CountedOf
  <2>2. Cardinality(CountedOf(u)) <= redisUser[u] /\ redisUser[u] <= PerUser
    BY DEF CapacityCovered
  <2>3. redisUser[u] \in Nat
    BY DEF TypeOK
  <2>4. CASE UserOf[r] = u
    <3>1. CountedOf(u)' = CountedOf(u) \/ CountedOf(u)' = CountedOf(u) \cup {r}
      BY <2>4 DEF CountedOf
    <3>2. redisUser'[u] = redisUser[u] + 1 /\ redisUser'[u] <= PerUser
      BY <2>3, <2>4, ConstantsAssumption DEF IncrementCounters, CapReached, Own, TypeOK
    <3>3. QED
      BY <1>2, <2>1, <2>2, <2>3, <3>1, <3>2
  <2>5. CASE UserOf[r] # u
    <3>1. CountedOf(u)' = CountedOf(u)
      BY <2>5 DEF CountedOf
    <3>2. redisUser'[u] = redisUser[u]
      BY <2>5 DEF IncrementCounters, Own, TypeOK
    <3>3. QED
      BY <2>2, <3>1, <3>2
  <2>6. QED
    BY <2>4, <2>5
<1>5. QED
  BY <1>3, <1>4 DEF CapacityCovered

\* A counted run is taken off the counters, which are not at zero.
LEMMA CoverRelease ==
  ASSUME CapacityCovered, RedisEnabled, ~LeasesOutliveTTL, TypeOK,
         NEW r \in CountedRuns, DecrementCounters(r), CountedRuns' = CountedRuns \ {r}
  PROVE  CapacityCovered'
<1>1. CountedRuns \in SUBSET Runs /\ r \in Runs
  BY DEF CountedRuns
<1>2. ASSUME NEW A \in SUBSET Runs, NEW n \in Nat, Cardinality(A) <= n, r \in A
      PROVE  n > 0 /\ Cardinality(A \ {r}) <= n - 1
  <2>1. Cardinality(A \ {r}) = Cardinality(A) - 1 /\ Cardinality(A \ {r}) \in Nat
    BY <1>1, <1>2, RunCount
  <2>2. Cardinality(A) \in Nat
    BY <1>1, RunCount
  <2>3. QED
    BY <1>2, <2>1, <2>2
<1>3. Cardinality(CountedRuns') <= redisActive' /\ redisActive' <= MaxStreams
  <2>1. redisActive \in Nat /\ Cardinality(CountedRuns) <= redisActive /\ redisActive <= MaxStreams
    BY DEF CapacityCovered, TypeOK
  <2>2. redisActive > 0 /\ Cardinality(CountedRuns') <= redisActive - 1
    BY <1>1, <1>2, <2>1
  <2>3. QED
    BY <2>1, <2>2, ConstantsAssumption DEF DecrementCounters
<1>4. ASSUME NEW u \in Users
      PROVE  Cardinality(CountedOf(u)') <= redisUser'[u] /\ redisUser'[u] <= PerUser
  <2>1. CountedOf(u) \in SUBSET Runs
    BY <1>1 DEF CountedOf
  <2>2. Cardinality(CountedOf(u)) <= redisUser[u] /\ redisUser[u] <= PerUser
    BY DEF CapacityCovered
  <2>3. redisUser[u] \in Nat
    BY DEF TypeOK
  <2>4. CASE UserOf[r] = u
    <3>1. CountedOf(u)' = CountedOf(u) \ {r} /\ r \in CountedOf(u)
      BY <2>4 DEF CountedOf
    <3>2. redisUser[u] > 0 /\ Cardinality(CountedOf(u)') <= redisUser[u] - 1
      BY <1>2, <2>1, <2>2, <2>3, <3>1
    <3>3. redisUser'[u] = redisUser[u] - 1
      BY <2>3, <2>4, <3>2 DEF DecrementCounters, Own, TypeOK
    <3>4. QED
      BY <2>2, <2>3, <3>2, <3>3, ConstantsAssumption
  <2>5. CASE UserOf[r] # u
    <3>1. CountedOf(u)' = CountedOf(u)
      BY <2>5 DEF CountedOf
    <3>2. redisUser'[u] = redisUser[u]
      BY <2>5 DEF DecrementCounters, Own, TypeOK
    <3>3. QED
      BY <2>2, <3>1, <3>2
  <2>6. QED
    BY <2>4, <2>5
<1>5. QED
  BY <1>3, <1>4 DEF CapacityCovered

\* Every step keeps the counters above the runs they count.
LEMMA CoverStep ==
  ASSUME TypeOK, CapacityCovered, [Next]_vars, RedisEnabled, ~LeasesOutliveTTL
  PROVE  CapacityCovered'
<1> USE DEF local, redis, stops, env
<1>1. ASSUME NEW r \in Runs, ReserveRedis(r) PROVE CapacityCovered'
  <2>1. CountedRuns' = CountedRuns \cup {r}
    BY <1>1 DEF ReserveRedis, CountedRuns, Counted, TypeOK
  <2>2. QED
    BY <1>1, <2>1, CoverReserve DEF ReserveRedis
<1>2. ASSUME NEW r \in Runs, ReserveFault(r) PROVE CapacityCovered'
  <2>1. CountedRuns' = CountedRuns
    BY <1>2 DEF ReserveFault, CountedRuns, Counted, TypeOK
  <2>2. CASE UNCHANGED <<redisActive, redisUser>>
    BY <2>1, <2>2, CoverKeeps
  <2>3. CASE ~CapReached(r) /\ IncrementCounters(r)
    BY <2>1, <2>3, CoverReserve
  <2>4. QED
    BY <1>2, <2>2, <2>3 DEF ReserveFault
<1>3. ASSUME NEW r \in Runs, ReleaseRedis(r) PROVE CapacityCovered'
  <2>1. r \in CountedRuns /\ CountedRuns' = CountedRuns \ {r}
    BY <1>3 DEF ReleaseRedis, CountedRuns, Counted, TypeOK
  <2>2. QED
    BY <1>3, <2>1, CoverRelease DEF ReleaseRedis
<1>4. ASSUME NEW r \in Runs,
             \/ AcquireGlobal(r) \/ GlobalTimeout(r) \/ AcquireUser(r) \/ UserTimeout(r)
             \/ SetGeneration(r) \/ ReserveRefused(r) \/ PublishGeneration(r)
             \/ PublishFault(r) \/ Release(r) \/ ReleaseFault(r)
      PROVE  CapacityCovered'
  <2>1. UNCHANGED <<redisActive, redisUser>>
    BY <1>4 DEF AcquireGlobal, GlobalTimeout, AcquireUser, UserTimeout, SetGeneration,
                ReserveRefused, PublishGeneration, PublishFault, Release, ReleaseFault
  <2>2. CountedRuns' \subseteq CountedRuns
    BY <1>4 DEF AcquireGlobal, GlobalTimeout, AcquireUser, UserTimeout, SetGeneration,
                ReserveRefused, PublishGeneration, PublishFault, Release, ReleaseFault,
                Held, CountedRuns, Counted, TypeOK
  <2>3. QED
    BY <2>1, <2>2, CoverKeeps
<1>5. ASSUME NEW p \in Procs, NEW r \in Runs,
             Arrive(p, r) \/ Supersede(p, r) \/ CancelStep(p, r)
      PROVE  CapacityCovered'
  <2>1. CountedRuns' \subseteq CountedRuns /\ UNCHANGED <<redisActive, redisUser>>
    BY <1>5 DEF Arrive, Supersede, CancelStep, CancelLocal, CancelRejected, CancelRedis,
                CancelFault, CountedRuns, Counted, TypeOK
  <2>2. QED
    BY <2>1, CoverKeeps
<1>6. CASE ExpireActive
  <2>1. CountedRuns = {} /\ CountedRuns' = {} /\ redisActive' = 0
    BY <1>6 DEF ExpireActive, CountedRuns
  <2>2. Cardinality(CountedRuns') <= redisActive' /\ redisActive' <= MaxStreams
    BY <2>1, FS_EmptySet, ConstantsAssumption
  <2>3. ASSUME NEW u \in Users
        PROVE  Cardinality(CountedOf(u)') <= redisUser'[u] /\ redisUser'[u] <= PerUser
    <3>1. CountedOf(u)' = CountedOf(u) /\ redisUser' = redisUser
      BY <1>6, <2>1 DEF ExpireActive, CountedOf
    <3>2. QED
      BY <3>1 DEF CapacityCovered
  <2>4. QED
    BY <2>2, <2>3 DEF CapacityCovered
<1>7. ASSUME NEW v \in Users, ExpireUser(v) PROVE CapacityCovered'
  <2>1. CountedRuns' = CountedRuns /\ redisActive' = redisActive
    BY <1>7 DEF ExpireUser, CountedRuns
  <2>2. Cardinality(CountedRuns') <= redisActive' /\ redisActive' <= MaxStreams
    BY <2>1 DEF CapacityCovered
  <2>3. ASSUME NEW u \in Users
        PROVE  Cardinality(CountedOf(u)') <= redisUser'[u] /\ redisUser'[u] <= PerUser
    <3>1. CountedOf(u)' = CountedOf(u)
      BY <2>1 DEF CountedOf
    <3>2. CASE u = v
      <4>1. CountedOf(u)' = {} /\ redisUser'[u] = 0
        BY <1>7, <3>1, <3>2 DEF ExpireUser, TypeOK
      <4>2. QED
        BY <4>1, FS_EmptySet, ConstantsAssumption
    <3>3. CASE u # v
      <4>1. redisUser'[u] = redisUser[u]
        BY <1>7, <3>3 DEF ExpireUser, TypeOK
      <4>2. QED
        BY <3>1, <4>1 DEF CapacityCovered
    <3>4. QED
      BY <3>2, <3>3
  <2>4. QED
    BY <2>2, <2>3 DEF CapacityCovered
<1>8. ASSUME NEW s \in Sessions, ExpireGeneration(s) \/ ExpireCancelled(s)
      PROVE  CapacityCovered'
  <2>1. CountedRuns' \subseteq CountedRuns /\ UNCHANGED <<redisActive, redisUser>>
    BY <1>8 DEF ExpireGeneration, ExpireCancelled, CountedRuns
  <2>2. QED
    BY <2>1, CoverKeeps
<1>9. ASSUME NEW p \in Procs, Crash(p) PROVE CapacityCovered'
  <2>1. CountedRuns' \subseteq CountedRuns /\ UNCHANGED <<redisActive, redisUser>>
    BY <1>9 DEF Crash, CountedRuns, Counted, TypeOK
  <2>2. QED
    BY <2>1, CoverKeeps
<1>10. CASE UNCHANGED vars
  <2>1. CountedRuns' \subseteq CountedRuns /\ UNCHANGED <<redisActive, redisUser>>
    BY <1>10 DEF vars, CountedRuns
  <2>2. QED
    BY <2>1, CoverKeeps
<1>11. QED
  BY <1>1, <1>2, <1>3, <1>4, <1>5, <1>6, <1>7, <1>8, <1>9, <1>10
     DEF Next, Acquire, ReleaseStep, Expire

\* As long as no counter expires under a live lease, errors and crashes leak
\* capacity, and never hand it out twice.
THEOREM CoverTheorem == Spec => []CapacityCovered
<1>1. Init => CapacityCovered
  <2> SUFFICES ASSUME Init PROVE CapacityCovered
    OBVIOUS
  <2>1. CountedRuns = {}
    BY DEF Init, CountedRuns, Counted
  <2>2. ASSUME NEW u \in Users PROVE Cardinality(CountedOf(u)) = 0
    <3>1. CountedOf(u) = {}
      BY <2>1 DEF CountedOf
    <3>2. QED
      BY <3>1, FS_EmptySet
  <2>3. QED
    BY <2>1, <2>2, FS_EmptySet, ConstantsAssumption DEF Init, CapacityCovered
<1>2. TypeOK /\ CapacityCovered /\ [Next]_vars => CapacityCovered'
  <2>1. CASE RedisEnabled /\ ~LeasesOutliveTTL
    BY <2>1, CoverStep
  <2>2. CASE ~(RedisEnabled /\ ~LeasesOutliveTTL)
    BY <2>2 DEF CapacityCovered
  <2>3. QED
    BY <2>1, <2>2
<1>3. QED
  BY <1>1, <1>2, TypeTheorem, PTL DEF Spec

-----------------------------------------------------------------------------
(* The processes together implement the admission gate.                     *)

\* What every step does to the set of leases: nothing, or one more that fits,
\* or some fewer.
LEMMA GateStep ==
  ASSUME TypeOK, CapacityCovered, RedisEnabled, ~LeasesOutliveTTL, [Next]_vars
  PROVE  [Gate!Next]_Leases
<1> USE DEF local, redis, stops, env
<1>1. ASSUME NEW r \in Runs, ReserveRedis(r) PROVE Gate!Admit
  <2>1. Leases' = Leases \cup {r} /\ r \in Runs \ Leases
    BY <1>1 DEF ReserveRedis, Leases, TypeOK
  <2>2. Leases \in SUBSET CountedRuns /\ CountedRuns \in SUBSET Runs
    BY DEF Leases, CountedRuns, Counted
  <2>3. ASSUME NEW A \in SUBSET Runs, NEW B \in SUBSET A, NEW n \in Nat, Cardinality(A) <= n
        PROVE  /\ Cardinality(B) \in Nat /\ Cardinality(B) <= n
               /\ Cardinality(B \cup {r}) \in Nat /\ Cardinality(B \cup {r}) <= n + 1
    <3>1. IsFiniteSet(A)
      BY ConstantsAssumption, FS_Subset
    <3>2. IsFiniteSet(B) /\ Cardinality(B) <= Cardinality(A)
      BY <3>1, FS_Subset
    <3>3. Cardinality(A) \in Nat /\ Cardinality(B) \in Nat
      BY <3>1, <3>2, FS_CardinalityType
    <3>4. Cardinality(B \cup {r}) \in {Cardinality(B), Cardinality(B) + 1}
      BY <3>2, FS_AddElement
    <3>5. QED
      BY <2>3, <3>2, <3>3, <3>4
  <2>4. Cardinality(Leases \cup {r}) <= MaxStreams
    <3>1. redisActive \in Nat /\ Cardinality(CountedRuns) <= redisActive
      BY DEF TypeOK, CapacityCovered
    <3>2. redisActive + 1 <= MaxStreams
      BY <1>1, <3>1, ConstantsAssumption DEF ReserveRedis, CapReached
    <3>3. QED
      BY <2>2, <2>3, <3>1, <3>2, ConstantsAssumption
  <2>5. ASSUME NEW u \in Users
        PROVE  Cardinality(Gate!OfUser(Leases \cup {r}, u)) <= PerUser
    <3>1. /\ redisUser[u] \in Nat /\ Cardinality(CountedOf(u)) <= redisUser[u]
          /\ redisUser[u] <= PerUser
      BY DEF TypeOK, CapacityCovered
    <3>2. CountedOf(u) \in SUBSET Runs /\ Gate!OfUser(Leases, u) \in SUBSET CountedOf(u)
      BY <2>2 DEF CountedOf, Gate!OfUser
    <3> DEFINE B == Gate!OfUser(Leases, u)
    <3>3. /\ Cardinality(B) \in Nat /\ Cardinality(B) <= redisUser[u]
          /\ Cardinality(B \cup {r}) \in Nat /\ Cardinality(B \cup {r}) <= redisUser[u] + 1
      <4> HIDE DEF B
      <4>1. B \in SUBSET CountedOf(u)
        BY <3>2 DEF B
      <4>2. QED
        BY <2>3, <3>1, <3>2, <4>1
    <3>4. CASE UserOf[r] = u
      <4>1. Gate!OfUser(Leases \cup {r}, u) = B \cup {r}
        BY <3>4 DEF Gate!OfUser
      <4>2. redisUser[u] + 1 <= PerUser
        BY <1>1, <3>1, <3>4, ConstantsAssumption DEF ReserveRedis, CapReached, Own
      <4> HIDE DEF B
      <4>3. QED
        BY <3>1, <3>3, <4>1, <4>2, ConstantsAssumption
    <3>5. CASE UserOf[r] # u
      <4>1. Gate!OfUser(Leases \cup {r}, u) = B
        BY <3>5 DEF Gate!OfUser
      <4> HIDE DEF B
      <4>2. QED
        BY <3>1, <3>3, <4>1, ConstantsAssumption
    <3>6. QED
      BY <3>4, <3>5
  <2>6. Gate!Fits(Leases \cup {r})
    <3>1. \A S : Gate!Cardinality(S) = Cardinality(S)
      BY DEF Gate!Cardinality, Cardinality
    <3>2. QED
      BY <3>1, <2>4, <2>5 DEF Gate!Fits
  <2>7. QED
    BY <2>1, <2>6 DEF Gate!Admit
<1>2. ASSUME Leases' \subseteq Leases PROVE Gate!Leave
  <2>1. Leases' = Leases \ (Leases \ Leases') /\ Leases \ Leases' \in SUBSET Leases
    BY <1>2
  <2>2. QED
    BY <2>1 DEF Gate!Leave
<1>3. ASSUME NEW r \in Runs, Acquire(r), ~ReserveRedis(r) PROVE Leases' \subseteq Leases
  BY <1>3 DEF Acquire, AcquireGlobal, GlobalTimeout, AcquireUser, UserTimeout, SetGeneration,
              ReserveRefused, ReserveFault, PublishGeneration, PublishFault, Leases, TypeOK
<1>4. ASSUME NEW r \in Runs, ReleaseStep(r) PROVE Leases' \subseteq Leases
  BY <1>4 DEF ReleaseStep, Release, ReleaseRedis, ReleaseFault, Leases, TypeOK
<1>5. ASSUME NEW p \in Procs, NEW r \in Runs,
             Arrive(p, r) \/ Supersede(p, r) \/ CancelStep(p, r)
      PROVE  Leases' \subseteq Leases
  BY <1>5 DEF Arrive, Supersede, CancelStep, CancelLocal, CancelRejected, CancelRedis,
              CancelFault, Leases, TypeOK
<1>6. CASE Expire
  <2>1. Leases' \subseteq Leases
    BY <1>6 DEF Expire, ExpireActive, ExpireUser, ExpireGeneration, ExpireCancelled, Leases
  <2>2. QED
    BY <1>2, <2>1 DEF Gate!Next
<1>7. ASSUME NEW p \in Procs, Crash(p) PROVE Leases' \subseteq Leases
  BY <1>7 DEF Crash, Leases, TypeOK
<1>8. CASE UNCHANGED vars
  BY <1>8 DEF vars, Leases
<1>9. QED
  BY <1>1, <1>2, <1>3, <1>4, <1>5, <1>6, <1>7, <1>8 DEF Next, Gate!Next

\* Over Redis, and without an expiry under live leases, all processes together
\* are one admission gate with the configured caps.
THEOREM GateTheorem ==
  ASSUME RedisEnabled, ~LeasesOutliveTTL
  PROVE  Spec => ImplementsGate
<1>1. Init => Gate!Init
  BY DEF Init, Gate!Init, Leases
<1>2. TypeOK /\ CapacityCovered /\ [Next]_vars => [Gate!Next]_Leases
  BY GateStep
<1>3. QED
  BY <1>1, <1>2, TypeTheorem, CoverTheorem, PTL DEF Spec, ImplementsGate, Gate!Spec

-----------------------------------------------------------------------------
(* Stops and displacements.                                                 *)

\* A generation key names a run whose acquire is through, and so does an
\* acknowledgement; while a key still names an acknowledged run, so does the
\* cancellation key.
StopInv ==
  faults = 0 =>
    \A r \in Runs :
      /\ redisGen[At(r)] = r \/ r \in acked => pc[r] \in {"held", "closing", "done"}
      /\ r \in acked /\ redisGen[At(r)] = r => redisCancelled[At(r)] = r

\* What a step may do to one run's stage, keys and acknowledgement.
LEMMA StopOf ==
  ASSUME TypeOK, StopInv, RedisEnabled, Next, faults' = 0, NEW r \in Runs
  PROVE  /\ redisGen'[At(r)] = r \/ r \in acked' => pc'[r] \in {"held", "closing", "done"}
         /\ r \in acked' /\ redisGen'[At(r)] = r => redisCancelled'[At(r)] = r
<1> USE DEF local, redis, stops, env
<1> DEFINE s == At(r)
           Late == {"held", "closing", "done"}
           Goal == /\ redisGen'[s] = r \/ r \in acked' => pc'[r] \in Late
                   /\ r \in acked' /\ redisGen'[s] = r => redisCancelled'[s] = r
<1>1. /\ faults \in Nat /\ s \in Sessions /\ pc \in [Runs -> Stages]
      /\ redisGen \in [Sessions -> RunOrNone] /\ redisCancelled \in [Sessions -> RunOrNone]
      /\ \A r1 \in Runs : At(r1) \in Sessions
      /\ None \notin Runs
  BY ConstantsAssumption DEF TypeOK, At
<1>2. faults = 0 => (redisGen[s] = r \/ r \in acked => pc[r] \in Late)
                    /\ (r \in acked /\ redisGen[s] = r => redisCancelled[s] = r)
  BY DEF StopInv
\* A step that keeps the keys and the acknowledgements, and a run that was late.
<1>3. ASSUME UNCHANGED <<redisGen, redisCancelled, acked, faults>>, pc[r] \in Late => pc'[r] \in Late
      PROVE  Goal
  BY <1>2, <1>3
<1>4. ASSUME NEW r1 \in Runs,
             \/ AcquireGlobal(r1) \/ GlobalTimeout(r1) \/ AcquireUser(r1) \/ UserTimeout(r1)
             \/ SetGeneration(r1) \/ ReserveRedis(r1) \/ ReserveRefused(r1)
             \/ Release(r1) \/ ReleaseRedis(r1)
      PROVE  Goal
  BY <1>1, <1>3, <1>4
     DEF AcquireGlobal, GlobalTimeout, AcquireUser, UserTimeout, SetGeneration, ReserveRedis,
         ReserveRefused, Release, ReleaseRedis, Held
<1>5. ASSUME NEW r1 \in Runs, ReserveFault(r1) \/ PublishFault(r1) \/ ReleaseFault(r1)
      PROVE  FALSE
  BY <1>1, <1>5 DEF ReserveFault, PublishFault, ReleaseFault
<1>6. ASSUME NEW r1 \in Runs, PublishGeneration(r1) PROVE Goal
  <2>1. /\ pc[r1] = "counted" /\ pc' = [pc EXCEPT ![r1] = "held"]
        /\ redisGen' = [redisGen EXCEPT ![At(r1)] = r1]
        /\ UNCHANGED <<redisCancelled, acked, faults>>
    BY <1>6 DEF PublishGeneration
  <2>2. CASE r1 = r
    BY <1>1, <1>2, <2>1, <2>2
  <2>3. CASE r1 # r
    BY <1>1, <1>2, <2>1, <2>3
  <2> QED BY <2>2, <2>3
<1>7. ASSUME NEW p \in Procs, NEW r1 \in Runs,
             Arrive(p, r1) \/ Supersede(p, r1) \/ CancelLocal(p, r1) \/ CancelRejected(p, r1)
      PROVE  Goal
  BY <1>1, <1>3, <1>7 DEF Arrive, Supersede, CancelLocal, CancelRejected
<1>8. ASSUME NEW p \in Procs, NEW r1 \in Runs, CancelRedis(p, r1) PROVE Goal
  <2>1. /\ UNCHANGED <<redisGen, pc, faults>>
        /\ \/ /\ redisGen[At(r1)] = r1
              /\ redisCancelled' = [redisCancelled EXCEPT ![At(r1)] = r1]
              /\ acked' = acked \cup {r1}
           \/ UNCHANGED <<redisCancelled, acked>>
    BY <1>8 DEF CancelRedis
  <2>2. CASE r1 = r
    BY <1>1, <1>2, <2>1, <2>2
  <2>3. CASE r1 # r
    BY <1>1, <1>2, <2>1, <2>3
  <2> QED BY <2>2, <2>3
<1>9. ASSUME NEW p \in Procs, NEW r1 \in Runs, CancelFault(p, r1) PROVE FALSE
  BY <1>1, <1>9 DEF CancelFault
<1>10. ASSUME ExpireActive \/ \E u \in Users : ExpireUser(u) PROVE Goal
  BY <1>3, <1>10 DEF ExpireActive, ExpireUser
<1>11. ASSUME NEW s1 \in Sessions, ExpireGeneration(s1) \/ ExpireCancelled(s1) PROVE Goal
  <2>1. CASE ExpireGeneration(s1)
    BY <1>1, <1>2, <2>1 DEF ExpireGeneration
  <2>2. CASE ExpireCancelled(s1)
    BY <1>1, <1>2, <2>2 DEF ExpireCancelled
  <2> QED BY <1>11, <2>1, <2>2
<1>12. ASSUME NEW p \in Procs, Crash(p) PROVE Goal
  BY <1>1, <1>3, <1>12 DEF Crash
<1> QED BY <1>4, <1>5, <1>6, <1>7, <1>8, <1>9, <1>10, <1>11, <1>12
           DEF Next, Acquire, ReleaseStep, CancelStep, Expire

\* Over Redis, and as long as Redis answers, a stop that was acknowledged is seen by
\* the worker for as long as it may still output or persist (concurrency.py, cancel and
\* is_cancelled).
THEOREM StopTheorem ==
  ASSUME RedisEnabled
  PROVE  Spec => []AckedStopSticks
<1>1. Init => StopInv
  BY ConstantsAssumption DEF Init, StopInv, At
<1>2. TypeOK /\ TypeOK' /\ StopInv /\ [Next]_vars => StopInv'
  <2> SUFFICES ASSUME TypeOK, TypeOK', StopInv, [Next]_vars, faults' = 0, NEW r \in Runs
               PROVE  /\ redisGen'[At(r)] = r \/ r \in acked' => pc'[r] \in {"held", "closing", "done"}
                      /\ r \in acked' /\ redisGen'[At(r)] = r => redisCancelled'[At(r)] = r
    BY DEF StopInv, At
  <2>1. CASE Next
    BY <2>1, StopOf
  <2>2. CASE UNCHANGED vars
    BY <2>2 DEF vars, redis, stops, env, StopInv
  <2> QED BY <2>1, <2>2
<1>3. TypeOK /\ StopInv => AckedStopSticks
  <2> SUFFICES ASSUME TypeOK, StopInv, faults = 0, NEW r \in acked, IsCurrent(r)
               PROVE  IsCancelled(r)
    BY DEF AckedStopSticks
  <2> QED BY DEF TypeOK, StopInv, IsCurrent, IsCancelled
<1> QED BY <1>1, <1>2, <1>3, TypeTheorem, PTL DEF Spec

\* Neither acquire, supersede, a crash nor an expiry makes a displaced stream current.
LEMMA DisplacedStays ==
  ASSUME TypeOK, Next, NEW r \in Runs, Displaced(r), Held(r)'
  PROVE  ~IsCurrent(r)'
<1> USE DEF local, redis, stops, env
<1> DEFINE s == At(r)
           p == proc[r]
<1>1. /\ pc[r] = "held" /\ p \in Procs /\ s \in Sessions /\ pc' [r] = "held"
      /\ localGen[p][s] # r \/ (RedisEnabled /\ redisGen[s] # r)
      /\ \A r1 \in Runs : At(r1) \in Sessions
      /\ pc \in [Runs -> Stages] /\ redisGen \in [Sessions -> RunOrNone]
      /\ localGen \in [Procs -> [Sessions -> RunOrNone]] /\ None # r
  BY ConstantsAssumption DEF TypeOK, At, Displaced, Held
<1>2. /\ proc'[r] = p
      /\ localGen'[p][s] # r \/ localGen'[p][s] = localGen[p][s]
      /\ redisGen'[s] # r \/ redisGen'[s] = redisGen[s]
  <2>1. ASSUME NEW r1 \in Runs, Acquire(r1) \/ ReleaseStep(r1)
        PROVE  /\ proc' = proc /\ (r1 # r \/ UNCHANGED <<localGen, redisGen>>)
               /\ \/ UNCHANGED localGen
                  \/ localGen' = [localGen EXCEPT ![proc[r1]][At(r1)] = r1]
               /\ \/ UNCHANGED redisGen
                  \/ redisGen' = [redisGen EXCEPT ![At(r1)] = r1]
    BY <1>1, <2>1 DEF Acquire, ReleaseStep, AcquireGlobal, GlobalTimeout, AcquireUser,
       UserTimeout, SetGeneration, ReserveRedis, ReserveRefused, ReserveFault,
       PublishGeneration, PublishFault, Release, ReleaseRedis, ReleaseFault
  <2>2. ASSUME NEW p1 \in Procs, NEW r1 \in Runs,
               \/ Arrive(p1, r1) \/ CancelStep(p1, r1)
        PROVE  UNCHANGED <<localGen, redisGen>> /\ proc'[r] = p
    BY <1>1, <2>2 DEF Arrive, CancelStep, CancelLocal, CancelRejected, CancelRedis,
       CancelFault, TypeOK
  <2>3. ASSUME NEW p1 \in Procs, NEW r1 \in Runs, pc[r1] = "idle", Supersede(p1, r1)
        PROVE  /\ UNCHANGED <<redisGen, proc>> /\ r1 # r
               /\ localGen' = [localGen EXCEPT ![p1][At(r1)] = r1]
    BY <1>1, <2>3 DEF Supersede
  <2>4. CASE Expire
    <3>1. UNCHANGED <<localGen, proc>>
      BY <2>4 DEF Expire, ExpireActive, ExpireUser, ExpireGeneration, ExpireCancelled
    <3>2. UNCHANGED redisGen \/ \E s1 \in Sessions : redisGen' = [redisGen EXCEPT ![s1] = None]
      BY <2>4 DEF Expire, ExpireActive, ExpireUser, ExpireGeneration, ExpireCancelled
    <3> QED BY <1>1, <3>1, <3>2
  <2>5. ASSUME NEW p1 \in Procs, Crash(p1)
        PROVE  UNCHANGED <<redisGen, proc>> /\ (p1 # p)
               /\ localGen' = [localGen EXCEPT ![p1] = [s1 \in Sessions |-> None]]
    BY <1>1, <2>5 DEF Crash
  <2>6. ASSUME NEW r1 \in Runs, r1 # r, NEW p1
        PROVE  /\ [localGen EXCEPT ![p1][At(r1)] = r1][p][s] \in {localGen[p][s], r1}
               /\ [redisGen EXCEPT ![At(r1)] = r1][s] \in {redisGen[s], r1}
    BY <1>1, <2>6
  <2>7. CASE \E r1 \in Runs : Acquire(r1) \/ ReleaseStep(r1)
    <3>1. PICK r1 \in Runs : Acquire(r1) \/ ReleaseStep(r1)
      BY <2>7
    <3>2. CASE r1 = r
      BY <2>1, <3>1, <3>2
    <3>3. CASE r1 # r
      <4>1. localGen'[p][s] \in {localGen[p][s], r1} /\ redisGen'[s] \in {redisGen[s], r1}
        BY <2>1, <2>6, <3>1, <3>3
      <4> QED BY <2>1, <3>1, <3>3, <4>1
    <3> QED BY <3>2, <3>3
  <2>8. CASE \E p1 \in Procs, r1 \in Runs : Arrive(p1, r1) \/ CancelStep(p1, r1)
    BY <2>2, <2>8
  <2>9. CASE \E p1 \in Procs, r1 \in Runs : pc[r1] = "idle" /\ Supersede(p1, r1)
    BY <1>1, <2>3, <2>6, <2>9
  <2>10. CASE \E p1 \in Procs : Crash(p1)
    BY <1>1, <2>5, <2>10
  <2> QED BY <2>4, <2>7, <2>8, <2>9, <2>10 DEF Next
<1> QED BY <1>1, <1>2 DEF IsCurrent, At

\* ... and none of them unmarks a cancelled one that is still current.
LEMMA CancelledStays ==
  ASSUME RedisEnabled, TypeOK, Next, NEW r \in Runs, Held(r), Held(r)', IsCancelled(r), IsCurrent(r), IsCurrent(r)'
  PROVE  IsCancelled(r)'
<1> USE DEF local, redis, stops, env
<1> DEFINE s == At(r)
           p == proc[r]
           Keeps == /\ proc'[r] = p
                    /\ localCancelled[p][s] = r => localCancelled'[p][s] = r
                    /\ redisCancelled[s] = r => redisCancelled'[s] = r
<1>1. /\ pc[r] = "held" /\ pc'[r] = "held" /\ p \in Procs /\ s \in Sessions
      /\ localGen[p][s] = r /\ redisGen[s] = r /\ localGen'[proc'[r]][s] = r
      /\ localGen \in [Procs -> [Sessions -> RunOrNone]]
      /\ \A r1 \in Runs : At(r1) \in Sessions
      /\ pc \in [Runs -> Stages] /\ redisCancelled \in [Sessions -> RunOrNone]
      /\ localCancelled \in [Procs -> [Sessions -> RunOrNone]] /\ None # r
      /\ proc \in [Runs -> Procs \cup {None}]
  BY ConstantsAssumption DEF TypeOK, At, Held, IsCurrent
\* Only the run's own mark is popped.
<1>2. ASSUME NEW p1, NEW r1 \in Runs, PopCancelled(p1, r1), r1 # r
      PROVE  localCancelled[p][s] = r => localCancelled'[p][s] = r
  BY <1>1, <1>2 DEF PopCancelled
<1>3. ASSUME NEW r1 \in Runs, Acquire(r1) \/ ReleaseStep(r1)
      PROVE  Keeps
  <2>1. /\ UNCHANGED <<proc, redisCancelled>>
        /\ r1 = r => UNCHANGED localCancelled
        /\ UNCHANGED localCancelled \/ \E p1 : PopCancelled(p1, r1)
    BY <1>1, <1>3 DEF Acquire, ReleaseStep, AcquireGlobal, GlobalTimeout, AcquireUser,
       UserTimeout, SetGeneration, ReserveRedis, ReserveRefused, ReserveFault,
       PublishGeneration, PublishFault, Release, ReleaseRedis, ReleaseFault
  <2> QED BY <1>2, <2>1
<1>4. ASSUME NEW p1 \in Procs, NEW r1 \in Runs, Arrive(p1, r1) \/ CancelRejected(p1, r1)
      PROVE  Keeps
  BY <1>1, <1>4 DEF Arrive, CancelRejected
\* supersede and cancel mark another run of the process only where it is current.
<1>5. ASSUME NEW p1 \in Procs, NEW r1 \in Runs, Supersede(p1, r1) \/ CancelLocal(p1, r1)
      PROVE  Keeps
  <2>1. UNCHANGED <<proc, redisCancelled>>
    BY <1>5 DEF Supersede, CancelLocal
  <2>2. CASE p1 = p /\ At(r1) = s
    BY <1>1, <1>5, <2>1, <2>2 DEF Supersede, CancelLocal
  <2>3. CASE ~(p1 = p /\ At(r1) = s)
    BY <1>1, <1>5, <2>1, <2>3 DEF Supersede, CancelLocal
  <2> QED BY <2>2, <2>3
<1>6. ASSUME NEW p1 \in Procs, NEW r1 \in Runs, CancelRedis(p1, r1) PROVE Keeps
  <2>1. CASE r1 = r
    BY <1>1, <1>6, <2>1 DEF CancelRedis, PopCancelled
  <2>2. CASE r1 # r
    BY <1>1, <1>2, <1>6, <2>2 DEF CancelRedis
  <2> QED BY <2>1, <2>2
<1>7. ASSUME NEW p1 \in Procs, NEW r1 \in Runs, CancelFault(p1, r1) PROVE Keeps
  BY <1>1, <1>7 DEF CancelFault
<1>8. ASSUME Expire PROVE Keeps
  <2>1. UNCHANGED <<localCancelled, proc>>
    BY <1>8 DEF Expire, ExpireActive, ExpireUser, ExpireGeneration, ExpireCancelled
  <2>2. \/ UNCHANGED redisCancelled
        \/ \E s1 \in Sessions : /\ redisCancelled[s1] # redisGen[s1]
                               /\ redisCancelled' = [redisCancelled EXCEPT ![s1] = None]
    BY <1>8 DEF Expire, ExpireActive, ExpireUser, ExpireGeneration, ExpireCancelled
  <2> QED BY <1>1, <2>1, <2>2
<1>9. ASSUME NEW p1 \in Procs, Crash(p1) PROVE Keeps
  BY <1>1, <1>9 DEF Crash
<1>10. Keeps
  BY <1>3, <1>4, <1>5, <1>6, <1>7, <1>8, <1>9 DEF Next, CancelStep
<1> QED BY <1>1, <1>10 DEF IsCancelled, At

\* Neither acquire, supersede, a crash nor an expiry makes a stream that another turn
\* displaced the current one of its session again (concurrency.py, is_current).
THEOREM DisplacedTheorem == Spec => DisplacedForGood
<1> DEFINE Stays == \A r \in Runs : Displaced(r) /\ Held(r)' => Displaced(r)' /\ ~IsCurrent(r)'
<1>1. TypeOK /\ [Next]_vars => [Stays]_vars
  BY DisplacedStays DEF Displaced, IsCurrent
<1> QED BY <1>1, TypeTheorem, PTL DEF Spec, DisplacedForGood
=============================================================================
