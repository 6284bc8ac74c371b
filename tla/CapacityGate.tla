---------------------------- MODULE CapacityGate ----------------------------
(***************************************************************************)
(* What turn admission promises, with no process, semaphore or Redis key in *)
(* sight: a set of live leases that never exceeds the deployment-wide cap   *)
(* nor any user's cap.  TurnCoordinator.acquire and release, running in     *)
(* every API process over shared Redis counters, implement it.              *)
(***************************************************************************)
EXTENDS Naturals, FiniteSets

CONSTANTS Runs, Users, UserOf, MaxStreams, PerUser

VARIABLE leases

OfUser(S, u) == {r \in S : UserOf[r] = u}

Fits(S) == /\ Cardinality(S) <= MaxStreams
           /\ \A u \in Users : Cardinality(OfUser(S, u)) <= PerUser

Init == leases = {}

Admit == \E r \in Runs \ leases : /\ Fits(leases \cup {r})
                                  /\ leases' = leases \cup {r}

\* One stream ends, or a process dies with all of its streams.
Leave == \E gone \in SUBSET leases : leases' = leases \ gone

Next == Admit \/ Leave

Spec == Init /\ [][Next]_leases
=============================================================================
