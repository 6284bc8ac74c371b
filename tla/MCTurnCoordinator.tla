------------------------- MODULE MCTurnCoordinator -------------------------
(* Instances of TurnCoordinator for TLC: three runs of two sessions. *)
EXTENDS TurnCoordinator, TLC

CONSTANTS r1, r2, r3, s1, s2, u1, u2, p1, p2

\* Two turns of one session race; a third belongs to another user.
MCRuns == {r1, r2, r3}
MCSessionOf == (r1 :> s1) @@ (r2 :> s1) @@ (r3 :> s2)
MCUserOf == (r1 :> u1) @@ (r2 :> u1) @@ (r3 :> u2)

\* Two turns of one user in one session.
TwoRuns == {r1, r2}
TwoOneSession == [r \in TwoRuns |-> s1]
TwoOneUser == [r \in TwoRuns |-> u1]

\* No user stops anything in this instance.
NoRuns == {}

\* The processes are interchangeable; used where no liveness is checked.
ProcSymmetry == Permutations(Procs)
=============================================================================
