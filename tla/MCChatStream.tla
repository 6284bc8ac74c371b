---------------------------- MODULE MCChatStream ----------------------------
(* Instances of ChatStream for TLC: two runs of one session. *)
EXTENDS ChatStream, TLC

CONSTANTS r1, r2, q1, q2, q3, p1, p2

Distinct == (q1 :> r1) @@ (q2 :> r2)
\* The POST of r1 is delivered twice.
Redelivered == (q1 :> r1) @@ (q2 :> r2) @@ (q3 :> r1)

\* The second message is sent once the first one's stream is being set up.
SecondAfterFirst ==
  hpc[q2] # "new" => hpc[q1] \notin {"new", "loaded", "opened", "prepared", "superseding",
                                    "claim", "reserve", "reserving"}

\* The process dies, if at all, while it runs the first turn.
DiesInTurn == crashes > 0 => wpc[r1] = "dead"

\* The processes are interchangeable; used where no liveness is checked.
ProcSymmetry == Permutations(Procs)
=============================================================================
