---------------------------- MODULE MCSandboxPool ----------------------------
(* Three requests for two skills share a pool of two workers, one for each   *)
(* skill, and a cache that holds one result.                                 *)
EXTENDS SandboxPool, TLC

CONSTANTS r1, r2, r3, k1, k2, w1, w2, w3

MCKeyOf == (r1 :> k1) @@ (r2 :> k1) @@ (r3 :> k2)
MCScript == (r1 :> "a") @@ (r2 :> "a") @@ (r3 :> "b")
MCSizeOf == ("a" :> 1) @@ ("b" :> 2)
Alike == Permutations({w1, w2, w3}) \cup Permutations({r1, r2})
=============================================================================
