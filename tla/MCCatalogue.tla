------------------------------ MODULE MCCatalogue ------------------------------
(* What is published and what is deployed, side by side: part says which of   *)
(* the two is explored, the other stays as it starts.                          *)
(*  - Deployments: two operators, two teams and a deployment of a single Skill;*)
(*    one key of the registry, which is not in the second team's package.     *)
(*  - Releases: two editors, a Skill, a second Skill that may succeed it under *)
(*    another key, and an expert; two revisions of what is edited and of what  *)
(*    depends on it.                                                           *)
EXTENDS Catalogue, TLC

CONSTANTS t1, t2, s1, w1, w2, sk, sk2, ex

Kinds == t1 :> "expert_team" @@ t2 :> "expert_team" @@ s1 :> "skill"
Roots == t1 :> "one" @@ t2 :> "two" @@ s1 :> "skill"
Packages == t1 :> ("k" :> 1) @@ t2 :> << >> @@ s1 :> ("k" :> 3)

MCType == sk :> "skill" @@ sk2 :> "skill" @@ ex :> "expert"
MCKey == sk :> "s" @@ sk2 :> "s2" @@ ex :> "x"
MCLimit == sk :> 2 @@ sk2 :> 1 @@ ex :> 2

VARIABLE part

MCInit == Init /\ RL!Init /\ part \in {"deployments", "releases"}

MCNext ==
  \/ part = "deployments" /\ Next /\ UNCHANGED <<part, rVars>>
  \/ part = "releases" /\ RL!Next /\ UNCHANGED <<part, vars>>

MCSpec == MCInit /\ [][MCNext]_<<part, vars, rVars>>

Alike == Permutations(Operators)
=============================================================================
