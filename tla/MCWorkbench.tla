------------------------------ MODULE MCWorkbench ------------------------------
(* Tests, packages and the tests of teams, side by side: part says which of   *)
(* the three is explored, the others stay as they start.                       *)
(*  - CandidateTests: two turns of one test and an evaluation of another,     *)
(*    about the same Skill.                                                   *)
(*  - ConfigPackages: two installations, on one of which a Skill and an       *)
(*    expert are edited.                                                      *)
(*  - CandidateTeams: four turns with a coordinator and two other experts.    *)
EXTENDS Workbench, TLC

CONSTANTS goals, skill, other, t1, t2, e1

MCSnapshot == skill :> {goals} @@ other :> {goals}
MCRoot == skill :> goals @@ other :> goals
MCTestOf == t1 :> skill @@ t2 :> skill @@ e1 :> other
MCEdited == {<<"a", "skill">>, <<"a", "expert">>}

VARIABLE part

MCInit ==
  /\ CT!Init /\ CP!Init /\ CM!Init
  /\ part \in {"tests", "packages", "teams"}
  /\ part = "tests" \/ \A k \in TestSkills : cInstalled[k] = 0

MCNext ==
  \/ part = "tests" /\ CT!Next /\ UNCHANGED <<part, pVars, mVars>>
  \/ part = "packages" /\ CP!Next /\ UNCHANGED <<part, cVars, mVars>>
  \/ part = "teams" /\ CM!Next /\ UNCHANGED <<part, cVars, pVars>>

MCSpec ==
  /\ MCInit /\ [][MCNext]_<<part, cVars, pVars, mVars>>
  /\ \A t \in Turns : WF_cVars(CT!Step(t))
=============================================================================
