------------------------------- MODULE MCExperts -------------------------------
(* Who answers and what comes of it, side by side: part says which of the   *)
(* two is explored, the other stays as it starts.                             *)
(*  - ExpertSession: a session with one child and two deployments of one team,*)
(*    of which the second, like the installation, has the coordinator alone.  *)
(*  - ExpertTurn: a coordinator and a member that share a Skill, and an expert*)
(*    of no team.                                                             *)
EXTENDS Experts, TLC

CONSTANTS coach, ann, d1, d2, goals, career

MCTeam == [d \in {d1, d2, None} |-> "growth"]
MCMembers == [d \in {d1, d2, None} |-> IF d = d1 THEN {coach, ann} ELSE {coach}]
MCCoordinator == [d \in {d1, d2, None} |-> coach]
MCPicks == {Agent("growth", coach), Agent(None, ann)}

MCAuthorized == [coord |-> {goals}, member |-> {goals, career}, solo |-> {career}]

VARIABLE part

MCInit ==
  /\ Init /\ ET!Init
  /\ \/ part = "session" /\ tExpert = TurnCoordinator
     \/ part = "turn" /\ served = None /\ cur = Unbound

MCNext ==
  \/ part = "session" /\ Next /\ UNCHANGED <<part, tVars>>
  \/ part = "turn" /\ ET!Next /\ UNCHANGED <<part, vars>>

MCSpec == MCInit /\ [][MCNext]_<<part, vars, tVars>>
=============================================================================
