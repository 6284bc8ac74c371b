-------------------------------- MODULE MCReply --------------------------------
(* A turn of the planner, from the message to the reply and the cards under   *)
(* it, side by side: part says which of the three is explored, the others   *)
(* stay as they start.                                                        *)
(*  - PlannerDialogue: four Skills, one with a questionnaire of two questions.*)
(*  - NativeTurn: a Skill with scripts, one with evidence rules, one with     *)
(*    neither; two facts, two tools, the three settings of tool_routing.      *)
(*  - RouteCards: Career and two specialists, one of them for seniors.        *)
EXTENDS Replies, TLC

CONSTANTS general, career, junior, senior, grade, wish

MCSkills == {general, career, junior, senior}
MCAsking == {senior}
MCNative == {senior}
MCAuthorized == {senior, career}
MCRegistries == {MCSkills, {general, junior}}
MCQuestions == {grade, wish}
MCOnSubmit == {grade}
MCOnCompletion == {wish}
MCScope == career :> {} @@ senior :> {"senior"} @@ junior :> {}

VARIABLE part

\* What is not explored starts in one way.
NativeIdle == nMode = "closed" /\ nState.facts = "f0"
CardsIdle == cRegistry = MCSkills \ {general}

MCInit ==
  /\ Init /\ NT!Init /\ RC!Init
  /\ part \in {"dialogue", "native", "cards"}
  /\ part = "dialogue" \/ registry = MCSkills
  /\ part = "native" \/ NativeIdle
  /\ part = "cards" \/ CardsIdle

MCNext ==
  \/ part = "dialogue" /\ Next /\ UNCHANGED <<part, nVars, cVars>>
  \/ part = "native" /\ NT!Next /\ UNCHANGED <<part, vars, cVars>>
  \/ part = "cards" /\ RC!Next /\ UNCHANGED <<part, vars, nVars>>

MCSpec == MCInit /\ [][MCNext]_<<part, vars, nVars, cVars>>
=============================================================================
