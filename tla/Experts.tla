-------------------------------- MODULE Experts --------------------------------
(***************************************************************************)
(* The experts of a session: who answers, and which cards and forms are     *)
(* left behind (ExpertSession), and what comes of the turns of whoever      *)
(* answers (ExpertTurn).  The two share no variable: to the first a turn is  *)
(* one step, to the second the choice of an expert is.                      *)
(***************************************************************************)
EXTENDS ExpertSession

CONSTANTS
  Skills,
  TurnExperts,                 \* the experts whose turns are looked at,
  TurnTeam, TurnCoordinator,   \* and the team of the session
  Authorized,
  MaxSkillCalls, MaxRounds

VARIABLES tRegistry, tExpert, tPc, tReply, tFailed, tMissing, tDecision, tForm, tHandoff,
          tCalls, tRequested, tDirect, tWaiting, tIntro, tInspected, tAnswered, tProposed

ET == INSTANCE ExpertTurn WITH
  Experts <- TurnExperts, Team <- TurnTeam, Coordinator <- TurnCoordinator,
  registry <- tRegistry, expert <- tExpert, pc <- tPc, reply <- tReply, failed <- tFailed,
  missing <- tMissing, decision <- tDecision, form <- tForm, handoff <- tHandoff,
  calls <- tCalls, requested <- tRequested, direct <- tDirect, waiting <- tWaiting,
  intro <- tIntro, inspected <- tInspected, answered <- tAnswered, proposed <- tProposed

ASSUME ExpertTurnAssumption == ET!ExpertAssumption

tVars == <<tRegistry, tExpert, tPc, tReply, tFailed, tMissing, tDecision, tForm, tHandoff,
           tCalls, tRequested, tDirect, tWaiting, tIntro, tInspected, tAnswered, tProposed>>

\* What comes of an expert's turn is of that turn: a card stands alone, no Skill is
\* scheduled whose instructions this decision has not read, and what the user reads was
\* said now (agentscope_expert_runtime.py, ExpertTurn).
TurnAnswersForItself == ET!CardStandsAlone /\ ET!ScopeProven /\ ET!AnswersThisTurn
=============================================================================
