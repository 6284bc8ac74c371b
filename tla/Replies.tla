-------------------------------- MODULE Replies --------------------------------
(***************************************************************************)
(* A turn of the planner, from the message to the reply and the cards      *)
(* under it: which Skill it is and what becomes of its forms               *)
(* (PlannerDialogue), how a native Skill without a questionnaire comes to  *)
(* its reply (NativeTurn), and which other Skills are offered next         *)
(* (RouteCards).  The three share the Skills and no variable: each follows *)
(* the session through one of the functions the turn is made of.           *)
(***************************************************************************)
EXTENDS PlannerDialogue

CONSTANTS
  NativeSkills, WithScripts, Ruled, Facts, Tools, Looked, Track, Web, Modes,
  Stages, Scope, MaxCards

VARIABLES nMode, nState, nSaved, nPc, nTurn,
          cRegistry, cKnown, cActive, cExplicit, cTeam, cRoute, cEntry, cReply, cPc,
          cCards, cInvited, cGone

NT == INSTANCE NativeTurn WITH
  Skills <- NativeSkills,
  mode <- nMode, state <- nState, saved <- nSaved, pc <- nPc, turn <- nTurn

\* Everything but the general chat may be on a card.
RC == INSTANCE RouteCards WITH
  Skills <- Skills \ {General},
  registry <- cRegistry, known <- cKnown, active <- cActive, explicit <- cExplicit,
  team <- cTeam, route <- cRoute, entry <- cEntry, reply <- cReply, pc <- cPc,
  cards <- cCards, invited <- cInvited, gone <- cGone

ASSUME RepliesAssumption == NT!NativeAssumption /\ RC!CardsAssumption

nVars == <<nMode, nState, nSaved, nPc, nTurn>>
cVars == <<cRegistry, cKnown, cActive, cExplicit, cTeam, cRoute, cEntry, cReply, cPc,
           cCards, cInvited, cGone>>

\* What a native Skill's reply rests on is of this turn: a draft stands alone, results of
\* a script are those of its Skill and facts and are not shown while they are written,
\* evidence was in the prompt, no tool ran twice or without being named
\* (main_planner.py, NativeTurn).
RepliesRestOnThisTurn ==
  /\ NT!DraftStandsAlone /\ NT!ResultsAreCurrent /\ NT!ScriptRepliesHeld
  /\ NT!EvidenceOfThisTurn /\ NT!ToolsAsAuthorised

\* Who is invited to click finds the card, and a specialist is not disturbed by cards
\* (skill_lifecycle.py, RouteCards).
CardsFitTheReply == RC!InvitedIsOffered /\ RC!SpecialistUndisturbed
=============================================================================
