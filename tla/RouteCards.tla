------------------------------- MODULE RouteCards -------------------------------
(***************************************************************************)
(* How a turn comes to offer other Skills (skill_runtime/intent_router.py, *)
(* the text routing of runtime_bridge/main_planner.py,                     *)
(* core/skill_lifecycle.py, and its callers core/streaming_runner.py and   *)
(* api/routes/chat.py).                                                    *)
(*                                                                         *)
(* The router compares a message with the examples of the Skills that were *)
(* served when the process started and leaves a note, intent_route.  In    *)
(* the general chat the reply is completed with an invitation to click;    *)
(* when the turn is finalized, the note, the reply and an optional model   *)
(* (the analyzer) make the cards.  A Skill may be published or deleted at  *)
(* any time in between.                                                    *)
(***************************************************************************)
EXTENDS Naturals, FiniteSets

CONSTANTS
  Skills,        \* Career and the specialists
  General, Career,
  Direct,        \* the execution id of an expert's own answer
  Stages, Scope, \* the school stages each Skill is for
  MaxCards,      \* general_chat_choice_max_candidates
  None

\* What the constants are; the instances assume it.
CardsAssumption ==
  /\ Career \in Skills /\ General \notin Skills /\ Direct \notin Skills \cup {General}
  /\ Scope \in [Skills -> SUBSET Stages]
  /\ MaxCards \in Nat

VARIABLES
  registry,   \* the Skills served now
  known,      \* the Skills whose examples the router has
  active,     \* the active Skill
  explicit,   \* Career was entered on purpose
  team,       \* the session is with a team of experts
  route,      \* intent_route: a target, its level, and the candidates with their levels
  entry,      \* include_internal_transition_turn: the turn enters a Skill
  reply,      \* the Skills the reply names, and whether it speaks of clicking
  pc,
  cards,      \* the cards under the last reply
  invited,    \* history: the Skills the reply was completed with
  gone        \* history: Skills deleted since then

vars == <<registry, known, active, explicit, team, route, entry, reply, pc, cards,
          invited, gone>>

\* How well a Skill matches: too little, enough for a card, enough to leave a specialist.
Levels == 0..2
NoRoute == [target |-> None, level |-> 0, candidates |-> [s \in {} |-> 0]]
NoReply == [names |-> {}, clicks |-> FALSE]

Init ==
  /\ registry \in {R \in SUBSET Skills : Career \in R}
  /\ known = registry
  /\ active = General /\ explicit = FALSE /\ team = FALSE
  /\ route = NoRoute /\ entry = FALSE /\ reply = NoReply
  /\ pc = "idle"
  /\ cards = {} /\ invited = {} /\ gone = {}

\* A publication, a deletion; the router is not told.
Publish(s) ==
  /\ registry' = (registry \ {s}) \cup ({s} \ registry)
  /\ gone' = IF pc = "reply" THEN gone \cup (registry \cap {s}) ELSE gone
  /\ UNCHANGED <<known, active, explicit, team, route, entry, reply, pc, cards, invited>>

-----------------------------------------------------------------------------
(* Between turns, and how a turn begins.                                   *)

\* The last reply's cards are no longer active.
Begin(p) ==
  /\ pc = "idle" /\ pc' = p
  /\ cards' = {} /\ invited' = {} /\ gone' = {} /\ reply' = NoReply

\* A card or the toolbar: a transition of a stream with the facts only, one with the
\* messages, which keeps the note, or a request with a plain message, which is not marked
\* as an entry.  Not in a team; a Skill that is gone leaves the message to the router.
Enter(s, how) ==
  /\ Begin("answer") /\ ~team /\ s \in registry
  /\ active' = s
  /\ explicit' = ((s = Career /\ active # Career) \/ (s = active /\ explicit))
  /\ entry' = (how # "plain")
  /\ route' = CASE how = "facts" -> NoRoute
                [] how = "messages" -> route
                [] OTHER -> IF s = active THEN route ELSE NoRoute
  /\ UNCHANGED <<registry, known, team>>

\* A message; a Skill that is gone leaves the session in the general chat.
Say ==
  /\ Begin("route")
  /\ entry' = FALSE
  /\ active' = IF active \in registry THEN active ELSE General
  /\ UNCHANGED <<registry, known, explicit, team, route>>

\* The user leaves the Skill.
Exit ==
  /\ pc = "idle" /\ active # General
  /\ active' = General /\ explicit' = FALSE /\ route' = NoRoute /\ cards' = {}
  /\ UNCHANGED <<registry, known, team, entry, reply, pc, invited, gone>>

\* A team is chosen or left: forms and cards end, the note stays.
ChangeTeam ==
  /\ pc = "idle"
  /\ team' = ~team /\ active' = IF team THEN General ELSE Career
  /\ cards' = {} /\ invited' = {}
  /\ UNCHANGED <<registry, known, explicit, route, entry, reply, pc, gone>>

-----------------------------------------------------------------------------
(* The router.                                                             *)

\* How well the message matches the examples of each Skill, in text or in meaning.
Scores == [known -> Levels]

\* The candidates of a message: the best MaxCards Skills of those above the threshold.
Ranked(score) ==
  LET above == {s \in known : score[s] > 0}
  IN {C \in SUBSET above :
        /\ Cardinality(C) = IF Cardinality(above) < MaxCards THEN Cardinality(above) ELSE MaxCards
        /\ \A s \in C, t \in above \ C : score[s] >= score[t]}

Best(score, S) == {s \in S : score[s] > 0 /\ \A t \in S : score[s] >= score[t]}

Note(target, score, C) == [target |-> target, level |-> score[target], candidates |-> [s \in C |-> score[s]]]

\* A short answer, facts, a long profile or a request the rules recognise, or nothing that
\* resembles the message: it stays where it is.
Kept == {NoRoute}

\* The best of several Skills, except one.
Matched(score, not) ==
  {Note(s, score, C) : C \in Ranked(score), s \in Best(score, known) \ not}

TurnStays == UNCHANGED <<registry, known, team, entry, reply, cards, invited, gone>>

\* The general chat: the candidates are only noted.
RouteGeneral(score) ==
  /\ pc = "route" /\ active = General
  /\ route' \in Kept \cup {n \in Matched(score, {}) : n.target \in DOMAIN n.candidates}
  /\ pc' = "answer"
  /\ UNCHANGED <<active, explicit>> /\ TurnStays

\* The consultant: a clear match is recommended; otherwise, unless the user is there on
\* purpose or asks for planning, the general chat takes over.
RouteCareer(score, planning) ==
  /\ pc = "route" /\ active = Career
  /\ \/ route' \in Matched(score, {Career}) /\ UNCHANGED active
     \/ route' \in Kept /\ active' = IF explicit \/ planning THEN Career ELSE General
  /\ pc' = "answer"
  /\ UNCHANGED explicit /\ TurnStays

\* A specialist: text never leads out of it, another Skill must match very well to be
\* recommended.
RouteSpecialist(score) ==
  /\ pc = "route" /\ active \in Skills \ {Career}
  /\ route' \in Kept \cup {n \in Matched(score, {Career, active}) : n.level = 2}
  /\ pc' = "answer"
  /\ UNCHANGED <<active, explicit>> /\ TurnStays

\* The school stage is asked for: no routing, the note is the one of an earlier turn.
RouteGated ==
  /\ pc = "route" /\ active \in Skills \ {Career}
  /\ pc' = "answer"
  /\ UNCHANGED <<active, explicit, route>> /\ TurnStays

\* The expert of the session has picked a Skill, or answers itself.
RouteExpert(s) ==
  /\ pc = "route"
  /\ \/ s \in registry /\ active' = s /\ route' = NoRoute
     \/ active' = Direct /\ UNCHANGED route
  /\ pc' = "answer"
  /\ UNCHANGED explicit /\ TurnStays

-----------------------------------------------------------------------------
(* The reply and its cards.                                                *)

\* The level a card needs where the session is.
Threshold == IF active \in {General, Career} THEN 1 ELSE 2

\* _build_intent_route_suggestions: the candidates of the note, or its target.
Deterministic ==
  LET offers == IF active \in {General, Career} /\ DOMAIN route.candidates # {}
                THEN route.candidates
                ELSE [s \in {route.target} \ {None} |-> route.level]
  IN {s \in (DOMAIN offers \cap registry) \ {active} : offers[s] >= Threshold}

\* The model replies; in the general chat the reply is completed with an invitation to
\* all candidates, unless it names one of them already.
Answer(names, clicks) ==
  /\ pc = "answer"
  /\ LET inv == IF active = General /\ Deterministic \cap names = {} THEN Deterministic ELSE {}
     IN /\ invited' = inv
        /\ reply' = [names |-> names \cup inv, clicks |-> clicks \/ inv # {}]
  /\ pc' = "reply" /\ gone' = {}
  /\ UNCHANGED <<registry, known, active, explicit, team, route, entry, cards>>

\* The moderation blocks the message or the reply, the model fails, the turn is replaced.
Drop ==
  /\ pc \in {"route", "answer", "reply"}
  /\ pc' = "idle" /\ reply' = NoReply /\ invited' = {} /\ entry' = FALSE
  /\ UNCHANGED <<registry, known, active, explicit, team, route, cards, gone>>

\* The Skills the analyzer may name: those for the school stage, which is read from the
\* facts and the messages (None if they do not tell).
Visible(s, stage) == Scope[s] = {} \/ stage \in Scope[s] \cup {None}
Catalogue(stage) == {s \in registry : Visible(s, stage)}
Found(stage) == SUBSET (Catalogue(stage) \ {active})

\* Router candidates that the reply itself offers to click.
Explicit == IF active = General /\ reply.clicks THEN Deterministic \cap reply.names ELSE {}

\* Mutant: what the analyzer finds replaces what the router found.
OfferAnalyzed(found) ==
  IF registry = {} THEN {}
  ELSE IF active \notin {General, Career} THEN Deterministic
  ELSE IF found # {} THEN found
  ELSE IF Explicit # {} THEN Explicit ELSE Deterministic

\* build_route_suggestions: what the analyzer finds is added; when it finds nothing or
\* fails, the Skills the reply offers come first.  It is not asked in a specialist.
Offer(found) ==
  IF registry = {} THEN {}
  ELSE IF active \notin {General, Career} THEN Deterministic
  ELSE IF found # {} THEN Deterministic \cup found
  ELSE IF Explicit # {} THEN Explicit ELSE Deterministic

\* An expert's own answer, a team and the turn that enters a Skill have no cards.
NoCards == active = Direct \/ team \/ (entry /\ active # General)

\* Mutant: the turn that enters a Skill is finalized like any other.
FinalizeEntry(found, stage) ==
  /\ pc = "reply" /\ found \in Found(stage)
  /\ cards' = IF active = Direct \/ team THEN {} ELSE Offer(found)
  /\ pc' = "idle" /\ reply' = NoReply
  /\ UNCHANGED <<registry, known, active, explicit, team, route, entry, invited, gone>>

\* build_finalized_payload: the cards are put under the reply.
Finalize(found, stage) ==
  /\ pc = "reply" /\ found \in Found(stage)
  /\ cards' = IF NoCards THEN {} ELSE Offer(found)
  /\ pc' = "idle" /\ reply' = NoReply
  /\ UNCHANGED <<registry, known, active, explicit, team, route, entry, invited, gone>>

Next ==
  \/ \E s \in Skills \ {Career} : Publish(s)
  \/ \E s \in Skills, how \in {"facts", "messages", "plain"} : Enter(s, how)
  \/ Say \/ Exit \/ ChangeTeam
  \/ \E score \in Scores :
       \/ RouteGeneral(score)
       \/ \E planning \in BOOLEAN : RouteCareer(score, planning)
       \/ RouteSpecialist(score)
  \/ RouteGated
  \/ \E s \in Skills : RouteExpert(s)
  \/ \E names \in SUBSET Skills, clicks \in BOOLEAN : Answer(names, clicks)
  \/ Drop
  \/ \E found \in SUBSET Skills, stage \in Stages \cup {None} : Finalize(found, stage)

Spec == Init /\ [][Next]_vars

-----------------------------------------------------------------------------
(* Properties.                                                             *)

\* Whoever is invited to click finds the button: each Skill a reply was completed with has
\* its card, unless it was deleted between the invitation and the cards, whatever the
\* analyzer comes up with.  (In a team there are no cards; the invitation is made all the
\* same.)
InvitedIsOffered == pc = "idle" /\ ~team => invited \subseteq cards \cup gone

\* A specialist is not disturbed: the turn that enters it offers nothing else, and later
\* ones at most the Skill the router found to match very well.
SpecialistUndisturbed ==
  pc = "idle" /\ active \in Skills \ {Career} /\ cards # {} =>
    ~entry /\ route.level = 2 /\ cards = {route.target}
=============================================================================
